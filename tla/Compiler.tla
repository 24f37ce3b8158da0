------------------------------ MODULE Compiler -----------------------------
(* From resolved functions to the run of the program: the second loop of    *)
(* sema::resolve_ast with the flow checks of every function (sema.cpp:6-13, *)
(* 165-187), the driver's choice to emit code or not (main.cpp:144-149),    *)
(* generate_ir, and the execution of what it emitted.                       *)
EXTENDS CfgBuilder, Machine

CONSTANTS Programs,   \* sequences of resolved functions, the first is println
          Vars,       \* the variables they declare
          Fuel        \* the bound on the calls and loop turns of a run

VARIABLES prog, fn, error,       \* the program, the function under check
          graph,
          is_void, visited, worklist, exit_reached, return_count, returns,
          cur_lattices, changed, pending_errors, bb, preds, tmp, i, inits, errors,
          verdict,    \* of the front end: "none", "accepted" or "rejected"
          meaning     \* history: what the accepted program should do

return_check == <<is_void, visited, worklist, exit_reached, return_count, returns>>
init_check == <<cur_lattices, changed, pending_errors, bb, preds, tmp, i, inits, errors>>
sema == <<prog, fn, error, verdict, meaning>>
vars == <<sema, graph, return_check, init_check, machine>>

Returns == INSTANCE ReturnCheck WITH Graphs <- {}, result <- returns
Inits   == INSTANCE InitCheck WITH Graphs <- {}, result <- inits
Ref     == INSTANCE Meaning
Tree    == INSTANCE StructuredFlow

(* println is there before the others and is not checked: both checks stand *)
(* as if they had accepted it.                                              *)
Init ==
  /\ prog \in Programs /\ fn = 1 /\ error = FALSE
  /\ graph = build(<<>>)
  /\ is_void = TRUE /\ visited = {} /\ worklist = <<>> /\ exit_reached = FALSE
  /\ return_count = 0 /\ returns = "ok"
  /\ cur_lattices = [b \in {0, 1} |-> Inits!Empty] /\ changed = FALSE
  /\ pending_errors = {} /\ bb = 0 /\ preds = {} /\ tmp = Inits!Empty /\ i = 0
  /\ inits = "ok" /\ errors = {}
  /\ verdict = "none" /\ meaning = <<>>
  /\ Idle

Checked == returns # "none" /\ inits # "none" /\ verdict = "none"

(* Slip: a later function that passes makes up for an earlier one. *)
FailedLast == returns = "error" \/ inits = "error"

Failed == error \/ returns = "error" \/ inits = "error"

(* Both checks start on graph g. *)
Check(g) ==
  /\ graph' = g
  /\ visited' = {} /\ worklist' = <<g.entry>> /\ exit_reached' = FALSE
  /\ return_count' = 0 /\ returns' = "none"
  /\ cur_lattices' = [b \in 0 .. g.entry |-> Inits!Empty]
  /\ changed' = FALSE /\ pending_errors' = {}
  /\ bb' = g.entry /\ preds' = Inits!Preds(g, g.entry) /\ tmp' = Inits!Empty
  /\ i' = Len(g.basic_blocks[g.entry].stmts)
  /\ inits' = "none" /\ errors' = {}

(* The next function, with the graph of its own: error |= ... *)
NextFunction ==
  /\ Checked /\ fn < Len(prog)
  /\ error' = Failed
  /\ fn' = fn + 1
  /\ is_void' = prog[fn + 1].is_void
  /\ Check(build(prog[fn + 1].body))
  /\ UNCHANGED <<prog, verdict, meaning, machine>>

(* check_return_on_all_paths first, then check_variable_initialization,     *)
(* whatever the first one found.                                            *)
ReturnStep ==
  /\ returns = "none"
  /\ Returns!Next
  /\ UNCHANGED <<sema, init_check, machine>>

InitStep ==
  /\ returns # "none" /\ inits = "none"
  /\ Inits!Next
  /\ UNCHANGED <<sema, return_check, machine>>

(* Slip: the driver goes on without looking at the verdict. *)
RejectAccepts ==
  /\ Checked /\ fn = Len(prog) /\ Failed
  /\ verdict' = "accepted"
  /\ UNCHANGED <<prog, fn, error, meaning, graph, return_check, init_check, machine>>

(* One function in error is enough: nothing is emitted. *)
Reject ==
  /\ Checked /\ fn = Len(prog) /\ Failed
  /\ verdict' = "rejected"
  /\ UNCHANGED <<prog, fn, error, meaning, graph, return_check, init_check, machine>>

Emit ==
  /\ Checked /\ fn = Len(prog) /\ ~Failed
  /\ verdict' = "accepted"
  /\ Start(generate_ir(prog))
  /\ meaning' = Ref!Run(prog, Fuel)
  /\ UNCHANGED <<prog, fn, error, graph, return_check, init_check>>

(* Runs that outlive the fuel are not followed. *)
Execute ==
  /\ status = "running" /\ meaning.is # "long"
  /\ Step
  /\ UNCHANGED <<sema, graph, return_check, init_check>>

Next == NextFunction \/ ReturnStep \/ InitStep \/ Reject \/ Emit \/ Execute

Spec == Init /\ [][Next]_vars
(* The emitted program is scheduled until it ends. *)
FairSpec == Spec /\ WF_vars(Execute)

-----------------------------------------------------------------------------
TypeOK ==
  /\ fn \in 1 .. Len(prog) /\ error \in BOOLEAN
  /\ verdict \in {"none", "accepted", "rejected"}
  /\ {returns, inits} \subseteq {"none", "ok", "error"}
  /\ status \in {"idle", "running", "done", "undefined"}
  /\ (verdict = "accepted") = (status # "idle")
  /\ \A k \in DOMAIN stack : stack[k].at \in module.fns[stack[k].fn].placed

(* On every function the two checks find what is wrong with the tree, and   *)
(* nothing else: what stands behind a return, in its block or in the blocks *)
(* around it, is checked as code that nothing leads to, and no statement,   *)
(* branch or loop is lost or joined to the wrong place by the graph.        *)
ChecksReadTheTree ==
  returns # "none" /\ inits # "none" =>
    /\ (returns = "error") = Tree!MissesReturn(prog[fn])
    /\ (inits = "error") = Tree!MisusesVariable(prog[fn])

(* The checks are sound for every execution: an accepted program never      *)
(* reads a variable that is not assigned, never assigns a let again, and no *)
(* number function ends without a return.                                   *)
AcceptedIsSafe == verdict = "accepted" => meaning.is # "stuck"

(* The emitted code never loads memory it has not stored to, the slot of    *)
(* the return value included.                                               *)
NoUndefinedLoad == status # "undefined"

(* What the run prints is what the program means, step by step and in the   *)
(* end: folding, short circuits, returns out of loops and dead code do not  *)
(* change it.                                                               *)
MeaningPreserved ==
  /\ status = "running" /\ meaning.is = "run" => IsPrefix(out, meaning.out)
  /\ status = "done" => meaning.is = "run" /\ out = meaning.out

(* Every emitted function passes LLVM's verifier. *)
EmittedVerifies ==
  verdict = "accepted" => \A id \in DOMAIN module.fns : VerifiedFn(module.fns[id])

(* println ends in the printf of the C library. *)
PrintsThroughLibc ==
  verdict = "accepted" => module.symbols["printf()"] = <<"printf", 0>>

(* An accepted program that means to end does end: no block without a way   *)
(* on, no loop that turns once too often.                                   *)
EndsAsMeant ==
  verdict = "accepted" /\ meaning.is # "long" ~> status = "done"
=============================================================================
