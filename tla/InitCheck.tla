----------------------------- MODULE InitCheck -----------------------------
(* sema::check_variable_initialization (sema.cpp:58-139), one step per      *)
(* predecessor joined, statement visited, block stored and sweep ended.     *)
EXTENDS FlowGraph

CONSTANTS Graphs, Vars

ASSUME GraphsAssumption == \A g \in Graphs : WellFormed(g, Vars)

States  == {"absent", "bottom", "unassigned", "assigned", "top"}
Lattice == [Vars -> States]

VARIABLES graph, cur_lattices, changed, pending_errors,
          bb,       \* the block of the inner loop, from entry down to exit
          preds,    \* the predecessors of bb not joined yet
          tmp,      \* the lattice under construction
          i,        \* the statement of bb visited next, 0 when none is left
          result, errors

control == <<bb, preds, tmp, i>>
vars == <<graph, cur_lattices, changed, pending_errors, bb, preds, tmp, i, result, errors>>

(* Slip: the first predecessor that knows the variable wins. *)
joinFirst(s1, s2) == IF s1 = "bottom" THEN s2 ELSE s1

join(s1, s2) ==
  IF s1 = s2 THEN s1
  ELSE IF s1 = "bottom" THEN s2
  ELSE IF s2 = "bottom" THEN s1
  ELSE "top"

(* operator[] of std::map: a missing entry is created, and is bottom. *)
Entry(s) == IF s = "absent" THEN "bottom" ELSE s

Empty == [v \in Vars |-> "absent"]

EnterBlock(b) ==
  /\ bb' = b
  /\ preds' = Preds(graph, b)
  /\ tmp' = Empty
  /\ i' = Len(Stmts(graph, b))

Init ==
  /\ graph \in Graphs
  /\ cur_lattices = [b \in Blocks(graph) |-> Empty]
  /\ changed = FALSE
  /\ pending_errors = {}
  /\ bb = graph.entry
  /\ preds = Preds(graph, bb)
  /\ tmp = Empty
  /\ i = Len(Stmts(graph, bb))
  /\ result = "none"
  /\ errors = {}

InBlock == result = "none" /\ bb # graph.exit

(* The lattices of the predecessors are joined in ascending order, whether  *)
(* or not the edge is reachable.                                            *)
JoinPred ==
  /\ InBlock
  /\ \E p \in preds :
       /\ \A q \in preds : p <= q
       /\ preds' = preds \ {p}
       /\ tmp' = [v \in Vars |->
            IF cur_lattices[p][v] = "absent" THEN tmp[v]
            ELSE join(Entry(tmp[v]), cur_lattices[p][v])]
  /\ UNCHANGED <<graph, cur_lattices, changed, pending_errors, bb, i, result, errors>>

AtStmt == InBlock /\ preds = {} /\ i > 0
stmt == Stmts(graph, bb)[i]

(* An error at statement i of block bb; its kind gives the message. *)
Pend(faulty) ==
  pending_errors' = IF faulty THEN pending_errors \cup {<<bb, i>>} ELSE pending_errors

(* Slip: a statement too many is skipped. *)
VisitDeclSkips ==
  /\ AtStmt /\ stmt.k = "decl"
  /\ tmp' = [tmp EXCEPT ![stmt.var] =
               IF stmt.initialized THEN "assigned" ELSE "unassigned"]
  /\ i' = i - 2
  /\ UNCHANGED <<graph, cur_lattices, changed, pending_errors, bb, preds, result, errors>>

VisitDecl ==
  /\ AtStmt /\ stmt.k = "decl"
  /\ tmp' = [tmp EXCEPT ![stmt.var] =
               IF stmt.initialized THEN "assigned" ELSE "unassigned"]
  /\ i' = i - 1
  /\ UNCHANGED <<graph, cur_lattices, changed, pending_errors, bb, preds, result, errors>>

(* Slip: the error is looked for in the state behind the assignment. *)
VisitAssignLate ==
  /\ AtStmt /\ stmt.k = "assign"
  /\ Pend(~stmt.is_mutable)
  /\ tmp' = [tmp EXCEPT ![stmt.var] = "assigned"]
  /\ i' = i - 1
  /\ UNCHANGED <<graph, cur_lattices, changed, bb, preds, result, errors>>

(* A let may be assigned only while it is certainly unassigned. *)
VisitAssign ==
  /\ AtStmt /\ stmt.k = "assign"
  /\ Pend(~stmt.is_mutable /\ tmp[stmt.var] # "unassigned")
  /\ tmp' = [tmp EXCEPT ![stmt.var] = "assigned"]
  /\ i' = i - 1
  /\ UNCHANGED <<graph, cur_lattices, changed, bb, preds, result, errors>>

(* A variable may be read only when it is certainly assigned. *)
VisitRef ==
  /\ AtStmt /\ stmt.k = "ref"
  /\ Pend(tmp[stmt.var] # "assigned")
  /\ tmp' = [tmp EXCEPT ![stmt.var] = Entry(@)]
  /\ i' = i - 1
  /\ UNCHANGED <<graph, cur_lattices, changed, bb, preds, result, errors>>

VisitOther ==
  /\ AtStmt /\ stmt.k \notin {"decl", "assign", "ref"}
  /\ i' = i - 1
  /\ UNCHANGED <<graph, cur_lattices, changed, pending_errors, bb, preds, tmp, result, errors>>

(* Slips: the last block alone decides on another sweep; storing a lattice  *)
(* always asks for one.                                                     *)
EndBlockBy(change) ==
  /\ InBlock /\ preds = {} /\ i = 0
  /\ changed' = change
  /\ cur_lattices' = [cur_lattices EXCEPT ![bb] = tmp]
  /\ EnterBlock(bb - 1)
  /\ UNCHANGED <<graph, pending_errors, result, errors>>
EndBlockLast   == EndBlockBy(cur_lattices[bb] # tmp)
EndBlockAlways == EndBlockBy(TRUE)

(* All statements visited: store the lattice, go on with block bb - 1. *)
EndBlock ==
  /\ InBlock /\ preds = {} /\ i = 0
  /\ changed' = (changed \/ cur_lattices[bb] # tmp)
  /\ cur_lattices' = [cur_lattices EXCEPT ![bb] = tmp]
  /\ EnterBlock(bb - 1)
  /\ UNCHANGED <<graph, pending_errors, result, errors>>

(* Another sweep after a change: the errors found so far are forgotten. *)
Resweep ==
  /\ result = "none" /\ bb = graph.exit /\ changed
  /\ changed' = FALSE
  /\ pending_errors' = {}
  /\ EnterBlock(graph.entry)
  /\ UNCHANGED <<graph, cur_lattices, result, errors>>

Report ==
  /\ result = "none" /\ bb = graph.exit /\ ~changed
  /\ errors' = pending_errors
  /\ result' = IF pending_errors = {} THEN "ok" ELSE "error"
  /\ UNCHANGED <<graph, cur_lattices, changed, pending_errors, control>>

Next ==
  \/ JoinPred \/ VisitDecl \/ VisitAssign \/ VisitRef \/ VisitOther
  \/ EndBlock \/ Resweep \/ Report

Spec == Init /\ [][Next]_vars
(* One thread runs the loop until it returns. *)
FairSpec == Spec /\ WF_vars(Next)

-----------------------------------------------------------------------------
TypeOK ==
  /\ WellFormed(graph, Vars)
  /\ cur_lattices \in [Blocks(graph) -> Lattice]
  /\ changed \in BOOLEAN
  /\ bb \in Blocks(graph)
  /\ preds \subseteq Preds(graph, bb)
  /\ tmp \in Lattice
  /\ i \in 0 .. Len(Stmts(graph, bb))
  /\ \A e \in pending_errors :
       \E b \in Blocks(graph) : \E j \in DOMAIN Stmts(graph, b) : e = <<b, j>>
  /\ errors \subseteq pending_errors /\ (result = "none" => errors = {})
  /\ result \in {"none", "ok", "error"}

(* The check implements the flow equations: every lattice it stores is the  *)
(* one they give, and it stops only at a solution, with exactly the errors  *)
(* of that solution although the sweeps before it found others.             *)
Abs == INSTANCE Dataflow
ImplementsDataflow == Abs!Spec

(* A sweep that has changed nothing so far agrees with the flow equations   *)
(* on every block it has left behind, so the last sweep checks them all.    *)
QuietSweepSolved ==
  ~changed /\ result = "none" =>
    \A b \in (bb + 1) .. graph.entry : cur_lattices[b] = Abs!Out(graph, cur_lattices, b)

(* The order of the lattice. *)
Below(s, t) ==
  s = t \/ s = "absent" \/ t = "top" \/ (s = "bottom" /\ t # "absent")

(* From sweep to sweep the state of a variable only moves up, so that each  *)
(* entry changes at most three times.                                       *)
LatticesAscend ==
  [][\A b \in Blocks(graph), v \in Vars :
       Below(cur_lattices[b][v], cur_lattices'[b][v])]_vars

(* The sweeps reach a fixed point, through any nesting of loops. *)
Termination == <>(result # "none")
=============================================================================
