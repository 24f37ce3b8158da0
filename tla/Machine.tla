------------------------------ MODULE Machine ------------------------------
(* The run of an emitted module: LLVM's meaning of the instructions codegen *)
(* uses, as far as it uses them.  It starts with __builtin_main, which the  *)
(* wrapper called main calls before it returns 0.                           *)
EXTENDS Codegen

VARIABLES module,    \* the emitted module
          stack,     \* the frames of the calls in progress, the running one last
          out,       \* the numbers printed so far
          status     \* "idle", "running", "done", or "undefined" behaviour

machine == <<module, stack, out, status>>

Frame(fn, args, dst) ==
  [fn |-> fn, args |-> args, dst |-> dst,      \* dst: the caller's register
   at |-> EntryBB, pc |-> 1, from |-> 0,       \* from: the block left last
   regs |-> <<>>, slots |-> <<>>]

Idle == module = <<>> /\ stack = <<>> /\ out = <<>> /\ status = "idle"

Start(m) ==
  /\ module' = m
  /\ stack' = <<Frame("main", <<>>, 0)>>
  /\ out' = <<>>
  /\ status' = "running"

top   == Last(stack)
code(f) == module.fns[f.fn].blocks[f.at]
instr == code(top)[top.pc]

(* A terminator ends every block control can enter. *)
CanStep == status = "running" /\ stack # <<>> /\ top.pc \in DOMAIN code(top)

Operand(v) ==
  CASE "const" \in DOMAIN v -> v.const
    [] "bool" \in DOMAIN v  -> v.bool
    [] "reg" \in DOMAIN v   -> top.regs[v.reg]
    [] "arg" \in DOMAIN v   -> top.args[v.arg]
Operands(vs) == [i \in DOMAIN vs |-> Operand(vs[i])]

Set(f, k, x) == [i \in DOMAIN f \cup {k} |-> IF i = k THEN x ELSE f[i]]

(* The running frame goes on behind its instruction, with x in register r.  *)
Put(frame, r, x) == [frame EXCEPT !.pc = @ + 1, !.regs = Set(@, r, x)]
Resume(frame) == stack' = Append(Front(stack), frame)

Eval(f, x) ==
  CASE f = "fneg" -> FNeg(x[1])
    [] f = "d2b"  -> FLt(x[1], Zero) \/ FLt(Zero, x[1])     \* fcmp one
    [] f = "not"  -> ~x[1]
    [] f = "b2d"  -> Double(x[1])
    [] f = "<"    -> FLt(x[1], x[2])
    [] f = ">"    -> FLt(x[2], x[1])
    [] f = "=="   -> FEq(x[1], x[2])
    [] f = "+"    -> FAdd(x[1], x[2])
    [] f = "-"    -> FSub(x[1], x[2])
    [] f = "*"    -> FMul(x[1], x[2])
    [] f = "/"    -> FDiv(x[1], x[2])

Compute ==
  /\ CanStep /\ instr.op = "calc"
  /\ Resume(Put(top, instr.dst, Eval(instr.f, Operands(instr.args))))
  /\ UNCHANGED <<module, out, status>>

(* The value of memory nothing was stored to is undefined. *)
LoadSlot ==
  /\ CanStep /\ instr.op = "load"
  /\ IF instr.slot \in DOMAIN top.slots
       THEN Resume(Put(top, instr.dst, top.slots[instr.slot])) /\ UNCHANGED status
       ELSE status' = "undefined" /\ UNCHANGED stack
  /\ UNCHANGED <<module, out>>

StoreSlot ==
  /\ CanStep /\ instr.op = "store"
  /\ Resume([top EXCEPT !.pc = @ + 1, !.slots = Set(@, instr.slot, Operand(instr.val))])
  /\ UNCHANGED <<module, out, status>>

(* The value of a phi is the one for the block control came from. *)
Phi ==
  /\ CanStep /\ instr.op = "phi"
  /\ \E in \in instr.in : in[1] = top.from /\ Resume(Put(top, instr.dst, Operand(in[2])))
  /\ UNCHANGED <<module, out, status>>

Branch ==
  /\ CanStep /\ instr.op = "br"
  /\ LET taken == IF instr.cond = <<>> \/ Operand(instr.cond[1]) THEN 1 ELSE 2
     IN  Resume([top EXCEPT !.at = instr.to[taken], !.pc = 1, !.from = top.at])
  /\ UNCHANGED <<module, out, status>>

Call ==
  /\ CanStep /\ instr.op = "call" /\ instr.callee # "printf()"
  /\ stack' = Append(stack, Frame(instr.callee, Operands(instr.args), instr.dst))
  /\ UNCHANGED <<module, out, status>>

CallPrintf ==
  /\ CanStep /\ instr.op = "call" /\ instr.callee = "printf()"
  /\ out' = Append(out, Operand(instr.args[1]))
  /\ Resume([top EXCEPT !.pc = @ + 1])
  /\ UNCHANGED <<module, status>>

Ret ==
  /\ CanStep /\ instr.op = "ret"
  /\ IF Len(stack) = 1
       THEN stack' = <<>> /\ status' = "done"
       ELSE LET rest   == Front(stack)
                caller == Last(rest)
                back   == IF instr.val = <<>> THEN [caller EXCEPT !.pc = @ + 1]
                          ELSE Put(caller, top.dst, Operand(instr.val[1]))
            IN  stack' = Append(Front(rest), back) /\ UNCHANGED status
  /\ UNCHANGED <<module, out>>

Step ==
  \/ Compute \/ LoadSlot \/ StoreSlot \/ Phi \/ Branch
  \/ Call \/ CallPrintf \/ Ret

(* What LLVM's verifier demands of a function: every block that is part of  *)
(* it ends in its only terminator, jumps stay inside, and a phi has a value *)
(* for each predecessor and no other block.                                 *)
VerifiedFn(f) ==
  \A l \in f.placed :
    LET block == f.blocks[l]
        last  == Len(block)
    IN  /\ \A i \in DOMAIN block : IsTerminator(block[i]) <=> i = last
        /\ last > 0
        /\ block[last].op = "br" => ToSet(block[last].to) \subseteq f.placed
        /\ \A i \in DOMAIN block : block[i].op = "phi" =>
             /\ {in[1] : in \in block[i].in} = Predecessors(f, l)
             /\ Cardinality(block[i].in) = Cardinality(Predecessors(f, l))
=============================================================================
