------------------------------ MODULE Codegen ------------------------------
(* codegen (codegen.cpp): the LLVM function emitted for a resolved one.     *)
(* A builder state b is [blocks, placed, at, regs]: the instructions of the *)
(* basic blocks created so far, the labels inserted in the function, the    *)
(* insert point (0: cleared) and the number of registers used.              *)
(* Expressions thread a pair [b |-> builder, v |-> operand].                *)
EXTENDS Ast, FiniteSets, SequencesExt

ConstantFP(x) == [const |-> x]
Bool(t)  == [bool |-> t]
Reg(n)   == [reg |-> n]
Arg(n)   == [arg |-> n]

Create(b)    == [b EXCEPT !.blocks = Append(@, <<>>)]
Newest(b)    == Len(b.blocks)
Place(b, l)  == [b EXCEPT !.placed = @ \cup {l}]
SetInsertPoint(b, l) == [b EXCEPT !.at = l]
ClearInsertionPoint(b) == [b EXCEPT !.at = 0]

(* With a cleared insert point IRBuilder creates the instruction, but puts  *)
(* it into no block.                                                        *)
Insert(b, instr) ==
  IF b.at = 0 THEN b ELSE [b EXCEPT !.blocks[b.at] = Append(@, instr)]

Store(b, slot, v) == Insert(b, [op |-> "store", slot |-> slot, val |-> v])
CreateBr(b, l)    == Insert(b, [op |-> "br", cond |-> <<>>, to |-> <<l>>])
CreateCondBr(r, t, f) == Insert(r.b, [op |-> "br", cond |-> <<r.v>>, to |-> <<t, f>>])
CreateRet(b, v)   == Insert(b, [op |-> "ret", val |-> v])

Value(b, instr) ==
  [b |-> [Insert(b, instr @@ [dst |-> b.regs + 1]) EXCEPT !.regs = @ + 1],
   v |-> Reg(b.regs + 1)]
Load(b, slot)     == Value(b, [op |-> "load", slot |-> slot])
Calc(b, f, args)  == Value(b, [op |-> "calc", f |-> f, args |-> args])

IsTerminator(instr) == instr.op \in {"br", "ret"}
Jumps(block, l) ==
  \E i \in DOMAIN block : block[i].op = "br" /\ l \in ToSet(block[i].to)
Predecessors(b, l) == {k \in b.placed : Jumps(b.blocks[k], l)}

d2b(r) == Calc(r.b, "d2b", <<r.v>>)
b2d(r) == Calc(r.b, "b2d", <<r.v>>)

-----------------------------------------------------------------------------
RECURSIVE gen_expr(_, _), gen_args(_, _, _), gen_conditional_op(_, _, _, _)

(* Arguments from left to right; vs are the operands of those done.         *)
gen_args(b, args, vs) ==
  IF args = <<>> THEN [b |-> b, vs |-> vs]
  ELSE LET r == gen_expr(b, Head(args)) IN gen_args(r.b, Tail(args), Append(vs, r.v))

gen_call_expr(b, call) ==
  LET r == gen_args(b, call.arguments, <<>>)
  IN  Value(r.b, [op |-> "call", callee |-> call.callee, args |-> r.vs])

gen_unary_op(b, e) ==
  LET res == gen_expr(b, e.operand)
  IN  IF e.op = "-" THEN Calc(res.b, "fneg", <<res.v>>)
      ELSE LET bool == d2b(res) IN b2d(Calc(bool.b, "not", <<bool.v>>))

(* Slip: the right operand is evaluated in any case. *)
gen_logical_op_eager(b, e) ==
  LET lhs == b2d(d2b(gen_expr(b, e.lhs)))
      rhs == b2d(d2b(gen_expr(lhs.b, e.rhs)))
  IN  b2d(d2b(Calc(rhs.b, IF e.op = "||" THEN "+" ELSE "*", <<lhs.v, rhs.v>>)))

(* The value is a phi over the blocks that jump to the merge block: those   *)
(* that decided on the left operand alone bring isOr.                       *)
gen_logical_op(b, e) ==
  LET isOr  == e.op = "||"
      rhsBB == Newest(b) + 1
      merge == Newest(b) + 2
      b1    == Place(Place(Create(Create(b)), rhsBB), merge)
      b2    == IF isOr THEN gen_conditional_op(b1, e.lhs, merge, rhsBB)
                       ELSE gen_conditional_op(b1, e.lhs, rhsBB, merge)
      rhs   == d2b(gen_expr(SetInsertPoint(b2, rhsBB), e.rhs))
      b3    == CreateBr(rhs.b, merge)
      in    == {<<l, IF l = rhs.b.at THEN rhs.v ELSE Bool(isOr)>> :
                  l \in Predecessors(b3, merge)}
  IN  b2d(Value(SetInsertPoint(b3, merge), [op |-> "phi", in |-> in]))

gen_binary_op(b, e) ==
  IF e.op \in {"&&", "||"} THEN gen_logical_op(b, e)
  ELSE LET lhs == gen_expr(b, e.lhs)
           rhs == gen_expr(lhs.b, e.rhs)
           res == Calc(rhs.b, e.op, <<lhs.v, rhs.v>>)
       IN  IF e.op \in {"<", ">", "=="} THEN b2d(res) ELSE res

(* A folded root is its value; what it was folded from is not emitted.      *)
gen_expr(b, e) ==
  CASE e.val # <<>>                     -> [b |-> b, v |-> ConstantFP(e.val[1])]
    [] e.val = <<>> /\ e.k = "num"      -> [b |-> b, v |-> ConstantFP(e.value)]
    [] e.val = <<>> /\ e.k = "ref"      -> Load(b, e.decl.name)
    [] e.val = <<>> /\ e.k = "call"     -> gen_call_expr(b, e)
    [] e.val = <<>> /\ e.k = "unop"     -> gen_unary_op(b, e)
    [] e.val = <<>> /\ e.k = "binop"    -> gen_binary_op(b, e)
    [] e.val = <<>> /\ e.k = "group"    -> gen_expr(b, e.expr)

(* A condition as control flow: && and || directly below each other share   *)
(* their targets, whatever value their nodes were folded to.                *)
gen_conditional_op(b, e, true_block, false_block) ==
  LET nextBB == Newest(b) + 1
      b1     == Place(Create(b), nextBB)
      rhs(c) == gen_conditional_op(SetInsertPoint(c, nextBB), e.rhs,
                                   true_block, false_block)
  IN  IF e.k = "binop" /\ e.op = "||"
        THEN rhs(gen_conditional_op(b1, e.lhs, true_block, nextBB))
      ELSE IF e.k = "binop" /\ e.op = "&&"
        THEN rhs(gen_conditional_op(b1, e.lhs, nextBB, false_block))
      ELSE CreateCondBr(d2b(gen_expr(b, e)), true_block, false_block)

-----------------------------------------------------------------------------
(* Labels of every function: its entry and its return block. *)
EntryBB == 1
RetBB   == 2

RECURSIVE gen_block(_, _), gen_stmt(_, _)

(* Slip: the value is computed but not stored. *)
gen_return_stmt_drops(b, s) ==
  CreateBr(IF s.expr = <<>> THEN b ELSE gen_expr(b, s.expr[1]).b, RetBB)

gen_return_stmt(b, s) ==
  LET r == gen_expr(b, s.expr[1])
  IN  CreateBr(IF s.expr = <<>> THEN b ELSE Store(r.b, "retval", r.v), RetBB)

gen_decl_stmt(b, d) ==
  LET r == gen_expr(b, d.initializer[1])
  IN  IF d.initializer = <<>> THEN b ELSE Store(r.b, d.name, r.v)

gen_assignment(b, s) ==
  LET r == gen_expr(b, s.e) IN Store(r.b, s.var.name, r.v)

gen_if_stmt(b, s) ==
  LET true_bb == Newest(b) + 1
      exit_bb == Newest(b) + 2
      else_bb == IF s.false_block = <<>> THEN exit_bb ELSE Newest(b) + 3
      b1 == IF s.false_block = <<>> THEN Create(Create(b)) ELSE Create(Create(Create(b)))
      b2 == CreateCondBr(d2b(gen_expr(b1, s.condition)), true_bb, else_bb)
      arm(c, l, blk) ==
        CreateBr(gen_block(SetInsertPoint(Place(c, l), l), blk), exit_bb)
      b3 == arm(b2, true_bb, s.true_block)
      b4 == IF s.false_block = <<>> THEN b3 ELSE arm(b3, else_bb, s.false_block[1])
  IN  SetInsertPoint(Place(b4, exit_bb), exit_bb)

(* Slip: the body does not jump back. *)
gen_while_stmt_open(b, s) ==
  LET n  == Newest(b)
      b1 == CreateBr(Create(Create(Create([b EXCEPT !.placed = @ \cup (n + 1 .. n + 3)]))), n + 1)
      b2 == CreateCondBr(d2b(gen_expr(SetInsertPoint(b1, n + 1), s.condition)), n + 2, n + 3)
  IN  SetInsertPoint(gen_block(SetInsertPoint(b2, n + 2), s.body), n + 3)

gen_while_stmt(b, s) ==
  LET header == Newest(b) + 1
      body   == Newest(b) + 2
      exit   == Newest(b) + 3
      b1 == Create(Create(Create([b EXCEPT !.placed = @ \cup {header, body, exit}])))
      b2 == SetInsertPoint(CreateBr(b1, header), header)
      b3 == CreateCondBr(d2b(gen_expr(b2, s.condition)), body, exit)
      b4 == CreateBr(gen_block(SetInsertPoint(b3, body), s.body), header)
  IN  SetInsertPoint(b4, exit)

gen_stmt(b, s) ==
  CASE s.k = "expr"   -> gen_expr(b, s.e).b
    [] s.k = "if"     -> gen_if_stmt(b, s)
    [] s.k = "decl"   -> gen_decl_stmt(b, s.var)
    [] s.k = "assign" -> gen_assignment(b, s)
    [] s.k = "while"  -> gen_while_stmt(b, s)
    [] s.k = "return" -> gen_return_stmt(b, s)

(* Slip: statements behind a return are emitted into its block. *)
gen_block_on(b, stmts) ==
  IF stmts = <<>> THEN b ELSE gen_block(gen_stmt(b, Head(stmts)), Tail(stmts))

(* Nothing is emitted for the statements behind a return. *)
gen_block(b, stmts) ==
  IF stmts = <<>> THEN b
  ELSE IF Head(stmts).k = "return" THEN ClearInsertionPoint(gen_stmt(b, Head(stmts)))
  ELSE gen_block(gen_stmt(b, Head(stmts)), Tail(stmts))

(* printf(fmt, n), n the parameter of println *)
gen_builtin_print_body(b, println) ==
  LET param == Load(b, println.params[1])
  IN  Value(param.b, [op |-> "call", callee |-> "printf()", args |-> <<param.v>>]).b

RECURSIVE store_params(_, _, _)
store_params(b, params, idx) ==
  IF idx > Len(params) THEN b
  ELSE store_params(Store(b, params[idx], Arg(idx)), params, idx + 1)

NewFunction == [blocks |-> <<<<>>, <<>>>>, placed |-> {EntryBB}, at |-> EntryBB, regs |-> 0]

gen_body(b, fn) ==
  IF fn.identifier = "println" THEN gen_builtin_print_body(b, fn) ELSE gen_block(b, fn.body)

(* The return block exists only when something jumps to it. *)
gen_return_block(b) ==
  IF Predecessors(b, RetBB) = {} THEN b
  ELSE SetInsertPoint(Place(CreateBr(b, RetBB), RetBB), RetBB)

gen_ret(r) == CreateRet(r.b, <<r.v>>)

gen_fn_body(fn) ==
  LET b == gen_return_block(gen_body(store_params(NewFunction, fn.params, 1), fn))
  IN  IF fn.is_void THEN CreateRet(b, <<>>) ELSE gen_ret(Load(b, "retval"))

-----------------------------------------------------------------------------
(* The module: the functions by the identifier that calls look them up by,  *)
(* and the symbol each of them has in the end.  A name that is taken gets a *)
(* number; main becomes __builtin_main behind the wrapper called main.      *)
symbols(resolved_tree) ==
  LET ids     == {resolved_tree[i].identifier : i \in DOMAIN resolved_tree}
      free(n) == <<n, IF n \in ids THEN 1 ELSE 0>>
  IN  [id \in ids \cup {"printf()"} |->
         CASE id = "printf()" -> free("printf")
           [] id = "main"     -> free("__builtin_main")
           [] OTHER           -> <<id, 0>>]

generate_ir(resolved_tree) ==
  [fns |-> [id \in {resolved_tree[i].identifier : i \in DOMAIN resolved_tree} |->
              gen_fn_body(resolved_tree[CHOOSE i \in DOMAIN resolved_tree :
                                          resolved_tree[i].identifier = id])],
   symbols |-> symbols(resolved_tree)]
=============================================================================
