----------------------------- MODULE Constexpr -----------------------------
(* constant_expression_evaluator (constexpr.cpp).  An std::optional<double> *)
(* is a sequence of at most one number.                                     *)
EXTENDS Ast

to_bool(d) == IF d = <<>> THEN <<>> ELSE <<~FEq(d[1], Zero)>>

(* The arithmetic and comparison operators of the final switch. *)
Arith(op, x, y) ==
  CASE op = "*"  -> FMul(x, y)
    [] op = "/"  -> FDiv(x, y)
    [] op = "+"  -> FAdd(x, y)
    [] op = "-"  -> FSub(x, y)
    [] op = "<"  -> Double(FLt(x, y))
    [] op = ">"  -> Double(FLt(y, x))
    [] op = "==" -> Double(FEq(x, y))

RECURSIVE evaluate(_, _)

(* Only an immutable variable with an initializer has a constant value. *)
eval_decl_ref_expr(dre, effects) ==
  IF dre.decl.k # "var" \/ dre.decl.is_mutable \/ dre.decl.initializer = <<>>
  THEN <<>>
  ELSE evaluate(dre.decl.initializer[1], effects)

eval_unary_op(uop, effects) ==
  LET operand == evaluate(uop.operand, effects)
  IN  IF operand = <<>> THEN <<>>
      ELSE IF uop.op = "!" THEN <<Double(FEq(operand[1], Zero))>>
      ELSE <<FNeg(operand[1])>>

(* || and && : one operand may decide alone; the left one is not needed     *)
(* when side effects are allowed.                                           *)
eval_logical(decisive, lhs, rhs) ==
  IF to_bool(lhs) = <<decisive>> \/ to_bool(rhs) = <<decisive>>
    THEN <<Double(decisive)>>
  ELSE IF lhs # <<>> /\ rhs # <<>> THEN <<Double(~decisive)>>
  ELSE <<>>

eval_binary_op(bop, effects) ==
  LET lhs == evaluate(bop.lhs, effects)
      rhs == evaluate(bop.rhs, effects)
  IN  IF lhs = <<>> /\ ~effects THEN <<>>
      ELSE IF bop.op = "||" THEN eval_logical(TRUE, lhs, rhs)
      ELSE IF bop.op = "&&" THEN eval_logical(FALSE, lhs, rhs)
      ELSE IF lhs = <<>> \/ rhs = <<>> THEN <<>>
      ELSE <<Arith(bop.op, lhs[1], rhs[1])>>

(* A value cached by set_value wins; a call never has a constant value. *)
evaluate(e, effects) ==
  CASE e.val # <<>>   -> e.val
    [] e.val = <<>> /\ e.k = "num"   -> <<e.value>>
    [] e.val = <<>> /\ e.k = "group" -> evaluate(e.expr, effects)
    [] e.val = <<>> /\ e.k = "unop"  -> eval_unary_op(e, effects)
    [] e.val = <<>> /\ e.k = "binop" -> eval_binary_op(e, effects)
    [] e.val = <<>> /\ e.k = "ref"   -> eval_decl_ref_expr(e, effects)
    [] e.val = <<>> /\ e.k = "call"  -> <<>>

(* e->set_value(cee.evaluate(e, false)): what sema does at every root. *)
set_value(e) == [e EXCEPT !.val = evaluate(e, FALSE)]
=============================================================================
