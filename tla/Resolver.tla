------------------------------ MODULE Resolver ------------------------------
(* The resolution of expressions (sema.cpp:454-575), one level at a time:   *)
(* sub[x] is what the recursive call on the operand x returns.              *)
EXTENDS Scopes

CONSTANT OutOfRange       \* the literals on which stod throws

resolve_number(e) == IF e.value \in OutOfRange THEN Crash ELSE Ok(Tree!number_literal(stod(e.value)), FALSE)

(* A function may be named only to be called.                               *)
resolve_decl_ref_expr(found) ==
  IF found = <<>> \/ found[1].k = "fn" THEN nullptr
  ELSE Ok(Tree!decl_ref_expr(found[1].decl), FALSE)

(* The first argument that is no number ends the loop.  The type of an      *)
(* argument is read before anything has been done about a nullptr.          *)
resolve_args(fn, args, sub) ==
  LET bad == {i \in DOMAIN args : sub[args[i]].is # "ok" \/ sub[args[i]].is_void}
  IN  IF bad = {}
      THEN Ok(Tree!call_expr(fn.identifier, [i \in DOMAIN args |-> SetValue(sub[args[i]].e)]), fn.is_void)
      ELSE IF sub[args[First(bad)]].is # "ok" THEN Crash ELSE nullptr

resolve_call_expr(scopes, call, sub) ==
  LET found == lookupDecl(scopes, call.callee.identifier)
  IN  IF call.callee.k # "ref" THEN nullptr
      ELSE IF found = <<>> \/ found[1].k # "fn" THEN nullptr
      ELSE IF found[1].arity # Len(call.arguments) THEN nullptr
      ELSE resolve_args(found[1], call.arguments, sub)

resolve_unary_op(op, operand) ==
  IF operand.is # "ok" THEN operand
  ELSE IF operand.is_void THEN nullptr ELSE Ok(Tree!unary_op(op, operand.e), FALSE)

(* Both operands are resolved before their types are looked at, but the     *)
(* right one only if the left one resolves.                                 *)
resolve_binary_op(op, lhs, rhs) ==
  IF lhs.is # "ok" THEN lhs
  ELSE IF rhs.is # "ok" THEN rhs
  ELSE IF lhs.is_void \/ rhs.is_void THEN nullptr
  ELSE Ok(Tree!binary_op(op, lhs.e, rhs.e), FALSE)

resolve_group_expr(e) == IF e.is # "ok" THEN e ELSE Ok(Tree!grouping_expr(e.e), e.is_void)

resolve_expr(scopes, e, sub) ==
  CASE e.k = "num"   -> resolve_number(e)
    [] e.k = "ref"   -> resolve_decl_ref_expr(lookupDecl(scopes, e.identifier))
    [] e.k = "call"  -> resolve_call_expr(scopes, e, sub)
    [] e.k = "unop"  -> resolve_unary_op(e.op, sub[e.operand])
    [] e.k = "binop" -> resolve_binary_op(e.op, sub[e.lhs], sub[e.rhs])
    [] e.k = "group" -> resolve_group_expr(sub[e.expr])
=============================================================================
