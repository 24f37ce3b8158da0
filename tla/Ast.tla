-------------------------------- MODULE Ast --------------------------------
(* The resolved syntax tree the back half of the compiler works on (ast.h). *)
(* A node is a record whose field k names its class; an optional child is a *)
(* sequence of length 0 or 1; val is constant_value_container: <<>> until   *)
(* sema calls set_value.  loc is the node's place in the program and stands *)
(* for the pointer that identifies the node.                                *)
EXTENDS Integers, Sequences

(* C++ doubles, as fractions <<p, q>> with q >= 0; q = 0 gives the two      *)
(* infinities and NaN = <<0, 0>>.  Signed zeros and rounding are left out.  *)
Num(n) == <<n, 1>>
NaN    == <<0, 0>>
Zero   == Num(0)
One    == Num(1)

Sign(n)    == IF n > 0 THEN 1 ELSE IF n < 0 THEN -1 ELSE 0
Norm(p, q) == IF q = 0 THEN <<Sign(p), 0>>
              ELSE IF p = 0 THEN Zero
              ELSE IF q < 0 THEN <<-p, -q>> ELSE <<p, q>>

FNeg(x)    == <<-x[1], x[2]>>
FMul(x, y) == Norm(x[1] * y[1], x[2] * y[2])
FDiv(x, y) == Norm(x[1] * y[2], x[2] * y[1])
FAdd(x, y) == IF x[2] = 0 /\ y[2] = 0
                THEN IF x = y THEN x ELSE NaN
                ELSE Norm(x[1] * y[2] + y[1] * x[2], x[2] * y[2])
FSub(x, y) == FAdd(x, FNeg(y))

(* The ordered comparisons: false as soon as one operand is NaN. *)
FLt(x, y) == /\ NaN \notin {x, y}
             /\ IF x[2] = 0 /\ y[2] = 0 THEN x[1] < y[1]
                ELSE x[1] * y[2] < y[1] * x[2]
FEq(x, y) == /\ NaN \notin {x, y}
             /\ IF x[2] = 0 /\ y[2] = 0 THEN x = y
                ELSE x[1] * y[2] = y[1] * x[2]

Double(b) == IF b THEN One ELSE Zero

-----------------------------------------------------------------------------
(* Declarations and expressions *)
var_decl(name, mutable, init) ==
  [k |-> "var", name |-> name, is_mutable |-> mutable, initializer |-> init]
param_decl(name) == [k |-> "param", name |-> name]

number_literal(x)   == [k |-> "num", value |-> x, val |-> <<>>]
decl_ref_expr(d)    == [k |-> "ref", decl |-> d, val |-> <<>>]
call_expr(f, args)  == [k |-> "call", callee |-> f, arguments |-> args, val |-> <<>>]
unary_op(op, e)     == [k |-> "unop", op |-> op, operand |-> e, val |-> <<>>]
binary_op(op, l, r) == [k |-> "binop", op |-> op, lhs |-> l, rhs |-> r, val |-> <<>>]
grouping_expr(e)    == [k |-> "group", expr |-> e, val |-> <<>>]

(* Statements; a block is a sequence of them. *)
decl_stmt(d)        == [k |-> "decl", var |-> d]
assignment(d, e)    == [k |-> "assign", var |-> d, e |-> e]
expr_stmt(e)        == [k |-> "expr", e |-> e]
return_stmt(e)      == [k |-> "return", expr |-> e]
if_stmt(c, t, f)    == [k |-> "if", condition |-> c, true_block |-> t, false_block |-> f]
while_stmt(c, b)    == [k |-> "while", condition |-> c, body |-> b]

(* A function; its type is void or number, the types of its parameters and  *)
(* variables are number, the only other type a declaration can have.        *)
function_decl(id, void, params, body) ==
  [identifier |-> id, is_void |-> void, params |-> params, body |-> body]
=============================================================================
