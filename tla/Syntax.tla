------------------------------- MODULE Syntax -------------------------------
(* Tokens (lexer.h) and the tree the parser builds of them (ast.h:18-230).  *)
(* A token is its text; an optional child is a sequence of at most one.     *)
(* Locations serve messages only; the one of a function is kept.            *)
EXTENDS Naturals, Sequences

CONSTANTS Identifiers, Numbers    \* the texts of these two kinds of token

Kind(tokens, p) ==
  IF p > Len(tokens) THEN "Eof"
  ELSE IF tokens[p] \in Identifiers THEN "Identifier"
  ELSE IF tokens[p] \in Numbers THEN "Number"
  ELSE tokens[p]

(* What a parsing function leaves behind: the position of next_token and    *)
(* the tree, <<>> for the nullptr that goes with a reported error.          *)
Null(p)      == [pos |-> p, tree |-> <<>>]
Parsed(p, e) == [pos |-> p, tree |-> <<e>>]

number_literal(val)      == [k |-> "num", value |-> val]
decl_ref_expr(id)        == [k |-> "ref", identifier |-> id]
call_expr(callee, args)  == [k |-> "call", callee |-> callee, arguments |-> args]
unary_op(operand, op)    == [k |-> "unop", operand |-> operand, op |-> op]
binary_op(lhs, rhs, op)  == [k |-> "binop", lhs |-> lhs, rhs |-> rhs, op |-> op]
grouping_expr(e)         == [k |-> "group", expr |-> e]

assignment(var, e)       == [k |-> "assign", variable |-> var, e |-> e]
return_stmt(e)           == [k |-> "return", expr |-> e]
if_stmt(cond, t, f)      == [k |-> "if", condition |-> cond, true_block |-> t, false_block |-> f]
while_stmt(cond, body)   == [k |-> "while", condition |-> cond, body |-> body]
decl_stmt(var)           == [k |-> "decl", var |-> var]

(* Types: the two builtin ones, or the name of a custom one.                *)
builtin_void    == [kind |-> "void", name |-> "void"]
builtin_number  == [kind |-> "number", name |-> "number"]
custom(name)    == [kind |-> "custom", name |-> name]

var_decl(id, t, is_mutable, init) ==
  [identifier |-> id, type |-> t, is_mutable |-> is_mutable, initializer |-> init]
param_decl(id, t) == [identifier |-> id, type |-> t]
function_decl(loc, id, params, t, body) ==
  [loc |-> loc, identifier |-> id, params |-> params, type |-> t, body |-> body]
=============================================================================
