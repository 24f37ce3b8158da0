------------------------------ MODULE Programs -----------------------------
(* Small function bodies, as sema hands them to the flow checks.  Every     *)
(* body declares its variables before it uses them, as name resolution      *)
(* demands; p is a number parameter, f a function.                          *)
EXTENDS CfgBuilder

Param  == decl_ref_expr(param_decl("p"))
Const(x) == set_value(number_literal(x))
Use    == expr_stmt(Param)
Return == return_stmt(<<Param>>)

(* All if and while statements over the given conditions and blocks. *)
Ifs(conds, blocks) ==
  {if_stmt(c, t, f) : c \in conds, t \in blocks,
                      f \in {<<>>} \cup {<<b>> : b \in blocks}}
Whiles(conds, blocks) == {while_stmt(c, b) : c \in conds, b \in blocks}
Compound(conds, blocks) == Ifs(conds, blocks) \cup Whiles(conds, blocks)

UpTo(n, stmts) == UNION {[1 .. m -> stmts] : m \in 0 .. n}

GraphsOf(bodies) == {build(b) : b \in bodies}
=============================================================================
