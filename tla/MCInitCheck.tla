---------------------------- MODULE MCInitCheck ----------------------------
EXTENDS Walks, Programs

var == var_decl("v", TRUE, <<>>)
let == var_decl("l", FALSE, <<>>)

Set(d)  == assignment(d, Const(One))
Get(d)  == expr_stmt(decl_ref_expr(d))

(* All blocks of up to two statements over one declared variable d: reads,  *)
(* writes, a return, and one if or while around a block of one.             *)
Leaf(d)   == {Set(d), Get(d), return_stmt(<<>>)}
Nested(d) == Leaf(d) \cup Compound({Param}, UpTo(1, Leaf(d)))

Bodies(d) ==
  {<<decl_stmt(d)>> \o b : b \in UpTo(2, Nested(d))}
  \cup {<<while_stmt(Param, <<decl_stmt(d)>> \o b)>> : b \in UpTo(1, Nested(d))}
  \cup {<<decl_stmt(d), while_stmt(Param, <<s>>), Get(d)>> : s \in Compound({Param}, UpTo(1, {Set(d), Get(d)}))}

AllGraphs == GraphsOf(Bodies(var) \cup Bodies(let))
MCGraphs  == AllGraphs    \* TLC evaluates AllGraphs once, MCGraphs at every use
MCVars   == {"v", "l"}
=============================================================================
