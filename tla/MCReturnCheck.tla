--------------------------- MODULE MCReturnCheck ---------------------------
(* ReturnCheck on the graphs of all bodies of up to two statements nested   *)
(* once, over a use, a return and the conditions 0, 1 and unknown, and of   *)
(* a loop around one of those statements with and without a return behind.  *)
EXTENDS ReturnCheck, Programs

Conds  == {Const(Zero), Const(One), Param}
Leaf   == {Use, Return}
Nested == Leaf \cup Compound(Conds, UpTo(1, Leaf))
Loops  == Whiles({Const(One), Param}, {<<s>> : s \in Nested})

AllGraphs == GraphsOf(UpTo(2, Nested) \cup {<<s>> : s \in Loops}
                      \cup {<<s, Return>> : s \in Loops})
MCGraphs == AllGraphs     \* TLC evaluates AllGraphs once, MCGraphs at every use
MCVars   == {}
=============================================================================
