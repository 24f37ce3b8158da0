---------------------------- MODULE MCFindings -----------------------------
(* Programs on which the compiler disagrees with its own tests. *)
EXTENDS MCCompiler

(* 0 / 0, p || 0 / 0 and !p && !(0 / 0): the graph takes the first two for   *)
(* true and the last for false, each in another way.                        *)
NotANumber == Bin("/", N0, N0)
Always  == if_stmt(set_value(NotANumber), <<Returning(N1)>>, <<>>)
Either  == if_stmt(set_value(Bin("||", Param, NotANumber)), <<Returning(N1)>>, <<>>)
Neither ==
  if_stmt(set_value(Bin("&&", unary_op("!", Param), unary_op("!", grouping_expr(NotANumber)))),
          <<>>, <<<<Returning(N1)>>>>)

(* a, b and c are accepted only if each condition is folded like that, and  *)
(* f runs to its end only if the emitted code decides each the other way.   *)
Checking(id, s) == function_decl(id, FALSE, <<"p">>, <<s>>)
NaNPrograms ==
  {Program(<<Always, Either, Neither>>) \o <<Checking("a", Always), Checking("b", Either), Checking("c", Neither)>>}

(* A program with a function called printf. *)
PrintfPrograms ==
  {Append(Program(<<Returning(Param)>>),
          function_decl("printf", TRUE, <<"p">>, <<>>))}
=============================================================================
