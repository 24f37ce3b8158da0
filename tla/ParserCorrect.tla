--------------------------- MODULE ParserCorrect ---------------------------
(* The parser held against the grammar.                                     *)
EXTENDS Parser, Grammar

(* The language is what the rules of the grammar make it.                   *)
ASSUME GrammarAssumption ==
  \A source \in Sources : \A i \in 1 .. Len(source) + 1 : \A what \in Things :
    Ends(what, source, i) = EndsOf(what, source, i)

(* The parser succeeds exactly on the programs of the grammar that have a   *)
(* main function.                                                           *)
AcceptsGrammar == result # "none" => (result = "ok" <=> IsProgram(tokens))

(* An error in one function does not take away another one: wherever a      *)
(* well-formed function stands in the source, one is in the tree.           *)
GoodFunctionsSurvive ==
  result # "none" =>
    \A i \in DOMAIN tokens :
      FunctionEnds(tokens, i) # {} => \E n \in DOMAIN functions : functions[n].loc = i
=============================================================================
