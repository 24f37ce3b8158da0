------------------------------ MODULE Grammar ------------------------------
(* Reference for the parser: which token sequences are programs.            *)
EXTENDS Naturals, Syntax

(* Where what begins at i in the tokens t may end, one past its last token, *)
(* for each kind of thing that may contain its own kind.                    *)
CONSTANT Ends(_, _, _)

Things == {"expr", "args", "unary", "stmts", "if", "params", "functions"}

(* One more token of these kinds, and one more thing.                       *)
Eat(t, S, kinds) == {i + 1 : i \in {i \in S : Kind(t, i) \in kinds}}
Then(t, S, what) == UNION {Ends(what, t, i) : i \in S}

-----------------------------------------------------------------------------
(* Expressions.                                                             *)
Binary == {"*", "/", "+", "-", "<", ">", "==", "&&", "||"}

PrimaryEnds(t, i) ==
  Eat(t, {i}, {"Number", "Identifier"}) \cup Eat(t, Then(t, Eat(t, {i}, {"("}), "expr"), {")"})

PostfixEnds(t, i) ==
  LET primary == PrimaryEnds(t, i)
  IN  primary \cup Eat(t, Then(t, Eat(t, primary, {"("}), "args"), {")"})

UnaryEnds(t, i) == PostfixEnds(t, i) \cup Then(t, Eat(t, {i}, {"-", "!"}), "unary")

ExprEnds(t, i) ==
  LET unary == Ends("unary", t, i)
  IN  unary \cup Then(t, Eat(t, unary, Binary), "expr")

(* Arguments; the last one may be followed by a ','.                        *)
ArgsEnds(t, i) ==
  LET arg == Ends("expr", t, i)
  IN  {i} \cup arg \cup Then(t, Eat(t, arg, {","}), "args")

-----------------------------------------------------------------------------
(* Statements.                                                              *)
Types == {"void", "number", "Identifier"}

InitEnds(t, S) == S \cup Then(t, Eat(t, S, {"="}), "expr")

DeclEnds(t, i) ==
  LET name == Eat(t, Eat(t, {i}, {"let", "var"}), {"Identifier"})
  IN  InitEnds(t, name \cup Eat(t, Eat(t, name, {":"}), Types))

ReturnEnds(t, i) == LET key == Eat(t, {i}, {"return"}) IN key \cup Then(t, key, "expr")

AssignEnds(t, i) == Then(t, Eat(t, Eat(t, {i}, {"Identifier"}), {"="}), "expr")

(* A statement that ends in a ';', without it.                              *)
SimpleEnds(t, i) == Ends("expr", t, i) \cup AssignEnds(t, i) \cup ReturnEnds(t, i) \cup DeclEnds(t, i)

BlockEnds(t, S) == Eat(t, Then(t, Eat(t, S, {"{"}), "stmts"), {"}"})

IfEnds(t, i) ==
  LET true_block == BlockEnds(t, Then(t, Eat(t, {i}, {"if"}), "expr"))
      key == Eat(t, true_block, {"else"})
  IN  true_block \cup BlockEnds(t, key) \cup Then(t, key, "if")

WhileEnds(t, i) == BlockEnds(t, Then(t, Eat(t, {i}, {"while"}), "expr"))

StmtEnds(t, i) == Eat(t, SimpleEnds(t, i), {";"}) \cup Ends("if", t, i) \cup WhileEnds(t, i)

StmtsEnds(t, i) == {i} \cup Then(t, StmtEnds(t, i), "stmts")

-----------------------------------------------------------------------------
(* Functions.                                                               *)
ParamEnds(t, i) == Eat(t, Eat(t, Eat(t, {i}, {"Identifier"}), {":"}), Types)

ParamsEnds(t, i) == {i} \cup ParamEnds(t, i) \cup Then(t, Eat(t, ParamEnds(t, i), {","}), "params")

(* From the ')' of a signature on.                                          *)
BodyEnds(t, S) == BlockEnds(t, Eat(t, Eat(t, Eat(t, S, {")"}), {":"}), Types))

FunctionEnds(t, i) ==
  BodyEnds(t, Then(t, Eat(t, Eat(t, Eat(t, {i}, {"fn"}), {"Identifier"}), {"("}), "params"))

FunctionsEnds(t, i) == {i} \cup Then(t, FunctionEnds(t, i), "functions")

(* A program is a sequence of functions, one of them called main.           *)
EndsIn(t, i) == Len(t) + 1 \in Ends("functions", t, i)

IsProgram(t) == \E i \in Ends("functions", t, 1) : i <= Len(t) /\ EndsIn(t, i) /\ t[i + 1] = "main"

-----------------------------------------------------------------------------
EndsOf(what, t, i) ==
  CASE what = "expr"      -> ExprEnds(t, i)
    [] what = "args"      -> ArgsEnds(t, i)
    [] what = "unary"     -> UnaryEnds(t, i)
    [] what = "stmts"     -> StmtsEnds(t, i)
    [] what = "if"        -> IfEnds(t, i)
    [] what = "params"    -> ParamsEnds(t, i)
    [] what = "functions" -> FunctionsEnds(t, i)
=============================================================================
