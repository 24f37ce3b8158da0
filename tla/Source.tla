------------------------------- MODULE Source -------------------------------
(* Reference for the trees of the parser: which tokens a tree stands for,   *)
(* and which shape precedence and associativity give it.                    *)
EXTENDS Grammar, SequencesExt

(* The tokens of a tree, without ',' at the end of a list.                  *)
RECURSIVE ExprTokens(_), StmtTokens(_), BlockTokens(_)

Joined(seqs) ==    \* with a ',' between two of them
  FlattenSeq([n \in DOMAIN seqs |-> IF n = 1 THEN seqs[1] ELSE <<",">> \o seqs[n]])

ExprTokens(e) ==
  CASE e.k = "num"   -> <<e.value>>
    [] e.k = "ref"   -> <<e.identifier>>
    [] e.k = "group" -> <<"(">> \o ExprTokens(e.expr) \o <<")">>
    [] e.k = "unop"  -> <<e.op>> \o ExprTokens(e.operand)
    [] e.k = "binop" -> ExprTokens(e.lhs) \o <<e.op>> \o ExprTokens(e.rhs)
    [] e.k = "call"  -> ExprTokens(e.callee) \o <<"(">>
                        \o Joined([n \in DOMAIN e.arguments |-> ExprTokens(e.arguments[n])]) \o <<")">>

Option(before, seqs) == IF seqs = <<>> THEN <<>> ELSE <<before>> \o seqs[1]
Opt(before, es) == Option(before, [n \in DOMAIN es |-> ExprTokens(es[n])])
TypeTokens(before, ts) == Option(before, [n \in DOMAIN ts |-> <<ts[n].name>>])

StmtTokens(s) ==
  CASE s.k = "assign" -> <<s.variable.identifier, "=">> \o ExprTokens(s.e) \o <<";">>
    [] s.k = "return" -> (IF s.expr = <<>> THEN <<"return">> ELSE Opt("return", s.expr)) \o <<";">>
    [] s.k = "decl"   -> <<IF s.var.is_mutable THEN "var" ELSE "let", s.var.identifier>>
                         \o TypeTokens(":", s.var.type) \o Opt("=", s.var.initializer) \o <<";">>
    [] s.k = "while"  -> <<"while">> \o ExprTokens(s.condition) \o BlockTokens(s.body)
    [] s.k = "if"     -> <<"if">> \o ExprTokens(s.condition) \o BlockTokens(s.true_block)
                         \o Option("else", [n \in DOMAIN s.false_block |-> BlockTokens(s.false_block[n])])
    [] OTHER          -> ExprTokens(s) \o <<";">>

BlockTokens(b) == <<"{">> \o FlattenSeq([n \in DOMAIN b |-> StmtTokens(b[n])]) \o <<"}">>

FunctionTokens(f) ==
  <<"fn", f.identifier, "(">>
  \o Joined([n \in DOMAIN f.params |-> <<f.params[n].identifier, ":", f.params[n].type.name>>])
  \o <<")", ":", f.type.name>> \o BlockTokens(f.body)

Tokens(functions) == FlattenSeq([n \in DOMAIN functions |-> FunctionTokens(functions[n])])

(* A source as the tree has it: no ',' at the end of a list, and the if     *)
(* behind an else in a block of its own.                                    *)
ElseIfs(t) == {n \in 2 .. Len(t) : t[n - 1] = "else" /\ t[n] = "if"}
IfEnd(t, i) == Max(Ends("if", t, i))

Canonical(t) ==
  LET ends == [n \in ElseIfs(t) |-> IfEnd(t, n) - 1]
      closed(n) == Cardinality({m \in ElseIfs(t) : ends[m] = n})
  IN  FlattenSeq([n \in DOMAIN t |->
        (IF n \in ElseIfs(t) THEN <<"{">> ELSE <<>>)
        \o (IF t[n] = "," /\ Kind(t, n + 1) = ")" THEN <<>> ELSE <<t[n]>>)
        \o [m \in 1 .. closed(n) |-> "}"]])

-----------------------------------------------------------------------------
(* How tight an expression binds, and trees that need no other parentheses  *)
(* than their groups, operators of one level associating to the left.       *)
Levels == <<{"||"}, {"&&"}, {"=="}, {"<", ">"}, {"+", "-"}, {"*", "/"}>>

Level(e) == IF e.k = "binop" THEN CHOOSE n \in DOMAIN Levels : e.op \in Levels[n]
            ELSE IF e.k = "unop" THEN 7 ELSE 8

RECURSIVE Nested(_)
Nested(e) ==
  CASE e.k = "group" -> Nested(e.expr)
    [] e.k = "unop"  -> Level(e.operand) >= 7 /\ Nested(e.operand)
    [] e.k = "binop" -> /\ Level(e.lhs) >= Level(e) /\ Level(e.rhs) > Level(e)
                        /\ Nested(e.lhs) /\ Nested(e.rhs)
    [] e.k = "call"  -> /\ Level(e.callee) = 8 /\ e.callee.k # "call"
                        /\ \A n \in DOMAIN e.arguments : Nested(e.arguments[n])
    [] OTHER         -> TRUE

RECURSIVE Exprs(_)
Exprs(stmts) ==    \* the expressions of a block
  UNION {LET s == stmts[n] IN
         CASE s.k = "assign" -> {s.e}
           [] s.k = "return" -> {s.expr[m] : m \in DOMAIN s.expr}
           [] s.k = "decl"   -> {s.var.initializer[m] : m \in DOMAIN s.var.initializer}
           [] s.k = "while"  -> {s.condition} \cup Exprs(s.body)
           [] s.k = "if"     -> {s.condition} \cup Exprs(s.true_block)
                                \cup UNION {Exprs(s.false_block[m]) : m \in DOMAIN s.false_block}
           [] OTHER          -> {s} : n \in DOMAIN stmts}
=============================================================================
