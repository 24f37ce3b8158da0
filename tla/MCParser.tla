------------------------------ MODULE MCParser ------------------------------
(* The parser on small and on slightly damaged sources, held against the    *)
(* grammar.                                                                 *)
EXTENDS ParserCorrect, Source

(* What the functions and rules make of each other.                         *)
MCExpr(source, p)             == LET read == parse_expr(source, p) IN read
MCPrefix(source, p)           == LET read == parse_prefix_expr(source, p) IN read
MCLoop(source, p, precedence) == LET read == parse_loop(source, p, precedence) IN read
MCArgs(source, p)             == LET read == parse_args(source, p) IN read
MCEnds(what, t, i)            == LET ends == EndsOf(what, t, i) IN ends

Upto(n, S) == UNION {[1 .. m -> S] : m \in 0 .. n}

Main(mid) == <<"fn", "main", "(", ")", ":", "void", "{">> \o mid \o <<"}">>

(* Every body of up to four of these tokens.                                *)
Bodies == Upto(4, {"x", ";", "=", "{", "}", "if", "else", "return", "fn"})

(* Everything of up to four tokens behind the beginning of an expression.   *)
Tails == Upto(4, {"x", "+", "*", "<", "-", "(", ")", ","})

(* Every chain of three operators.                                          *)
Chains == {<<"x", a, "1", b, "x", c, "1", ";">> : a \in Binary, b \in Binary, c \in Binary}

(* Every token deleted, doubled, or replaced by any other.                  *)
Words == {"x", "1", "fn", "void", "if", "else", "while", "return", "let", "(", ")", "{",
          "}", ":", ";", ",", "=", "-", "<", "Unk"}
Edits(t) ==
  {t} \cup {RemoveAt(t, n) : n \in DOMAIN t} \cup {InsertAt(t, n, t[n]) : n \in DOMAIN t}
      \cup {[t EXCEPT ![n] = w] : n \in DOMAIN t, w \in Words}

Damaged ==
  Edits(<<"fn", "f", "(", "x", ":", "number", ",", ")", ":", "void", "{",
          "if", "x", "{", "x", ";", "}", "else", "if", "1", "{", "}", "else", "{", "return", ";", "}", "}">>
        \o Main(<<"var", "x", ":", "number", "=", "1", ";", "f", "(", "x", ")", ";">>))
  \cup Edits(Main(<<"let", "x", ";", "x", "=", "-", "1", "<", "x", ";",
                    "while", "!", "x", "{", "x", "=", "(", "1", ")", ";", "}">>)
             \o <<"fn", "f", "(", ")", ":", "number", "{", "return", "1", ";", "}">>)

AllSources == {Main(mid) : mid \in Bodies} \cup {Main(<<"x">> \o mid \o <<";">>) : mid \in Tails}
              \cup {Main(chain) : chain \in Chains} \cup Damaged
MCSources == AllSources

(* The tree has the tokens of the source, a function the ones that stand    *)
(* where it does even if others are broken, and every expression the shape  *)
(* that precedence and associativity give it.                               *)
ReadsSource ==
  result # "none" =>
    /\ result = "ok" => Tokens(functions) = Canonical(tokens)
    /\ \A n \in DOMAIN functions :
         LET f == functions[n] IN
         /\ \A j \in FunctionEnds(tokens, f.loc) :
              FunctionTokens(f) = Canonical(SubSeq(tokens, f.loc, j - 1))
         /\ \A e \in Exprs(f.body) : Nested(e)

-----------------------------------------------------------------------------
(* Bodies of broken and of good statements.                                 *)
Pieces == {<<"let", "x", "=", ";">>, <<"x", "=", ";">>, <<"return", "-", ";">>,
           <<"let", "x", "=", "1", ";">>, <<"x", ";">>}

RecoverySources == {Main(a \o b \o c) : a \in Pieces, b \in Pieces, c \in Pieces}

(* A statement behind the ';' of another one is in the tree, whatever was   *)
(* wrong with that one.                                                     *)
GoodStatementsSurvive ==
  result # "none" =>
    \A i \in 2 .. Len(tokens) : \A j \in i .. Len(tokens) :
      /\ tokens[i - 1] \in {";", "{"} /\ tokens[j] = ";"
      /\ ";" \notin {tokens[n] : n \in i .. (j - 1)} /\ j \in SimpleEnds(tokens, i)
      => \E s \in ToSet(functions[1].body) : StmtTokens(s) = SubSeq(tokens, i, j)
=============================================================================
