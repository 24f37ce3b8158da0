------------------------------- MODULE Tokens -------------------------------
(* What a lexer of this language promises: blanks and comments aside, a     *)
(* source is cut into the longest possible tokens, each with its place.     *)
EXTENDS Characters, FiniteSets, FiniteSetsExt

CONSTANT Buffers    \* the texts to be read

VARIABLES buffer,   \* the text
          at,       \* behind the last token
          tokens    \* the tokens so far

Init == buffer \in Buffers /\ at = 1 /\ tokens = <<>>

Char(i) == CharAt(buffer, i)

(* A comment runs to the end of its line; NUL ends it as well.              *)
InComment(i) ==
  \E k \in at .. i : /\ Char(k) = "/" /\ Char(k + 1) = "/"
                     /\ \A j \in k .. i : Char(j) \notin {"\n", NUL}
Blank(i) == is_space(Char(i)) \/ InComment(i)

(* The texts from i up to but excluding j.                                  *)
Number(i, j)   == i < j /\ \A k \in i .. j - 1 : is_num(Char(k))
Fraction(i, j) == \E p \in i .. j - 1 : Char(p) = "." /\ Number(i, p) /\ Number(p + 1, j)
Word(i, j)     == i < j /\ is_alpha(Char(i)) /\ \A k \in i .. j - 1 : is_alnum(Char(k))
Pair(i, j)     == j = i + 2 /\ Char(i) \in {"=", "&", "|"} /\ Char(i + 1) = Char(i)
Dangling(i, j) == Number(i, j - 1) /\ Char(j - 1) = "."     \* 1. is no number

Lexeme(i, j) ==
  j = i + 1 \/ Number(i, j) \/ Fraction(i, j) \/ Word(i, j) \/ Pair(i, j) \/ Dangling(i, j)

Longest(i, j) == Lexeme(i, j) /\ \A m \in j + 1 .. Len(buffer) + 2 : ~Lexeme(i, m)

Pairs == [c \in {"=", "&", "|"} |->
            CASE c = "=" -> "EqualEqual" [] c = "&" -> "AmpAmp" [] c = "|" -> "PipePipe"]

KindOf(i, j) ==
  CASE Number(i, j) \/ Fraction(i, j) -> "Number"
    [] Word(i, j) -> LET val == SubSeq(buffer, i, j - 1)
                     IN  IF val \in DOMAIN keywords THEN keywords[val] ELSE "Identifier"
    [] Pair(i, j) -> Pairs[Char(i)]
    [] j = i + 1 /\ Char(i) \in singleCharTokens -> Char(i)
    [] j = i + 1 /\ Char(i) = "=" -> "Equal"
    [] j = i + 1 /\ Char(i) = "/" -> "Slash"
    [] OTHER -> "Unk"

ValueOf(i, j) ==
  IF Number(i, j) \/ Fraction(i, j) \/ Word(i, j) THEN SubSeq(buffer, i, j - 1) ELSE <<>>

(* Lines and columns count from 1.                                          *)
Newlines(i) == {n \in 1 .. i - 1 : Char(n) = "\n"}
Place(i)    == source_location(1 + Cardinality(Newlines(i)), i - Max(Newlines(i) \cup {0}))

TokenFrom(i, j) ==
  /\ \A k \in at .. i - 1 : Blank(k)
  /\ ~Blank(i) /\ Longest(i, j)
  /\ tokens' = Append(tokens, token(Place(i), KindOf(i, j), ValueOf(i, j)))
  /\ at' = j
  /\ UNCHANGED buffer

(* Eof is the last token.                                                   *)
Ended == tokens # <<>> /\ tokens[Len(tokens)].kind = Eof

NextToken == ~Ended /\ \E i \in at .. Len(buffer) + 1 : \E j \in i + 1 .. Len(buffer) + 2 : TokenFrom(i, j)

Spec == Init /\ [][NextToken]_<<buffer, at, tokens>>
=============================================================================
