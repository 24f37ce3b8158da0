----------------------------- MODULE Characters -----------------------------
(* The characters of a source text and the tokens made of them (utils.cpp,  *)
(* lexer.h).  A text is a sequence of characters without its terminator.    *)
EXTENDS Naturals, Sequences, TLC

CONSTANTS Letters, Digits    \* the characters of these two classes

NUL    == "NUL"
Spaces == {" ", "\f", "\n", "\r", "\t", "\\v"}

is_space(c) == c \in Spaces
is_alpha(c) == c \in Letters
is_num(c)   == c \in Digits
is_alnum(c) == is_alpha(c) \/ is_num(c)

(* Their kinds are the characters themselves; that of NUL is Eof.           *)
singleCharTokens == {NUL, "(", ")", "{", "}", ":", ";", ",", "+", "-", "*", "<", ">", "!"}
Eof == NUL

keywords ==
  (<<"f", "n">> :> "KwFn") @@ (<<"v", "o", "i", "d">> :> "KwVoid")
    @@ (<<"r", "e", "t", "u", "r", "n">> :> "KwReturn") @@ (<<"n", "u", "m", "b", "e", "r">> :> "KwNumber")
    @@ (<<"i", "f">> :> "KwIf") @@ (<<"e", "l", "s", "e">> :> "KwElse")
    @@ (<<"w", "h", "i", "l", "e">> :> "KwWhile") @@ (<<"l", "e", "t">> :> "KwLet")
    @@ (<<"v", "a", "r">> :> "KwVar")

token_kind ==
  singleCharTokens \cup {keywords[word] : word \in DOMAIN keywords}
    \cup {"Unk", "Slash", "Equal", "EqualEqual", "AmpAmp", "PipePipe", "Identifier", "Number"}

(* Only numbers and words carry their text; <<>> is no value.               *)
token(loc, kind, value) == [loc |-> loc, kind |-> kind, value |-> value]
source_location(line, col) == [line |-> line, col |-> col]

(* The character at a position, which behind the text is the terminator.    *)
CharAt(text, i) == IF i <= Len(text) THEN text[i] ELSE NUL

(* The classes do not overlap.                                              *)
ASSUME CharactersAssumption ==
  /\ Letters \cap Digits = {}
  /\ (Letters \cup Digits) \cap
       (Spaces \cup singleCharTokens \cup {"=", "&", "|", "/", "."}) = {}
=============================================================================
