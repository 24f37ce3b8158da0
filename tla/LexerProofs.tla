---------------------------- MODULE LexerProofs ----------------------------
(* For every text, the lexer stays inside it and cuts it into its tokens.   *)
EXTENDS Lexer, FiniteSetTheorems, SequenceTheorems, TLAPS

InToken == {"digits", "point", "fraction", "word"}

(* The token being read, or the next one, begins here.                      *)
from == IF state \in InToken THEN idx - Len(val) ELSE idx

(* A comment that begins at k goes on at i.                                 *)
Open(k, i) ==
  /\ Promise!Char(k) = "/" /\ Promise!Char(k + 1) = "/"
  /\ \A j \in k .. i : Promise!Char(j) \notin {"\n", NUL}

(* What lies between the last token and the next.                           *)
Gap ==
  /\ from \in behind .. idx
  /\ \A k \in behind .. from - 1 : Promise!Blank(k)
  /\ IF state = "comment" THEN \E k \in behind .. idx - 1 : Open(k, idx - 1)
     ELSE \A k \in behind .. from - 1 : ~Open(k, from)

(* What has been read of a token.                                           *)
Begun ==
  /\ state \in InToken =>
       /\ from < idx
       /\ val = SubSeq(buffer, from, idx - 1) /\ loc = Promise!Place(from)
  /\ state = "digits" => Promise!Number(from, idx)
  /\ state = "point" => Promise!Number(from, idx - 1) /\ Promise!Char(idx - 1) = "."
  /\ state = "fraction" =>
       \E p \in from + 1 .. idx - 1 :
         /\ Promise!Number(from, p) /\ Promise!Char(p) = "."
         /\ \A k \in p + 1 .. idx : k < idx \/ k = p + 1 => is_num(Promise!Char(k))
  /\ state = "word" => Promise!Word(from, idx)

(* The line and the column count the characters eaten.                      *)
LastNewline == idx - 1 - column
Counted ==
  /\ line = 1 + Cardinality(Promise!Newlines(idx))
  /\ LastNewline \in Promise!Newlines(idx) \cup {0}
  /\ \A n \in Promise!Newlines(idx) : n <= LastNewline

Stops == state = "done" <=> Promise!Ended

IInv == TypeOK /\ Gap /\ Begun /\ Counted /\ Stops

-----------------------------------------------------------------------------
(* The classes of characters.                                               *)
LEMMA Classes ==
  ASSUME NEW c
  PROVE  /\ Promise!is_space(c) <=> is_space(c)
         /\ Promise!is_num(c) <=> is_num(c)
         /\ Promise!is_alpha(c) <=> is_alpha(c)
         /\ Promise!is_alnum(c) <=> is_alnum(c)
         /\ is_alnum(c) => c \notin singleCharTokens \cup {"=", "&", "|", "/", "."} /\ ~is_space(c)
         /\ is_num(c) => ~is_alpha(c)
         /\ is_alnum(c) <=> is_alpha(c) \/ is_num(c)
         /\ c \in singleCharTokens \cup {"=", "&", "|", "/", "."} => ~is_space(c)
         /\ is_space("\n") /\ NUL \in singleCharTokens
         /\ Promise!singleCharTokens = singleCharTokens /\ Promise!NUL = NUL
         /\ {"=", "&", "|", "/", "."} \cap singleCharTokens = {}
<1>1. {"=", "&", "|", "/", "."} \cap singleCharTokens = {}
  BY DEF singleCharTokens, NUL
<1>2. \A s \in Spaces : s \notin singleCharTokens \cup {"=", "&", "|", "/", "."}
  BY DEF Spaces, singleCharTokens, NUL
<1>3. Promise!singleCharTokens = singleCharTokens /\ Promise!NUL = NUL /\ Promise!Spaces = Spaces
  BY DEF Promise!singleCharTokens, singleCharTokens, Promise!NUL, NUL, Promise!Spaces, Spaces
<1>4. is_space("\n") /\ NUL \in singleCharTokens
  BY DEF is_space, Spaces, singleCharTokens
<1> QED
  BY <1>1, <1>2, <1>3, <1>4, CharactersAssumption
  DEF CharactersAssumption, is_space, is_num, is_alpha, is_alnum,
      Promise!is_space, Promise!is_num, Promise!is_alpha, Promise!is_alnum

(* The character ahead is there as long as it is not the terminator.        *)
LEMMA Ahead ==
  ASSUME TypeOK
  PROVE  /\ peek = Promise!Char(idx) /\ ahead = Promise!Char(idx + 1)
         /\ \A i \in Nat \ {0} : Promise!Char(i) # NUL => i <= Len(buffer) /\ Promise!Char(i) = buffer[i]
         /\ buffer' = buffer => \A i : Promise!Char(i)' = Promise!Char(i)
<1>1. \A i : Promise!Char(i) = CharAt(buffer, i)
  BY DEF Promise!Char, Promise!CharAt, CharAt, Promise!NUL, NUL
<1>2. buffer' = buffer => \A i : Promise!Char(i)' = CharAt(buffer, i)
  BY DEF Promise!Char, Promise!CharAt, CharAt, Promise!NUL, NUL
<1> QED BY <1>1, <1>2 DEF peek, ahead, CharAt

-----------------------------------------------------------------------------
(* Which texts are the longest from i on, by the character after them.      *)
LEMMA LongestSingle ==
  ASSUME NEW i \in Int, ~is_alnum(Promise!Char(i)),
         Promise!Char(i) \in {"=", "&", "|"} => Promise!Char(i + 1) # Promise!Char(i)
  PROVE  Promise!Longest(i, i + 1)
BY Classes DEF Promise!Number, Promise!Longest, Promise!Lexeme, Promise!Fraction, Promise!Word,
               Promise!Pair, Promise!Dangling

LEMMA LongestPair ==
  ASSUME NEW i \in Int, Promise!Char(i) \in {"=", "&", "|"}, Promise!Char(i + 1) = Promise!Char(i)
  PROVE  Promise!Longest(i, i + 2)
BY Classes DEF Promise!Number, Promise!Longest, Promise!Lexeme, Promise!Fraction, Promise!Word,
               Promise!Pair, Promise!Dangling

LEMMA LongestNumber ==
  ASSUME NEW i \in Int, NEW j \in Int, Promise!Number(i, j),
         ~is_num(Promise!Char(j)), Promise!Char(j) # "."
  PROVE  Promise!Longest(i, j)
BY Classes DEF Promise!Number, Promise!Longest, Promise!Lexeme, Promise!Fraction, Promise!Word,
               Promise!Pair, Promise!Dangling

LEMMA LongestFraction ==
  ASSUME NEW i \in Int, NEW p \in Int, NEW j \in Int,
         Promise!Number(i, p), Promise!Char(p) = ".", Promise!Number(p + 1, j), ~is_num(Promise!Char(j))
  PROVE  Promise!Longest(i, j) /\ Promise!Fraction(i, j)
BY Classes DEF Promise!Number, Promise!Longest, Promise!Lexeme, Promise!Fraction, Promise!Word,
               Promise!Pair, Promise!Dangling

LEMMA LongestDangling ==
  ASSUME NEW i \in Int, NEW j \in Int, Promise!Number(i, j - 1), Promise!Char(j - 1) = ".",
         ~is_num(Promise!Char(j))
  PROVE  Promise!Longest(i, j)
BY Classes DEF Promise!Number, Promise!Longest, Promise!Lexeme, Promise!Fraction, Promise!Word,
               Promise!Pair, Promise!Dangling

LEMMA LongestWord ==
  ASSUME NEW i \in Int, NEW j \in Int, Promise!Word(i, j), ~is_alnum(Promise!Char(j))
  PROVE  Promise!Longest(i, j)
BY Classes DEF Promise!Number, Promise!Longest, Promise!Lexeme, Promise!Fraction, Promise!Word,
               Promise!Pair, Promise!Dangling

-----------------------------------------------------------------------------
(* Lines and columns.                                                       *)
LEMMA MaxIs ==
  ASSUME NEW S, NEW m \in Int, S \subseteq Int, m \in S, \A n \in S : m >= n
  PROVE  Promise!Max(S) = m
<1>1. \A x \in S : (\A y \in S : x >= y) => x = m
  OBVIOUS
<1> QED BY <1>1 DEF Promise!Max

LEMMA PlaceHere ==
  ASSUME TypeOK, Counted
  PROVE  Promise!Place(idx) = Here
<1>1. Promise!Newlines(idx) \subseteq Int /\ LastNewline \in Int
  BY DEF Promise!Newlines, TypeOK, LastNewline
<1>2. \A n \in Promise!Newlines(idx) \cup {0} : LastNewline >= n
  BY <1>1 DEF Counted, TypeOK, LastNewline, Promise!Newlines
<1>3. Promise!Max(Promise!Newlines(idx) \cup {0}) = LastNewline
  BY <1>1, <1>2, MaxIs DEF Counted
<1>4. idx - LastNewline = column + 1
  BY DEF LastNewline, TypeOK
<1>5. Promise!Cardinality(Promise!Newlines(idx)) = Cardinality(Promise!Newlines(idx))
  BY DEF Promise!Cardinality, Cardinality
<1> QED
  BY <1>3, <1>4, <1>5 DEF Promise!Place, Here, Promise!source_location, source_location, Counted

LEMMA EatCounts ==
  ASSUME TypeOK, Counted, eat_next, buffer' = buffer
  PROVE  Counted' /\ {line, column}' \subseteq Nat
<1> DEFINE N == Promise!Newlines(idx)
<1>1. IsFiniteSet(N) /\ Cardinality(N) \in Nat /\ idx \notin N /\ N \subseteq Nat
  <2>1. N \subseteq 1 .. idx - 1
    BY DEF Promise!Newlines
  <2>2. IsFiniteSet(1 .. idx - 1)
    BY FS_Interval DEF TypeOK
  <2> QED BY <2>1, <2>2, FS_Subset, FS_CardinalityType DEF TypeOK
<1>2. Promise!Newlines(idx)' = IF peek = "\n" THEN N \cup {idx} ELSE N
  BY Ahead DEF Promise!Newlines, eat_next, TypeOK
<1>3. Cardinality(N \cup {idx}) = Cardinality(N) + 1
  BY <1>1, FS_AddElement
<1>4. line' = 1 + Cardinality(Promise!Newlines(idx)')
  BY <1>1, <1>2, <1>3 DEF Counted, eat_next
<1>5. LastNewline' = IF peek = "\n" THEN idx ELSE LastNewline
  BY DEF LastNewline, eat_next, TypeOK
<1>6. \A n \in N : n <= idx
  BY DEF Promise!Newlines, TypeOK
<1>7. line' \in Nat /\ column' \in Nat
  BY DEF eat_next, TypeOK
<1>8. LastNewline' \in Promise!Newlines(idx)' \cup {0}
  BY <1>2, <1>5 DEF Counted
<1>9. \A n \in Promise!Newlines(idx)' : n <= LastNewline'
  BY <1>2, <1>5, <1>6 DEF Counted, TypeOK
<1> HIDE DEF N
<1> QED BY <1>4, <1>7, <1>8, <1>9 DEF Counted

LEMMA EatTwoCounts ==
  ASSUME TypeOK, Counted, eat_two, buffer' = buffer, peek # "\n", ahead # "\n"
  PROVE  Counted' /\ {line, column}' \subseteq Nat
<1>1. Promise!Newlines(idx)' = Promise!Newlines(idx)
  BY Ahead DEF Promise!Newlines, eat_two, TypeOK
<1>2. LastNewline' = LastNewline
  BY DEF LastNewline, eat_two, TypeOK
<1> QED BY <1>1, <1>2 DEF Counted, eat_two, TypeOK

LEMMA StayCounts ==
  ASSUME TypeOK, Counted, UNCHANGED <<buffer, idx, line, column>>
  PROVE  Counted' /\ {line, column}' \subseteq Nat
<1>1. Promise!Newlines(idx)' = Promise!Newlines(idx)
  BY Ahead DEF Promise!Newlines
<1> QED BY <1>1 DEF Counted, TypeOK, LastNewline

-----------------------------------------------------------------------------
(* A token begins at from unless a blank does.                              *)
LEMMA NotBlank ==
  ASSUME TypeOK, Gap, state # "comment", ~is_space(Promise!Char(from)),
         Promise!Char(from) # "/" \/ Promise!Char(from + 1) # "/"
  PROVE  ~Promise!Blank(from)
<1>1. from \in Int /\ behind \in Int
  BY DEF Gap, TypeOK
<1> QED BY <1>1, Classes DEF Promise!Blank, Promise!InComment, Gap, Open

(* What next_token returns is the next token.                               *)
LEMMA Returned ==
  ASSUME IInv, state \notin {"comment", "done"}, buffer' = buffer,
         NEW kind \in token_kind, NEW value \in Seq(STRING), Return(Promise!Place(from), kind, value),
         Promise!Place(from) \in Locations,
         NEW j \in from + 1 .. Len(buffer) + IF kind = Eof THEN 2 ELSE 1, idx' = j,
         ~Promise!Blank(from), Promise!Longest(from, j),
         kind = Promise!KindOf(from, j), value = Promise!ValueOf(from, j),
         Counted', {line, column}' \subseteq Nat
  PROVE  IInv' /\ Promise!NextToken
<1> DEFINE t == token(Promise!Place(from), kind, value)
           T == [loc : Locations, kind : token_kind, value : Seq(STRING)]
<1>1. t \in T /\ t.kind = kind
  BY DEF token
<1>2. tokens' = Append(tokens, t) /\ behind' = j /\ state' = (IF kind = Eof THEN "done" ELSE "start")
  BY DEF Return
<1>3. tokens' \in Seq(T) /\ tokens' # <<>> /\ tokens'[Len(tokens')] = t
  <2>1. tokens \in Seq(T)
    BY DEF IInv, TypeOK
  <2> HIDE DEF t, T
  <2> QED BY <1>1, <1>2, <2>1, AppendProperties
<1>4. /\ behind \in Nat \ {0} /\ from \in behind .. Len(buffer) + 1 /\ from \in Nat
      /\ j \in Nat /\ from < j /\ from' = j
  <2>1. behind \in Nat \ {0} /\ idx \in Nat /\ from \in Nat /\ behind <= from /\ from <= idx
    BY DEF IInv, TypeOK, Gap
  <2>2. j \in Nat /\ from < j
    BY <2>1 DEF IInv, TypeOK
  <2>3. from' = j
    BY <1>2 DEF from, InToken
  <2> QED BY <2>1, <2>2, <2>3 DEF IInv, TypeOK
<1>5. TypeOK'
  <2> HIDE DEF t
  <2>1. loc' \in Locations /\ val' \in Seq(STRING) /\ buffer' \in Seq(STRING)
    BY DEF Return, IInv, TypeOK
  <2>2. state' \in {"start", "done"} /\ (state' = "done" <=> kind = Eof)
    BY <1>2
  <2>3. idx' \in 1 .. Len(buffer') + (IF state' = "done" THEN 2 ELSE 1) /\ behind' \in 1 .. idx'
    BY <1>2, <1>4, <2>2
  <2> QED BY <1>3, <2>1, <2>2, <2>3 DEF TypeOK
<1>6. Gap' /\ Begun'
  <2>1. state' \notin InToken \cup {"comment"}
    BY <1>2 DEF InToken
  <2>2. (\A k \in behind' .. from' - 1 : FALSE) /\ from' \in behind' .. idx'
    BY <1>2, <1>4
  <2> QED BY <2>1, <2>2 DEF Gap, Begun, InToken
<1>7. Stops'
  BY <1>1, <1>2, <1>3 DEF Stops, Promise!Ended, Promise!Eof, Eof, Promise!NUL, NUL
<1>8. Promise!TokenFrom(from, j)
  BY <1>2, <1>4 DEF Promise!TokenFrom, Promise!token, token, IInv, Gap
<1> QED BY <1>4, <1>5, <1>6, <1>7, <1>8 DEF IInv, Stops, Promise!NextToken

-----------------------------------------------------------------------------
(* The tokens that are read in one step.                                    *)
LEMMA Started ==
  ASSUME IInv, state = "start"
  PROVE  /\ from = idx /\ idx \in 1 .. Len(buffer) + 1 /\ Promise!Place(idx) = Here
         /\ Here \in Locations /\ <<>> \in Seq(STRING)
         /\ peek = Promise!Char(idx) /\ ahead = Promise!Char(idx + 1)
         /\ peek # NUL => idx \in 1 .. Len(buffer)
         /\ peek # NUL /\ ahead # NUL => idx + 1 \in 1 .. Len(buffer)
BY PlaceHere, Ahead DEF IInv, TypeOK, from, InToken, Here, source_location, Locations

LEMMA OneReturned ==
  ASSUME IInv, state = "start", ~is_space(peek), ~is_alnum(peek),
         peek \in {"=", "&", "|", "/"} => ahead # peek,
         NEW kind \in token_kind, kind = Promise!KindOf(idx, idx + 1),
         peek = NUL => kind = Eof,
         eat_next, Return(Here, kind, <<>>)
  PROVE  IInv' /\ Promise!NextToken
<1>1. buffer' = buffer /\ TypeOK /\ Counted /\ Gap
  BY DEF Return, IInv
<1>2. Counted' /\ {line, column}' \subseteq Nat
  BY <1>1, EatCounts
<1>3. Promise!Longest(from, idx + 1)
  BY Started, LongestSingle DEF IInv, TypeOK
<1>4. ~Promise!Blank(from)
  BY <1>1, Started, NotBlank
<1>5. Promise!ValueOf(from, idx + 1) = <<>>
  BY Started, Classes DEF Promise!ValueOf, Promise!Number, Promise!Fraction, Promise!Word
<1>6. idx + 1 \in from + 1 .. Len(buffer) + IF kind = Eof THEN 2 ELSE 1
  BY Started, <1>1 DEF TypeOK
<1>7. idx' = idx + 1
  BY DEF eat_next
<1> QED BY <1>1, <1>2, <1>3, <1>4, <1>5, <1>6, <1>7, Started, Returned

LEMMA TwoReturned ==
  ASSUME IInv, state = "start", peek \in {"=", "&", "|"}, ahead = peek,
         NEW kind \in token_kind, kind = Promise!KindOf(idx, idx + 2),
         eat_two, Return(Here, kind, <<>>)
  PROVE  IInv' /\ Promise!NextToken
<1>1. buffer' = buffer /\ TypeOK /\ Counted /\ Gap
  BY DEF Return, IInv
<1>2. Counted' /\ {line, column}' \subseteq Nat
  <2>1. peek # "\n" /\ ahead # "\n"
    BY Classes
  <2> QED BY <1>1, <2>1, EatTwoCounts
<1>3. Promise!Longest(from, idx + 2)
  <2>1. from = idx /\ idx \in Int /\ peek = Promise!Char(idx) /\ ahead = Promise!Char(idx + 1)
    BY Started
  <2> QED BY <2>1, LongestPair
<1>4. ~Promise!Blank(from)
  <2>1. peek # "/" /\ ~is_space(peek)
    BY Classes
  <2> QED BY <1>1, <2>1, Started, NotBlank
<1>5. Promise!ValueOf(from, idx + 2) = <<>>
  BY Started, Classes DEF Promise!ValueOf, Promise!Number, Promise!Fraction, Promise!Word
<1>6. idx + 2 \in from + 1 .. Len(buffer) + IF kind = Eof THEN 2 ELSE 1
  BY Started, Classes, <1>1 DEF TypeOK
<1>7. idx' = idx + 2
  BY DEF eat_two
<1> QED BY <1>1, <1>2, <1>3, <1>4, <1>5, <1>6, <1>7, Started, Returned

(* The kinds of these tokens.                                               *)
LEMMA OneKind ==
  ASSUME NEW i \in Int, ~is_alnum(Promise!Char(i))
  PROVE  Promise!KindOf(i, i + 1) =
           CASE Promise!Char(i) \in singleCharTokens -> Promise!Char(i)
             [] Promise!Char(i) = "=" -> "Equal"
             [] Promise!Char(i) = "/" -> "Slash"
             [] OTHER -> "Unk"
<1>1. ~Promise!Number(i, i + 1) /\ ~Promise!Fraction(i, i + 1) /\ ~Promise!Word(i, i + 1) /\ ~Promise!Pair(i, i + 1)
  BY Classes DEF Promise!Number, Promise!Fraction, Promise!Word, Promise!Pair
<1>2. Promise!singleCharTokens = singleCharTokens /\ {"=", "/"} \cap singleCharTokens = {}
  BY Classes
<1> QED BY <1>1, <1>2 DEF Promise!KindOf

LEMMA TwoKind ==
  ASSUME NEW i \in Int, Promise!Char(i) \in {"=", "&", "|"}, Promise!Char(i + 1) = Promise!Char(i)
  PROVE  Promise!KindOf(i, i + 2) = Promise!Pairs[Promise!Char(i)]
<1>1. ~Promise!Number(i, i + 2) /\ ~Promise!Fraction(i, i + 2) /\ ~Promise!Word(i, i + 2) /\ Promise!Pair(i, i + 2)
  BY Classes DEF Promise!Number, Promise!Fraction, Promise!Word, Promise!Pair
<1> QED BY <1>1 DEF Promise!KindOf

LEMMA SingleStep ==
  ASSUME IInv, SingleChar \/ Slash \/ Unknown
  PROVE  IInv' /\ Promise!NextToken
<1> USE DEF Start
<1>0. idx \in Int /\ peek = Promise!Char(idx)
  BY Started DEF SingleChar, Slash, Unknown
<1>1. CASE SingleChar
  <2>1. ~is_alnum(peek) /\ ~is_space(peek) /\ peek \notin {"=", "&", "|", "/"}
    BY <1>1, Classes DEF SingleChar
  <2>2. Promise!KindOf(idx, idx + 1) = peek /\ peek \in token_kind
    BY <1>0, <1>1, <2>1, OneKind DEF SingleChar, token_kind
  <2> QED BY <1>1, <2>1, <2>2, OneReturned DEF SingleChar, Eof
<1>2. CASE Slash
  <2>1. ~is_alnum(peek) /\ ~is_space(peek) /\ peek \notin singleCharTokens
    BY <1>2, Classes DEF Slash
  <2>2. Promise!KindOf(idx, idx + 1) = "Slash" /\ "Slash" \in token_kind /\ peek # NUL
    BY <1>0, <1>2, <2>1, OneKind, Classes DEF Slash, token_kind
  <2> QED BY <1>2, <2>1, <2>2, OneReturned DEF Slash
<1>3. CASE Unknown
  <2>1. Promise!KindOf(idx, idx + 1) = "Unk" /\ "Unk" \in token_kind /\ peek # NUL
    BY <1>0, <1>3, OneKind, Classes DEF Unknown, token_kind
  <2> QED BY <1>3, <2>1, OneReturned DEF Unknown
<1> QED BY <1>1, <1>2, <1>3

LEMMA PairStep ==
  ASSUME IInv, Equals \/ Ampersands \/ Pipes
  PROVE  IInv' /\ Promise!NextToken
<1> USE DEF Start
<1>0. idx \in Int /\ peek = Promise!Char(idx) /\ ahead = Promise!Char(idx + 1)
  BY Started DEF Equals, Ampersands, Pipes
<1>1. CASE Equals /\ ahead # "="
  <2>1. ~is_alnum(peek) /\ ~is_space(peek) /\ peek \notin singleCharTokens
    BY <1>1, Classes DEF Equals
  <2>2. Promise!KindOf(idx, idx + 1) = "Equal" /\ "Equal" \in token_kind /\ peek # NUL
    BY <1>0, <1>1, <2>1, OneKind, Classes DEF Equals, token_kind
  <2> QED BY <1>1, <2>1, <2>2, OneReturned DEF Equals
<1>2. CASE Equals /\ ahead = "="
  <2>1. Promise!KindOf(idx, idx + 2) = "EqualEqual" /\ "EqualEqual" \in token_kind
    BY <1>0, <1>2, TwoKind DEF Equals, Promise!Pairs, token_kind
  <2> QED BY <1>2, <2>1, TwoReturned DEF Equals
<1>3. CASE Ampersands
  <2>1. Promise!KindOf(idx, idx + 2) = "AmpAmp" /\ "AmpAmp" \in token_kind
    BY <1>0, <1>3, TwoKind DEF Ampersands, Promise!Pairs, token_kind
  <2> QED BY <1>3, <2>1, TwoReturned DEF Ampersands
<1>4. CASE Pipes
  <2>1. Promise!KindOf(idx, idx + 2) = "PipePipe" /\ "PipePipe" \in token_kind
    BY <1>0, <1>4, TwoKind DEF Pipes, Promise!Pairs, token_kind
  <2> QED BY <1>4, <2>1, TwoReturned DEF Pipes
<1> QED BY <1>1, <1>2, <1>3, <1>4

-----------------------------------------------------------------------------
(* The steps that return nothing.                                           *)
Quiet == UNCHANGED <<buffer, tokens, behind>>

LEMMA QuietStep ==
  ASSUME IInv, Quiet, state \notin {"done"}, state' \in {"start", "comment", "digits", "point", "fraction", "word"},
         idx' \in 1 .. Len(buffer) + 1, idx <= idx',
         Counted', {line, column}' \subseteq Nat, loc' \in Locations, val' \in Seq(STRING),
         Gap', Begun'
  PROVE  IInv'
<1>1. TypeOK'
  <2>1. behind' \in 1 .. idx'
    BY DEF IInv, TypeOK, Quiet
  <2> QED BY <2>1 DEF IInv, TypeOK, Quiet
<1>2. Stops'
  BY DEF Quiet, IInv, Stops, Promise!Ended
<1> QED BY <1>1, <1>2 DEF IInv

LEMMA Eaten ==
  ASSUME IInv, state # "done", peek # NUL, eat_next, buffer' = buffer
  PROVE  /\ idx' = idx + 1 /\ idx \in 1 .. Len(buffer) /\ idx' \in 1 .. Len(buffer) + 1 /\ idx <= idx'
         /\ Counted' /\ {line, column}' \subseteq Nat
         /\ peek = Promise!Char(idx) /\ peek = buffer[idx] /\ peek \in STRING
         /\ \A i : Promise!Char(i)' = Promise!Char(i)
<1>1. idx' = idx + 1 /\ idx \in 1 .. Len(buffer) + 1
  BY DEF eat_next, IInv, TypeOK
<1>2. /\ idx \in 1 .. Len(buffer) /\ peek = Promise!Char(idx) /\ peek = buffer[idx]
      /\ \A i : Promise!Char(i)' = Promise!Char(i)
  BY <1>1, Ahead DEF IInv
<1>3. peek \in STRING
  BY <1>2 DEF IInv, TypeOK
<1> QED BY <1>1, <1>2, <1>3, EatCounts DEF IInv

LEMMA SpaceStep ==
  ASSUME IInv, SkipSpace
  PROVE  IInv' /\ Quiet
<1>1. Quiet /\ state = "start" /\ state' = "start" /\ eat_next /\ loc' = loc /\ val' = val /\ is_space(peek)
  BY DEF SkipSpace, Quiet
<1>2. peek # NUL /\ peek # "/"
  BY <1>1, Classes
<1>3. /\ idx' = idx + 1 /\ idx' \in 1 .. Len(buffer) + 1 /\ idx <= idx' /\ idx \in Nat
      /\ Counted' /\ {line, column}' \subseteq Nat /\ peek = Promise!Char(idx)
      /\ \A i : Promise!Char(i)' = Promise!Char(i)
  BY <1>1, <1>2, Eaten DEF Quiet
<1>4. behind \in Nat /\ behind' = behind /\ from = idx /\ from' = idx' /\ behind <= idx
  BY <1>1 DEF from, InToken, IInv, TypeOK, Quiet
<1>5. \A k \in behind .. idx : Promise!Blank(k)
  BY <1>1, <1>3, <1>4, Classes DEF IInv, Gap, Promise!Blank
<1>6. \A k \in behind .. idx : ~Open(k, idx + 1)
  BY <1>1, <1>2, <1>3, <1>4 DEF IInv, Gap, Open
<1>7. Gap'
  <2>1. \A k : Promise!Blank(k)' <=> Promise!Blank(k)
    BY <1>3, <1>4 DEF Promise!Blank, Promise!InComment
  <2>2. \A k : Open(k, from)' <=> Open(k, idx + 1)
    BY <1>3, <1>4 DEF Open
  <2>3. \A k \in behind' .. from' - 1 : k \in behind .. idx
    BY <1>3, <1>4
  <2> QED BY <1>1, <1>3, <1>4, <1>5, <1>6, <2>1, <2>2, <2>3 DEF Gap
<1>8. Begun'
  BY <1>1 DEF Begun, InToken
<1> QED BY <1>1, <1>3, <1>7, <1>8, QuietStep DEF IInv, TypeOK

LEMMA CommentStep ==
  ASSUME IInv, BeginComment \/ Comment
  PROVE  IInv' /\ Quiet
<1>1. /\ Quiet /\ state \in {"start", "comment"} /\ state' = "comment" /\ eat_next
      /\ loc' = loc /\ val' = val /\ peek \notin {"\n", NUL}
  BY Classes DEF BeginComment, Start, Comment, Quiet
<1>2. /\ idx' = idx + 1 /\ idx' \in 1 .. Len(buffer) + 1 /\ idx <= idx' /\ idx \in Nat
      /\ Counted' /\ {line, column}' \subseteq Nat /\ peek = Promise!Char(idx)
      /\ \A i : Promise!Char(i)' = Promise!Char(i)
  BY <1>1, Eaten DEF Quiet
<1>3. behind \in Nat /\ behind' = behind /\ from = idx /\ from' = idx' /\ behind <= idx
  BY <1>1 DEF from, InToken, IInv, TypeOK, Quiet
<1>4. PICK k \in behind .. idx : Open(k, idx)
  <2>1. CASE BeginComment
    <3>1. Promise!Char(idx) = "/" /\ Promise!Char(idx + 1) = "/"
      BY <1>2, <2>1, Started DEF BeginComment, Start
    <3>2. Open(idx, idx)
      BY <1>1, <1>2, <3>1 DEF Open
    <3> QED BY <1>2, <1>3, <3>2
  <2>2. CASE Comment
    <3>1. PICK i \in behind .. idx - 1 : Open(i, idx - 1)
      BY <2>2 DEF Comment, IInv, Gap
    <3>2. Open(i, idx)
      BY <1>1, <1>2, <1>3, <3>1 DEF Open
    <3> QED BY <1>2, <1>3, <3>2
  <2> QED BY <2>1, <2>2
<1>5. Promise!Blank(idx)
  BY <1>2, <1>3, <1>4, Classes DEF Promise!Blank, Promise!InComment, Open
<1>6. Gap'
  <2>1. \A i : Promise!Blank(i)' <=> Promise!Blank(i)
    BY <1>2, <1>3 DEF Promise!Blank, Promise!InComment
  <2>2. \A i \in behind' .. from' - 1 : Promise!Blank(i)
    BY <1>2, <1>3, <1>5 DEF IInv, Gap
  <2>3. (\E i \in behind .. idx - 1 : Open(i, idx - 1))'
    <3>1. (idx - 1)' = idx
      BY <1>2
    <3>2. Open(k, idx - 1)'
      BY <1>2, <1>4, <3>1 DEF Open
    <3> QED BY <1>2, <1>3, <1>4, <3>1, <3>2
  <2> QED BY <1>1, <1>2, <1>3, <2>1, <2>2, <2>3 DEF Gap
<1>7. Begun'
  BY <1>1 DEF Begun, InToken
<1> QED BY <1>1, <1>2, <1>6, <1>7, QuietStep DEF IInv, TypeOK

LEMMA EndCommentStep ==
  ASSUME IInv, EndComment
  PROVE  IInv' /\ Quiet
<1>1. /\ Quiet /\ state = "comment" /\ state' = "start" /\ UNCHANGED <<idx, line, column, loc, val>>
      /\ peek \in {"\n", NUL}
  BY DEF EndComment, Quiet
<1>2. Counted' /\ {line, column}' \subseteq Nat
  BY <1>1, StayCounts DEF IInv, Quiet
<1>3. from = idx /\ from' = idx /\ behind \in Nat /\ idx \in 1 .. Len(buffer) + 1 /\ behind' = behind
  BY <1>1 DEF from, InToken, IInv, TypeOK, Quiet
<1>4. peek = Promise!Char(idx) /\ \A i : Promise!Char(i)' = Promise!Char(i)
  BY <1>1, Ahead DEF IInv, Quiet
<1>5. Gap'
  <2>1. \A k : Promise!Blank(k)' <=> Promise!Blank(k)
    BY <1>3, <1>4 DEF Promise!Blank, Promise!InComment
  <2>2. \A k \in behind .. idx - 1 : ~Open(k, from)'
    BY <1>1, <1>3, <1>4 DEF Open
  <2> QED BY <1>1, <1>3, <2>1, <2>2 DEF Gap, IInv
<1>6. Begun'
  BY <1>1 DEF Begun, InToken
<1> QED BY <1>1, <1>2, <1>3, <1>5, <1>6, QuietStep DEF IInv, TypeOK

-----------------------------------------------------------------------------
(* Numbers and words.                                                       *)
LEMMA Longer ==
  ASSUME NEW s \in Seq(STRING), NEW i \in Nat \ {0}, NEW j \in Nat, i <= j, j <= Len(s)
  PROVE  Append(SubSeq(s, i, j - 1), s[j]) = SubSeq(s, i, j) /\ Len(SubSeq(s, i, j)) = j - i + 1
<1>1. SubSeq(s, i, j - 1) \in Seq(STRING) /\ Len(SubSeq(s, i, j - 1)) = j - i
  BY SubSeqProperties
<1>2. SubSeq(s, i, j) \in Seq(STRING) /\ Len(SubSeq(s, i, j)) = j - i + 1
  BY SubSeqProperties
<1>3. \A n \in 1 .. j - i : SubSeq(s, i, j - 1)[n] = s[n + i - 1]
  BY SubSeqProperties
<1>4. \A n \in 1 .. j - i + 1 : SubSeq(s, i, j)[n] = s[n + i - 1]
  BY SubSeqProperties
<1> QED BY <1>1, <1>2, <1>3, <1>4

(* The places where a token may begin stay what they are while it is read.  *)
LEMMA SameGap ==
  ASSUME IInv, Quiet, state # "comment", state' # "comment", from' = from, from <= idx', idx' \in Nat
  PROVE  Gap'
<1>1. behind' = behind /\ \A i : Promise!Char(i)' = Promise!Char(i)
  BY Ahead DEF IInv, Quiet
<1>2. \A k : (Promise!Blank(k)' <=> Promise!Blank(k)) /\ (Open(k, from)' <=> Open(k, from))
  BY <1>1 DEF Promise!Blank, Promise!InComment, Open
<1>3. from' \in behind' .. idx'
  BY <1>1 DEF IInv, Gap, TypeOK
<1> QED BY <1>1, <1>2, <1>3 DEF IInv, Gap

LEMMA SamePlace ==
  ASSUME IInv, buffer' = buffer, from' = from
  PROVE  Promise!Place(from)' = Promise!Place(from)
<1>1. Promise!Newlines(from)' = Promise!Newlines(from)
  BY Ahead DEF Promise!Newlines, IInv
<1> QED BY <1>1 DEF Promise!Place

LEMMA BeginStep ==
  ASSUME IInv, BeginNumber \/ BeginWord
  PROVE  IInv' /\ Quiet
<1>1. /\ Quiet /\ state = "start" /\ eat_next /\ loc' = Here /\ val' = <<peek>>
      /\ peek # NUL
      /\ \/ state' = "digits" /\ is_num(peek)
         \/ state' = "word" /\ is_alpha(peek)
  BY Classes DEF BeginNumber, BeginWord, Quiet, is_alnum
<1>2. /\ idx' = idx + 1 /\ idx' \in 1 .. Len(buffer) + 1 /\ idx <= idx' /\ idx \in 1 .. Len(buffer)
      /\ Counted' /\ {line, column}' \subseteq Nat /\ peek = Promise!Char(idx) /\ peek = buffer[idx]
      /\ peek \in STRING /\ \A i : Promise!Char(i)' = Promise!Char(i)
  BY <1>1, Eaten DEF Quiet
<1>3. from = idx /\ from' = idx /\ val' \in Seq(STRING)
  BY <1>1, <1>2 DEF from, InToken
<1>4. Gap'
  BY <1>1, <1>2, <1>3, SameGap
<1>5. Begun'
  <2>1. val' = SubSeq(buffer, idx, idx)
    <3>1. /\ SubSeq(buffer, idx, idx) \in Seq(STRING) /\ Len(SubSeq(buffer, idx, idx)) = 1
          /\ SubSeq(buffer, idx, idx)[1] = buffer[idx]
      BY <1>2, SubSeqProperties DEF IInv, TypeOK
    <3> QED BY <1>1, <1>2, <3>1
  <2>2. loc' = Promise!Place(from)'
    BY <1>1, <1>3, Started, SamePlace DEF Quiet
  <2>3. IF state' = "digits" THEN Promise!Number(from, idx)' ELSE Promise!Word(from, idx)'
    <3>1. \A k \in from' .. (idx - 1)' : k = idx
      <4>1. from' = idx /\ (idx - 1)' = idx /\ idx \in Nat
        BY <1>2, <1>3
      <4> QED BY <4>1
    <3>2. CASE state' = "digits"
      <4>1. is_num(Promise!Char(idx))
        BY <1>1, <1>2, <3>2
      <4>2. \A k \in from' .. (idx - 1)' : Promise!is_num(Promise!Char(k)')
        BY <1>2, <3>1, <4>1, Classes
      <4> QED BY <1>2, <1>3, <3>2, <4>2 DEF Promise!Number
    <3>3. CASE state' = "word"
      <4>1. is_alpha(Promise!Char(idx))
        BY <1>1, <1>2, <3>3
      <4>2. \A k \in from' .. (idx - 1)' : Promise!is_alnum(Promise!Char(k)')
        BY <1>2, <3>1, <4>1, Classes
      <4>3. Promise!is_alpha(Promise!Char(from)')
        BY <1>2, <1>3, <4>1, Classes DEF Promise!Char, Promise!CharAt
      <4> QED BY <1>2, <1>3, <3>3, <4>2, <4>3 DEF Promise!Word
    <3> QED BY <1>1, <3>2, <3>3
  <2>4. val' = SubSeq(buffer, from, idx - 1)'
    <3>1. (idx - 1)' = idx
      BY <1>2
    <3> QED BY <1>1, <1>3, <2>1, <3>1 DEF Quiet
  <2> QED BY <1>1, <1>2, <1>3, <2>2, <2>3, <2>4 DEF Begun, InToken
<1>6. Here \in Locations
  BY <1>1, Started
<1> QED BY <1>1, <1>2, <1>3, <1>4, <1>5, <1>6, QuietStep

LEMMA Scanned ==
  ASSUME IInv, Quiet, eat_next, state \in InToken, state' \in InToken,
         val' = Append(val, peek), loc' = loc, peek # NUL
  PROVE  /\ idx' = idx + 1 /\ idx' \in 1 .. Len(buffer) + 1 /\ idx <= idx' /\ idx \in Nat
         /\ Counted' /\ {line, column}' \subseteq Nat /\ loc' \in Locations /\ val' \in Seq(STRING)
         /\ from' = from /\ from \in Nat /\ from < idx /\ Gap'
         /\ val' = SubSeq(buffer, from, idx - 1)' /\ loc' = Promise!Place(from)'
         /\ peek = Promise!Char(idx) /\ \A i : Promise!Char(i)' = Promise!Char(i)
<1>1. /\ idx' = idx + 1 /\ idx \in 1 .. Len(buffer) /\ idx' \in 1 .. Len(buffer) + 1 /\ idx <= idx'
      /\ Counted' /\ {line, column}' \subseteq Nat
      /\ peek = Promise!Char(idx) /\ peek = buffer[idx] /\ peek \in STRING
      /\ \A i : Promise!Char(i)' = Promise!Char(i)
  BY Eaten DEF Quiet, InToken
<1>2. /\ from < idx /\ val = SubSeq(buffer, from, idx - 1) /\ loc = Promise!Place(from)
      /\ from \in Nat \ {0} /\ from = idx - Len(val) /\ Len(val) \in Nat
  <2>1. from \in behind .. idx /\ behind \in Nat \ {0} /\ idx \in Nat
    BY <1>1 DEF IInv, Gap, TypeOK
  <2>2. from = idx - Len(val) /\ Len(val) \in Nat
    BY LenProperties DEF from, IInv, TypeOK
  <2>3. from \in Nat \ {0}
    BY <2>1
  <2>4. from < idx /\ val = SubSeq(buffer, from, idx - 1) /\ loc = Promise!Place(from)
    BY DEF IInv, Begun
  <2> QED BY <2>2, <2>3, <2>4
<1>3. val' = SubSeq(buffer, from, idx) /\ Len(val') = Len(val) + 1 /\ val' \in Seq(STRING)
  BY <1>1, <1>2, Longer DEF IInv, TypeOK
<1>4. from' = from
  <2>1. from' = idx' - Len(val')
    BY DEF from
  <2> QED BY <1>1, <1>2, <1>3, <2>1
<1>5. Gap'
  BY <1>1, <1>2, <1>4, SameGap DEF InToken
<1>6. val' = SubSeq(buffer, from, idx - 1)'
  <2>1. (idx - 1)' = idx
    BY <1>1
  <2> QED BY <1>3, <1>4, <2>1 DEF Quiet
<1>7. loc' = Promise!Place(from)'
  BY <1>2, <1>4, SamePlace DEF Quiet
<1>8. loc' \in Locations
  BY DEF IInv, TypeOK
<1> QED BY <1>1, <1>2, <1>3, <1>4, <1>5, <1>6, <1>7, <1>8

LEMMA DigitStep ==
  ASSUME IInv, Digit
  PROVE  IInv' /\ Quiet
<1>1. /\ Quiet /\ eat_next /\ state \in {"digits", "fraction"} /\ state' = state
      /\ val' = Append(val, peek) /\ loc' = loc /\ is_num(peek)
  BY DEF Digit, Scan, Quiet
<1>2. peek # NUL /\ state \in InToken
  BY <1>1, Classes DEF InToken
<1>3. /\ idx' = idx + 1 /\ idx' \in 1 .. Len(buffer) + 1 /\ idx <= idx' /\ idx \in Nat
      /\ Counted' /\ {line, column}' \subseteq Nat /\ loc' \in Locations /\ val' \in Seq(STRING)
      /\ from' = from /\ from \in Nat /\ from < idx /\ Gap'
      /\ val' = SubSeq(buffer, from, idx - 1)' /\ loc' = Promise!Place(from)'
      /\ peek = Promise!Char(idx) /\ \A i : Promise!Char(i)' = Promise!Char(i)
  BY <1>1, <1>2, Scanned
<1>4. state = "digits" => Promise!Number(from, idx)'
  <2>1. ASSUME state = "digits", NEW k \in from .. idx PROVE Promise!is_num(Promise!Char(k))
    BY <1>1, <1>3, <2>1, Classes DEF IInv, Begun, Promise!Number
  <2>2. (idx - 1)' = idx
    BY <1>3
  <2> QED BY <1>3, <2>1, <2>2 DEF Promise!Number
<1>5. state = "fraction" =>
       (\E p \in from + 1 .. idx - 1 :
         /\ Promise!Number(from, p) /\ Promise!Char(p) = "."
         /\ \A k \in p + 1 .. idx : k < idx \/ k = p + 1 => is_num(Promise!Char(k)))'
  <2> SUFFICES ASSUME state = "fraction" PROVE
       (\E p \in from + 1 .. idx - 1 :
         /\ Promise!Number(from, p) /\ Promise!Char(p) = "."
         /\ \A k \in p + 1 .. idx : k < idx \/ k = p + 1 => is_num(Promise!Char(k)))'
    OBVIOUS
  <2>1. PICK p \in from + 1 .. idx - 1 :
         /\ Promise!Number(from, p) /\ Promise!Char(p) = "."
         /\ \A k \in p + 1 .. idx : k < idx \/ k = p + 1 => is_num(Promise!Char(k))
    BY DEF IInv, Begun
  <2>2. Promise!Number(from, p)'
    BY <1>3, <2>1 DEF Promise!Number
  <2>3. p \in (from + 1 .. idx - 1)'
    BY <1>3, <2>1
  <2>4. \A k \in (p + 1 .. idx)' : (k < idx)' \/ k = p + 1 => is_num(Promise!Char(k)')
    BY <1>1, <1>3, <2>1
  <2> QED BY <1>3, <2>1, <2>2, <2>3, <2>4 DEF is_num
<1>6. Begun'
  BY <1>1, <1>3, <1>4, <1>5 DEF Begun
<1> QED BY <1>1, <1>3, <1>6, QuietStep

LEMMA PointStep ==
  ASSUME IInv, Point
  PROVE  IInv' /\ Quiet
<1>1. /\ Quiet /\ eat_next /\ state = "digits" /\ state' = "point"
      /\ val' = Append(val, peek) /\ loc' = loc /\ peek = "."
  BY DEF Point, Quiet
<1>2. peek # NUL /\ {state, state'} \subseteq InToken
  BY <1>1, Classes DEF InToken
<1>3. /\ idx' = idx + 1 /\ idx' \in 1 .. Len(buffer) + 1 /\ idx <= idx' /\ idx \in Nat
      /\ Counted' /\ {line, column}' \subseteq Nat /\ loc' \in Locations /\ val' \in Seq(STRING)
      /\ from' = from /\ from \in Nat /\ from < idx /\ Gap'
      /\ val' = SubSeq(buffer, from, idx - 1)' /\ loc' = Promise!Place(from)'
      /\ peek = Promise!Char(idx) /\ \A i : Promise!Char(i)' = Promise!Char(i)
  BY <1>1, <1>2, Scanned
<1>4. Promise!Number(from, idx - 1)' /\ Promise!Char(idx - 1)' = "."
  <2>1. (idx - 1)' = idx /\ Promise!Number(from, idx)
    BY <1>1, <1>3 DEF IInv, Begun
  <2>2. Promise!Number(from, idx - 1)'
    BY <1>3, <2>1 DEF Promise!Number
  <2>3. Promise!Char(idx - 1)' = "."
    BY <1>1, <1>3, <2>1 DEF Promise!Char, Promise!CharAt, Quiet
  <2> QED BY <2>2, <2>3
<1>5. Begun'
  <2>1. (state = "point" => Promise!Number(from, idx - 1) /\ Promise!Char(idx - 1) = ".")'
    BY <1>4
  <2>2. (from < idx /\ val = SubSeq(buffer, from, idx - 1) /\ loc = Promise!Place(from))'
    BY <1>3
  <2> QED BY <1>1, <2>1, <2>2 DEF Begun, InToken
<1> QED BY <1>1, <1>3, <1>5, QuietStep

LEMMA FractionStep ==
  ASSUME IInv, BeginFraction
  PROVE  IInv' /\ Quiet
<1>1. /\ Quiet /\ state = "point" /\ state' = "fraction" /\ UNCHANGED <<idx, line, column, loc, val>>
      /\ is_num(peek)
  BY DEF BeginFraction, Quiet
<1>2. Counted' /\ {line, column}' \subseteq Nat
  BY <1>1, StayCounts DEF IInv, Quiet
<1>3. from' = from /\ from \in Nat /\ from < idx /\ idx \in 1 .. Len(buffer) + 1
  BY <1>1 DEF from, InToken, IInv, Begun, Gap, TypeOK
<1>4. peek = Promise!Char(idx) /\ \A i : Promise!Char(i)' = Promise!Char(i)
  BY <1>1, Ahead DEF IInv, Quiet
<1>5. Gap' /\ loc' = Promise!Place(from)'
  BY <1>1, <1>3, SameGap, SamePlace DEF IInv, Begun, InToken, Quiet
<1>6. Begun'
  <2>0. PICK p \in Int : p = idx - 1
    BY <1>3
  <2>1. Promise!Number(from, p) /\ Promise!Char(p) = "."
    BY <1>1, <2>0 DEF IInv, Begun
  <2>2. p \in from + 1 .. idx - 1
    BY <1>3, <2>0, <2>1 DEF Promise!Number
  <2>3. \A k \in p + 1 .. idx : is_num(Promise!Char(k))
    BY <1>1, <1>3, <1>4, <2>0
  <2>4. p \in (from + 1 .. idx - 1)' /\ \A q : Promise!Number(from, q)' <=> Promise!Number(from, q)
    BY <1>1, <1>3, <1>4, <2>2 DEF Promise!Number
  <2>5. \A k \in (p + 1 .. idx)' : is_num(Promise!Char(k)')
    BY <1>1, <1>4, <2>3
  <2>6. (\E q \in from + 1 .. idx - 1 :
         /\ Promise!Number(from, q) /\ Promise!Char(q) = "."
         /\ \A k \in q + 1 .. idx : k < idx \/ k = q + 1 => is_num(Promise!Char(k)))'
    BY <1>4, <2>1, <2>4, <2>5 DEF is_num
  <2>7. loc' = Promise!Place(from)' /\ val' = SubSeq(buffer, from, idx - 1)'
    BY <1>1, <1>3, <1>5 DEF IInv, Begun, InToken, Quiet
  <2> QED BY <1>1, <1>3, <2>6, <2>7 DEF Begun
<1> QED BY <1>1, <1>2, <1>3, <1>5, <1>6, QuietStep DEF IInv, TypeOK

LEMMA AlnumStep ==
  ASSUME IInv, Alnum
  PROVE  IInv' /\ Quiet
<1>1. /\ Quiet /\ eat_next /\ state = "word" /\ state' = state
      /\ val' = Append(val, peek) /\ loc' = loc /\ is_alnum(peek)
  BY DEF Alnum, Scan, Quiet
<1>2. peek # NUL /\ state \in InToken
  BY <1>1, Classes DEF InToken
<1>3. /\ idx' = idx + 1 /\ idx' \in 1 .. Len(buffer) + 1 /\ idx <= idx' /\ idx \in Nat
      /\ Counted' /\ {line, column}' \subseteq Nat /\ loc' \in Locations /\ val' \in Seq(STRING)
      /\ from' = from /\ from \in Nat /\ from < idx /\ Gap'
      /\ val' = SubSeq(buffer, from, idx - 1)' /\ loc' = Promise!Place(from)'
      /\ peek = Promise!Char(idx) /\ \A i : Promise!Char(i)' = Promise!Char(i)
  BY <1>1, <1>2, Scanned
<1>4. Promise!Word(from, idx)'
  <2>1. Promise!Word(from, idx)
    BY <1>1 DEF IInv, Begun
  <2>2. \A k \in from .. idx : Promise!is_alnum(Promise!Char(k))
    BY <1>1, <1>3, <2>1, Classes DEF Promise!Word
  <2>3. (idx - 1)' = idx /\ Promise!is_alpha(Promise!Char(from))
    BY <1>3, <2>1 DEF Promise!Word
  <2>4. Promise!is_alpha(Promise!Char(from)')
    BY <1>1, <1>3, <2>3 DEF Promise!Char, Promise!CharAt, Quiet
  <2> QED BY <1>3, <2>2, <2>3, <2>4 DEF Promise!Word
<1>5. Begun'
  BY <1>1, <1>3, <1>4 DEF Begun
<1> QED BY <1>1, <1>3, <1>5, QuietStep

(* A number, a word, or a number without a fraction ends.                   *)
LEMMA EndRead ==
  ASSUME IInv, state \in InToken, UNCHANGED <<idx, line, column>>,
         NEW kind \in token_kind, NEW value \in Seq(STRING), Return(loc, kind, value),
         is_alnum(Promise!Char(from)), Promise!Longest(from, idx),
         kind = Promise!KindOf(from, idx), value = Promise!ValueOf(from, idx)
  PROVE  IInv' /\ Promise!NextToken
<1>1. buffer' = buffer /\ state \notin {"comment", "done"} /\ loc = Promise!Place(from) /\ loc \in Locations
  BY DEF Return, InToken, IInv, Begun, TypeOK
<1>2. idx \in from + 1 .. Len(buffer) + IF kind = Eof THEN 2 ELSE 1
  <2>1. from < idx /\ from \in Int
    BY DEF IInv, Begun, Gap, TypeOK
  <2>2. idx \in 1 .. Len(buffer) + 1
    BY <1>1 DEF IInv, TypeOK
  <2> QED BY <2>1, <2>2
<1>3. ~Promise!Blank(from)
  <2>1. Promise!Char(from) # "/" /\ ~is_space(Promise!Char(from))
    BY Classes
  <2> QED BY <1>1, <2>1, NotBlank DEF IInv
<1>4. Counted' /\ {line, column}' \subseteq Nat
  BY <1>1, StayCounts DEF IInv
<1> QED BY <1>1, <1>2, <1>3, <1>4, Returned

LEMMA NumberStep ==
  ASSUME IInv, EndNumber
  PROVE  IInv' /\ Promise!NextToken
<1>1. /\ state \in {"digits", "fraction"} /\ UNCHANGED <<idx, line, column>> /\ Return(loc, "Number", val)
      /\ ~is_num(Promise!Char(idx)) /\ (state = "digits" => Promise!Char(idx) # ".")
  BY Ahead DEF EndNumber, IInv
<1>2. from \in Int /\ idx \in Int /\ from < idx /\ val = SubSeq(buffer, from, idx - 1) /\ val \in Seq(STRING)
  BY <1>1 DEF IInv, Begun, Gap, TypeOK, InToken
<1>3. /\ Promise!Number(from, idx) \/ Promise!Fraction(from, idx)
      /\ Promise!Longest(from, idx) /\ is_num(Promise!Char(from))
  <2>1. CASE state = "digits"
    BY <1>1, <1>2, <2>1, LongestNumber, Classes DEF IInv, Begun, Promise!Number
  <2>2. CASE state = "fraction"
    <3>1. PICK q \in from + 1 .. idx - 1 :
         /\ Promise!Number(from, q) /\ Promise!Char(q) = "."
         /\ \A k \in q + 1 .. idx : k < idx \/ k = q + 1 => is_num(Promise!Char(k))
      BY <2>2 DEF IInv, Begun
    <3>2. Promise!Number(q + 1, idx)
      <4>1. q + 1 < idx
        BY <1>1, <1>2, <3>1
      <4>2. \A k \in q + 1 .. idx - 1 : is_num(Promise!Char(k))
        BY <1>2, <3>1
      <4> QED BY <4>1, <4>2, Classes DEF Promise!Number
    <3>3. is_num(Promise!Char(from))
      BY <1>2, <3>1, Classes DEF Promise!Number
    <3>4. q \in Int
      BY <3>1
    <3> QED BY <1>1, <1>2, <3>1, <3>2, <3>3, <3>4, LongestFraction
  <2> QED BY <1>1, <2>1, <2>2
<1>4. Promise!ValueOf(from, idx) = val /\ is_alnum(Promise!Char(from))
  BY <1>2, <1>3, Classes DEF Promise!ValueOf
<1>5. Promise!KindOf(from, idx) = "Number"
  <2>1. Promise!Char(from) \notin singleCharTokens \cup {"=", "&", "|", "/"} /\ ~is_alpha(Promise!Char(from))
    BY <1>3, Classes
  <2>2. ~Promise!Word(from, idx) /\ ~Promise!Pair(from, idx)
    BY <2>1, Classes DEF Promise!Word, Promise!Pair
  <2>3. Promise!singleCharTokens = singleCharTokens
    BY Classes
  <2> QED BY <1>3, <2>1, <2>2, <2>3 DEF Promise!KindOf
<1>6. "Number" \in token_kind /\ state \in InToken
  BY <1>1 DEF token_kind, InToken
<1> QED BY <1>1, <1>2, <1>3, <1>4, <1>5, <1>6, EndRead

LEMMA DanglingStep ==
  ASSUME IInv, NoFraction
  PROVE  IInv' /\ Promise!NextToken
<1>1. /\ state = "point" /\ UNCHANGED <<idx, line, column>> /\ Return(loc, "Unk", <<>>)
      /\ ~is_num(Promise!Char(idx))
  BY Ahead DEF NoFraction, IInv
<1>2. /\ from \in Int /\ idx \in Int /\ from < idx - 1
      /\ Promise!Number(from, idx - 1) /\ Promise!Char(idx - 1) = "."
  BY <1>1 DEF IInv, Begun, Gap, TypeOK, InToken, Promise!Number
<1>3. Promise!Longest(from, idx) /\ is_num(Promise!Char(from))
  BY <1>1, <1>2, LongestDangling, Classes DEF Promise!Number
<1>4. ~Promise!Number(from, idx) /\ ~Promise!Fraction(from, idx) /\ ~Promise!Word(from, idx) /\ ~Promise!Pair(from, idx)
  BY <1>2, <1>3, Classes DEF Promise!Number, Promise!Fraction, Promise!Word, Promise!Pair
<1>5. Promise!KindOf(from, idx) = "Unk" /\ Promise!ValueOf(from, idx) = <<>>
  BY <1>2, <1>4 DEF Promise!KindOf, Promise!ValueOf
<1>6. /\ "Unk" \in token_kind /\ state \in InToken /\ is_alnum(Promise!Char(from))
      /\ <<>> \in Seq(STRING)
  BY <1>1, <1>3, Classes DEF token_kind, InToken
<1> QED BY <1>1, <1>3, <1>5, <1>6, EndRead

LEMMA WordStep ==
  ASSUME IInv, EndWord
  PROVE  IInv' /\ Promise!NextToken
<1> DEFINE kind == IF val \in DOMAIN keywords THEN keywords[val] ELSE "Identifier"
<1>1. /\ state = "word" /\ UNCHANGED <<idx, line, column>> /\ Return(loc, kind, val)
      /\ ~is_alnum(Promise!Char(idx))
  BY Ahead DEF EndWord, IInv
<1>2. /\ from \in Int /\ idx \in Int /\ from < idx /\ val = SubSeq(buffer, from, idx - 1) /\ val \in Seq(STRING)
      /\ Promise!Word(from, idx)
  BY <1>1 DEF IInv, Begun, Gap, TypeOK, InToken
<1>3. Promise!Longest(from, idx) /\ is_alpha(Promise!Char(from)) /\ is_alnum(Promise!Char(from))
  BY <1>1, <1>2, LongestWord, Classes DEF Promise!Word
<1>4. Promise!ValueOf(from, idx) = val
  BY <1>2 DEF Promise!ValueOf
<1>5. Promise!KindOf(from, idx) = kind
  <2>1. /\ Promise!Char(from) \notin singleCharTokens \cup {"=", "&", "|", "/"} /\ ~is_num(Promise!Char(from))
        /\ Promise!singleCharTokens = singleCharTokens
    BY <1>3, Classes
  <2>2. ~Promise!Number(from, idx) /\ ~Promise!Fraction(from, idx) /\ ~Promise!Pair(from, idx)
    BY <1>2, <2>1, Classes DEF Promise!Number, Promise!Fraction, Promise!Pair
  <2>3. Promise!keywords = keywords
    BY DEF Promise!keywords, keywords
  <2> QED BY <1>2, <2>1, <2>2, <2>3 DEF Promise!KindOf
<1>6. kind \in token_kind /\ state \in InToken
  <2>1. keywords[val] \in token_kind \/ val \notin DOMAIN keywords
    BY DEF token_kind
  <2>2. "Identifier" \in token_kind
    BY DEF token_kind
  <2> QED BY <1>1, <2>1, <2>2 DEF InToken
<1> HIDE DEF kind
<1> QED BY <1>1, <1>2, <1>3, <1>4, <1>5, <1>6, EndRead

-----------------------------------------------------------------------------
LEMMA Initially == Init => IInv /\ Promise!Init
<1> SUFFICES ASSUME Init PROVE IInv /\ Promise!Init
  OBVIOUS
<1>1. TypeOK
  BY BuffersAssumption DEF Init, TypeOK, BuffersAssumption, source_location, Locations
<1>2. from = 1 /\ Gap /\ Begun
  BY DEF Init, from, Gap, Begun, InToken
<1>3. Counted
  <2>1. Promise!Newlines(1) = {}
    BY DEF Promise!Newlines
  <2>2. Cardinality(Promise!Newlines(1)) = 0
    BY <2>1, FS_EmptySet
  <2> QED BY <2>1, <2>2 DEF Init, Counted, LastNewline
<1>4. Stops /\ Promise!Init
  BY DEF Init, Stops, Promise!Ended, Promise!Init
<1> QED BY <1>1, <1>2, <1>3, <1>4 DEF IInv

LEMMA Steps ==
  ASSUME IInv, [Next]_vars
  PROVE  IInv' /\ [Promise!NextToken]_<<buffer, behind, tokens>>
<1>1. CASE SingleChar \/ Slash \/ Unknown
  BY <1>1, SingleStep
<1>2. CASE Equals \/ Ampersands \/ Pipes
  BY <1>2, PairStep
<1>3. CASE SkipSpace
  BY <1>3, SpaceStep DEF Quiet
<1>4. CASE BeginComment \/ Comment
  BY <1>4, CommentStep DEF Quiet
<1>5. CASE EndComment
  BY <1>5, EndCommentStep DEF Quiet
<1>6. CASE BeginNumber \/ BeginWord
  BY <1>6, BeginStep DEF Quiet
<1>7. CASE Digit
  BY <1>7, DigitStep DEF Quiet
<1>8. CASE Point
  BY <1>8, PointStep DEF Quiet
<1>9. CASE BeginFraction
  BY <1>9, FractionStep DEF Quiet
<1>10. CASE Alnum
  BY <1>10, AlnumStep DEF Quiet
<1>11. CASE EndNumber
  BY <1>11, NumberStep
<1>12. CASE NoFraction
  BY <1>12, DanglingStep
<1>13. CASE EndWord
  BY <1>13, WordStep
<1>14. CASE UNCHANGED vars
  <2>1. UNCHANGED <<buffer, behind, tokens>> /\ idx' = idx /\ from' = from
    BY <1>14 DEF vars, from
  <2>2. \A i : Promise!Char(i)' = Promise!Char(i)
    BY <2>1, Ahead DEF IInv
  <2>3. Counted'
    BY <1>14, StayCounts DEF IInv, vars
  <2>4. IInv'
    BY <1>14, <2>1, <2>2, <2>3
    DEF vars, IInv, TypeOK, Gap, Begun, Stops, Open, Promise!Blank, Promise!InComment, Promise!Place,
        Promise!Newlines, Promise!Number, Promise!Word, Promise!Ended
  <2> QED BY <2>1, <2>4
<1> QED
  BY <1>1, <1>2, <1>3, <1>4, <1>5, <1>6, <1>7, <1>8, <1>9, <1>10, <1>11, <1>12, <1>13, <1>14 DEF Next

(* The lexer never reads behind the terminator, whatever the text.          *)
THEOREM TypeCorrect == Spec => []TypeOK
<1>1. IInv => TypeOK
  BY DEF IInv
<1> QED BY Initially, Steps, <1>1, PTL DEF Spec

(* It cuts every text into its longest tokens, at their places.             *)
THEOREM CutsEveryText == Spec => CutsIntoTokens
<1> QED BY Initially, Steps, PTL DEF Spec, CutsIntoTokens, Promise!Spec
=============================================================================
