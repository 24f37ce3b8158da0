------------------------------- MODULE Lexer -------------------------------
(* The lexer (lexer.cpp), called by the parser for one token after another  *)
(* until it gets Eof, and never after that (Parser!TypeOK).  An action is   *)
(* what next_token does between two looks at the character ahead.           *)
EXTENDS Characters, FiniteSets

CONSTANT Buffers

ASSUME BuffersAssumption == \A text \in Buffers : text \in Seq(STRING)

VARIABLES buffer,            \* source->buffer
          idx, line, column,
          state,             \* where next_token is
          loc, val,          \* its locals
          tokens, behind     \* history: what it has returned, and idx then

vars == <<buffer, idx, line, column, state, loc, val, tokens, behind>>

Init ==
  /\ buffer \in Buffers
  /\ idx = 1 /\ line = 1 /\ column = 0
  /\ state = "start"
  /\ loc = source_location(1, 0) /\ val = <<>>
  /\ tokens = <<>> /\ behind = 1

peek  == CharAt(buffer, idx)
ahead == CharAt(buffer, idx + 1)

(* Slip: the new line goes on with the columns of the old one.              *)
eat_next_runs_on ==
  /\ idx' = idx + 1 /\ column' = column + 1
  /\ line' = IF peek = "\n" THEN line + 1 ELSE line

eat_next ==
  /\ idx' = idx + 1
  /\ line'   = IF peek = "\n" THEN line + 1 ELSE line
  /\ column' = IF peek = "\n" THEN 0 ELSE column + 1

(* The first character of two, neither of them a newline.                   *)
eat_two == idx' = idx + 2 /\ column' = column + 2 /\ UNCHANGED line

Here == source_location(line, column + 1)

Return(at_loc, kind, value) ==
  /\ tokens' = Append(tokens, token(at_loc, kind, value))
  /\ behind' = idx'
  /\ state' = IF kind = Eof THEN "done" ELSE "start"
  /\ UNCHANGED <<buffer, loc, val>>

(* One more character in the state it is in.                                *)
Scan == eat_next /\ val' = Append(val, peek) /\ UNCHANGED <<buffer, state, loc, tokens, behind>>

Start(c) == state = "start" /\ peek = c

SkipSpace ==
  /\ state = "start" /\ is_space(peek)
  /\ eat_next /\ UNCHANGED <<buffer, state, loc, val, tokens, behind>>

SingleChar ==
  /\ state = "start" /\ peek \in singleCharTokens
  /\ eat_next /\ Return(Here, peek, <<>>)

Equals ==
  /\ Start("=")
  /\ IF ahead # "=" THEN eat_next /\ Return(Here, "Equal", <<>>)
     ELSE eat_two /\ Return(Here, "EqualEqual", <<>>)

Ampersands == Start("&") /\ ahead = "&" /\ eat_two /\ Return(Here, "AmpAmp", <<>>)
Pipes      == Start("|") /\ ahead = "|" /\ eat_two /\ Return(Here, "PipePipe", <<>>)

Slash == Start("/") /\ ahead # "/" /\ eat_next /\ Return(Here, "Slash", <<>>)

BeginComment ==
  /\ Start("/") /\ ahead = "/"
  /\ eat_next /\ state' = "comment" /\ UNCHANGED <<buffer, loc, val, tokens, behind>>

(* Slips: a comment ends at a newline only, and eats the terminator, or     *)
(* waits for one behind it.                                                 *)
CommentOverNul ==
  /\ state = "comment" /\ peek # "\n"
  /\ eat_next /\ UNCHANGED <<buffer, state, loc, val, tokens, behind>>
EndCommentAtNewline ==
  /\ state = "comment" /\ peek = "\n"
  /\ state' = "start" /\ UNCHANGED <<buffer, idx, line, column, loc, val, tokens, behind>>

Comment ==
  /\ state = "comment" /\ peek \notin {"\n", NUL}
  /\ eat_next /\ UNCHANGED <<buffer, state, loc, val, tokens, behind>>

(* next_token calls itself.                                                 *)
EndComment ==
  /\ state = "comment" /\ peek \in {"\n", NUL}
  /\ state' = "start" /\ UNCHANGED <<buffer, idx, line, column, loc, val, tokens, behind>>

BeginNumber ==
  /\ state = "start" /\ is_num(peek)
  /\ eat_next /\ state' = "digits" /\ loc' = Here /\ val' = <<peek>>
  /\ UNCHANGED <<buffer, tokens, behind>>

Digit == state \in {"digits", "fraction"} /\ is_num(peek) /\ Scan

Point ==
  /\ state = "digits" /\ peek = "."
  /\ eat_next /\ state' = "point" /\ val' = Append(val, peek)
  /\ UNCHANGED <<buffer, loc, tokens, behind>>

(* The '.' is gone, and the digits before it.                               *)
NoFraction ==
  /\ state = "point" /\ ~is_num(peek)
  /\ UNCHANGED <<idx, line, column>> /\ Return(loc, "Unk", <<>>)

BeginFraction ==
  /\ state = "point" /\ is_num(peek)
  /\ state' = "fraction" /\ UNCHANGED <<buffer, idx, line, column, loc, val, tokens, behind>>

EndNumber ==
  /\ \/ state = "digits" /\ ~is_num(peek) /\ peek # "."
     \/ state = "fraction" /\ ~is_num(peek)
  /\ UNCHANGED <<idx, line, column>> /\ Return(loc, "Number", val)

BeginWord ==
  /\ state = "start" /\ is_alpha(peek)
  /\ eat_next /\ state' = "word" /\ loc' = Here /\ val' = <<peek>>
  /\ UNCHANGED <<buffer, tokens, behind>>

Alnum == state = "word" /\ is_alnum(peek) /\ Scan

EndWord ==
  /\ state = "word" /\ ~is_alnum(peek)
  /\ UNCHANGED <<idx, line, column>>
  /\ Return(loc, IF val \in DOMAIN keywords THEN keywords[val] ELSE "Identifier", val)

(* A lone & or |, or a character of no token.                               *)
Unknown ==
  /\ state = "start"
  /\ ~is_space(peek) /\ ~is_alnum(peek) /\ peek \notin singleCharTokens \cup {"=", "/"}
  /\ peek \in {"&", "|"} => ahead # peek
  /\ eat_next /\ Return(Here, "Unk", <<>>)

Next ==
  \/ SkipSpace \/ SingleChar \/ Equals \/ Ampersands \/ Pipes \/ Slash
  \/ BeginComment \/ Comment \/ EndComment
  \/ BeginNumber \/ Digit \/ Point \/ NoFraction \/ BeginFraction \/ EndNumber
  \/ BeginWord \/ Alnum \/ EndWord \/ Unknown

Spec == Init /\ [][Next]_vars
(* A single thread, which runs until it has the Eof.                        *)
FairSpec == Spec /\ WF_vars(Next)

-----------------------------------------------------------------------------
Locations == [line : Nat, col : Nat]

(* The types.  The buffer is never read behind its terminator: it is there  *)
(* to be read until it has been eaten, and then nothing is read.            *)
TypeOK ==
  /\ buffer \in Seq(STRING)
  /\ idx \in 1 .. Len(buffer) + (IF state = "done" THEN 2 ELSE 1)
  /\ {line, column} \subseteq Nat /\ loc \in Locations /\ val \in Seq(STRING)
  /\ state \in {"start", "comment", "digits", "point", "fraction", "word", "done"}
  /\ tokens \in Seq([loc : Locations, kind : token_kind, value : Seq(STRING)])
  /\ behind \in 1 .. idx

(* The tokens are those of Tokens, one after the other: nothing of the text *)
(* is lost or read twice, each token is as long as it can be, and has the   *)
(* kind, the text and the line and column a reader would give it.           *)
Promise == INSTANCE Tokens WITH at <- behind
CutsIntoTokens == Promise!Spec

(* Every text is read to an Eof.                                            *)
Termination == <>(state = "done")
=============================================================================
