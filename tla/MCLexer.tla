------------------------------ MODULE MCLexer ------------------------------
(* Short texts over all classes of characters, longer ones over the         *)
(* characters of comments, of numbers and of operators, and every keyword.  *)
EXTENDS Lexer, SequencesExt

Upto(n, S) == UNION {[1 .. m -> S] : m \in 0 .. n}

Spoiled(word) == {word, Tail(word), Append(word, "i"), Append(word, "1"), Append(Front(word), ".")}

MCBuffers ==
  Upto(4, {"i", "f", "1", " ", "\n", "/", "=", "&", "|", ".", "(", "#", NUL})
  \cup Upto(6, {"/", "\n", "i", NUL})
  \cup Upto(6, {"1", ".", "i", "="})
  \cup UNION {Spoiled(word) : word \in DOMAIN keywords}
  \cup {<<"i", s, "(">> : s \in Spaces} \cup {<<s>> : s \in singleCharTokens}
=============================================================================
