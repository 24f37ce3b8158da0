------------------------------ MODULE MCDriver ------------------------------
(* Two compilers and two sources.                                           *)
EXTENDS Driver

MCNames == {"a.yl", "b.yl", "c.c", "out"}
MCYlPaths == {"a.yl", "b.yl"}
MCTexts == {"one", "two", "illtyped", "unparsable"}
MCSize == [t \in MCTexts |-> IF t = "one" THEN 1 ELSE 2]
MCHash == [s \in MCYlPaths |-> "tmp-" \o s]

(* Every option, alone and with others; errors in the command line.         *)
MCArgvs ==
  {<<s>> : s \in {"a.yl", "b.yl", "c.c", "-h", "-x"}}
  \cup {<<"a.yl", "-o", "out">>, <<"-o", "-h", "b.yl">>, <<"a.yl", "b.yl">>, <<"-ast-dump", "a.yl", "-o">>}
  \cup {<<d, "a.yl">> : d \in Dumps} \cup {<<"-llvm-dump", "-ast-dump", "a.yl">>}

(* Each with one of two plain command lines beside it.                      *)
Plain == {<<"a.yl">>, <<"-o", "-h", "b.yl">>}
MCCommands == {argv \in [Compilers -> MCArgvs] : \E p \in Compilers : argv[p] \in Plain}

(* The compilers are alike, and no property names one.                      *)
Symmetry == Permutations(Compilers) \cup Permutations(Inodes)

(* One compiler that is to write a program.                                 *)
PlainCommands == [Compilers -> {<<"a.yl", "-o", "out">>}]
=============================================================================
