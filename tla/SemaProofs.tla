----------------------------- MODULE SemaProofs -----------------------------
(* What is proved of name resolution for every program, and for whatever    *)
(* becomes of its expressions: scopes are opened and closed with the blocks. *)
EXTENDS Sema, FiniteSetTheorems, SequenceTheorems, TLAPS

-----------------------------------------------------------------------------
(* Scopes: lists of declarations with distinct names.                       *)
Distinct(scope) ==
  \A i, j \in DOMAIN scope : scope[i].identifier = scope[j].identifier => i = j

IsScope(scope) == Distinct(scope) /\ \E D : scope \in Seq(D)

Scoped(s) == \E S : s \in Seq(S) /\ \A scope \in S : IsScope(scope)

LEMMA AppendKeeps ==
  ASSUME NEW S, NEW s \in Seq(S), NEW e
  PROVE  /\ Append(s, e) \in Seq(S \cup {e})
         /\ Len(Append(s, e)) = Len(s) + 1 /\ DOMAIN Append(s, e) = 1 .. Len(s) + 1
         /\ \A n \in 1 .. Len(s) : Append(s, e)[n] = s[n]
         /\ Append(s, e)[Len(s) + 1] = e /\ Append(s, e) # <<>>
<1>1. s \in Seq(S \cup {e}) /\ Len(s) \in Nat
  BY SeqMonotonic, LenProperties
<1> QED BY <1>1, AppendProperties

LEMMA FrontKeeps ==
  ASSUME NEW S, NEW s \in Seq(S), s # <<>>
  PROVE  /\ SubSeq(s, 1, Len(s) - 1) \in Seq(S) /\ s[Len(s)] \in S
         /\ Len(s) \in Nat \ {0} /\ Len(SubSeq(s, 1, Len(s) - 1)) = Len(s) - 1
         /\ \A n \in 1 .. Len(s) - 1 : SubSeq(s, 1, Len(s) - 1)[n] = s[n]
         /\ s = Append(SubSeq(s, 1, Len(s) - 1), s[Len(s)])
<1> DEFINE b == SubSeq(s, 1, Len(s) - 1)
<1>1. /\ Len(s) \in Nat \ {0} /\ s \in [1 .. Len(s) -> S] /\ s[Len(s)] \in S
  <2>1. Len(s) \in Nat /\ s \in [1 .. Len(s) -> S] /\ Len(s) # 0
    BY EmptySeq, LenProperties
  <2> QED BY <2>1
<1>2. /\ b \in Seq(S) /\ Len(b) = Len(s) - 1
      /\ \A n \in 1 .. Len(s) - 1 : b[n] = s[n]
  <2>1. \A n \in 1 .. Len(s) - 1 : s[n] \in S
    BY <1>1
  <2>2. /\ b \in Seq(S) /\ Len(b) = IF 1 <= Len(s) - 1 THEN Len(s) - 1 - 1 + 1 ELSE 0
        /\ \A n \in 1 .. Len(s) - 1 - 1 + 1 : b[n] = s[1 + n - 1]
    BY <1>1, <2>1, SubSeqProperties
  <2> HIDE DEF b
  <2>3. Len(b) = Len(s) - 1
    <3> DEFINE m == Len(s)
               l == Len(b)
    <3>1. m \in Nat /\ m # 0 /\ l = IF 1 <= m - 1 THEN m - 1 - 1 + 1 ELSE 0
      BY <1>1, <2>2
    <3> HIDE DEF m, l
    <3>2. l = m - 1
      BY <3>1
    <3> QED BY <3>2 DEF m, l
  <2>4. ASSUME NEW n \in 1 .. Len(s) - 1 PROVE b[n] = s[n]
    <3>1. n \in 1 .. Len(s) - 1 - 1 + 1 /\ 1 + n - 1 = n
      BY <1>1
    <3> QED BY <3>1, <2>2
  <2> QED BY <2>2, <2>3, <2>4
<1> HIDE DEF b
<1>3. s = Append(b, s[Len(s)])
  <2> DEFINE t == Append(b, s[Len(s)])
  <2>1. /\ t \in Seq(S) /\ Len(t) = Len(b) + 1 /\ t[Len(b) + 1] = s[Len(s)]
        /\ \A n \in 1 .. Len(b) : t[n] = b[n]
    <3> DEFINE e == s[Len(s)]
    <3>1. b \in Seq(S) /\ e \in S
      BY <1>1, <1>2
    <3> HIDE DEF e
    <3>2. /\ Append(b, e) \in Seq(S) /\ Len(Append(b, e)) = Len(b) + 1
          /\ Append(b, e)[Len(b) + 1] = e /\ \A n \in 1 .. Len(b) : Append(b, e)[n] = b[n]
      BY <3>1, AppendProperties
    <3> QED BY <3>2 DEF e
  <2> HIDE DEF t
  <2>2. Len(s) = Len(t) /\ \A n \in 1 .. Len(s) : s[n] = t[n]
    BY <1>1, <1>2, <2>1
  <2>3. s = t
    BY <2>1, <2>2, SeqEqual
  <2> QED BY <2>3 DEF t
<1> QED BY <1>1, <1>2, <1>3 DEF b

LEMMA AppendTwice ==
  ASSUME NEW S, NEW s \in Seq(S), NEW e, NEW f
  PROVE  s \o <<e, f>> = Append(Append(s, e), f)
<1> DEFINE T == S \cup {e, f}
<1>1. s \in Seq(T) /\ e \in T /\ f \in T
  BY SeqMonotonic
<1> HIDE DEF T
<1>2. Append(s, e) = s \o <<e>> /\ Append(s, e) \in Seq(T)
  BY <1>1, AppendIsConcat, AppendProperties
<1>3. Append(Append(s, e), f) = (s \o <<e>>) \o <<f>>
  BY <1>1, <1>2, AppendIsConcat
<1>4. (s \o <<e>>) \o <<f>> = s \o (<<e>> \o <<f>>)
  <2>1. <<e>> \in Seq(T) /\ <<f>> \in Seq(T)
    BY <1>1
  <2> QED BY <1>1, <2>1, ConcatAssociative
<1>5. <<e>> \o <<f>> = <<e, f>>
  <2>1. <<e>> \in Seq(T) /\ <<f>> \in Seq(T) /\ <<e, f>> \in Seq(T)
        /\ Len(<<e>>) = 1 /\ Len(<<f>>) = 1 /\ Len(<<e, f>>) = 2
    BY <1>1
  <2> DEFINE c == <<e>> \o <<f>>
             d == <<e, f>>
  <2>2. /\ c \in Seq(T) /\ Len(c) = Len(<<e>>) + Len(<<f>>)
        /\ c[1] = e /\ c[2] = f
    BY <2>1, ConcatProperties
  <2>3. d[1] = e /\ d[2] = f
    OBVIOUS
  <2> HIDE DEF c, d
  <2>4. Len(c) = 2
    BY <2>1, <2>2
  <2>5. d \in Seq(T) /\ Len(d) = 2
    BY <2>1 DEF d
  <2>6. c = d
    BY <2>2, <2>3, <2>4, <2>5, SeqEqual
  <2> QED BY <2>6 DEF c, d
<1> QED BY <1>3, <1>4, <1>5

LEMMA ScopePush ==
  ASSUME NEW s, Scoped(s), NEW c, IsScope(c)
  PROVE  Scoped(Append(s, c)) /\ Len(Append(s, c)) = Len(s) + 1 /\ Len(s) \in Nat
<1>1. PICK S : s \in Seq(S) /\ \A scope \in S : IsScope(scope)
  BY DEF Scoped
<1>2. Append(s, c) \in Seq(S \cup {c}) /\ \A scope \in S \cup {c} : IsScope(scope)
  BY <1>1, AppendKeeps
<1>3. Len(Append(s, c)) = Len(s) + 1 /\ Len(s) \in Nat
  BY <1>1, AppendKeeps
<1> QED BY <1>2, <1>3 DEF Scoped

LEMMA ScopePop ==
  ASSUME NEW s, Scoped(s), s # <<>>
  PROVE  /\ Scoped(Front(s)) /\ Len(Front(s)) = Len(s) - 1
         /\ Len(s) \in Nat \ {0} /\ IsScope(Last(s))
<1>1. PICK S : s \in Seq(S) /\ \A scope \in S : IsScope(scope)
  BY DEF Scoped
<1>2. Front(s) \in Seq(S) /\ Last(s) \in S /\ Len(s) \in Nat \ {0} /\ Len(Front(s)) = Len(s) - 1
  BY <1>1, FrontKeeps DEF Front, Last
<1> QED BY <1>1, <1>2 DEF Scoped

LEMMA ScopeInsert ==
  ASSUME NEW s, Scoped(s), s # <<>>, NEW d, ~Redeclared(s, d.identifier)
  PROVE  Scoped(Insert(s, d)) /\ Len(Insert(s, d)) = Len(s)
<1> DEFINE c == Append(Last(s), d)
<1>1. /\ Scoped(Front(s)) /\ Len(Front(s)) = Len(s) - 1
      /\ Len(s) \in Nat \ {0} /\ IsScope(Last(s))
  BY ScopePop
<1>2. IsScope(c)
  <2>1. PICK D : Last(s) \in Seq(D)
    BY <1>1 DEF IsScope
  <2>2. /\ c \in Seq(D \cup {d}) /\ DOMAIN c = 1 .. Len(Last(s)) + 1 /\ c[Len(Last(s)) + 1] = d
        /\ \A n \in 1 .. Len(Last(s)) : c[n] = Last(s)[n]
    BY <2>1, AppendKeeps
  <2>3. DOMAIN Last(s) = 1 .. Len(Last(s)) /\ Len(Last(s)) \in Nat
    BY <2>1, LenProperties
  <2>4. \A n \in 1 .. Len(Last(s)) : Last(s)[n].identifier # d.identifier
    BY <2>3 DEF Redeclared, Named
  <2> HIDE DEF c
  <2>5. Distinct(c)
    <3> SUFFICES ASSUME NEW i \in 1 .. Len(Last(s)) + 1, NEW j \in 1 .. Len(Last(s)) + 1,
                        c[i].identifier = c[j].identifier
                 PROVE  i = j
      BY <2>2 DEF Distinct
    <3>1. CASE i \in 1 .. Len(Last(s)) /\ j \in 1 .. Len(Last(s))
      BY <3>1, <1>1, <2>2, <2>3 DEF IsScope, Distinct
    <3>2. CASE i = Len(Last(s)) + 1 \/ j = Len(Last(s)) + 1
      BY <3>2, <2>2, <2>3, <2>4
    <3> QED BY <3>1, <3>2, <2>3
  <2> QED BY <2>2, <2>5 DEF IsScope
<1>3. Insert(s, d) = Append(Front(s), c)
  <2>1. PICK S : Front(s) \in Seq(S)
    BY <1>1 DEF Scoped
  <2>2. Front(s) \in Seq(S \cup {c}) /\ c \in S \cup {c}
    BY <2>1, SeqMonotonic
  <2> HIDE DEF c
  <2>3. Append(Front(s), c) = Front(s) \o <<c>>
    BY <2>2, AppendIsConcat
  <2> QED BY <2>3 DEF Insert, c
<1> HIDE DEF c
<1> QED BY <1>1, <1>2, <1>3, ScopePush

-----------------------------------------------------------------------------
(* The stack: blocks and the statements they belong to, in turns.           *)
FrameOK(f) ==
  /\ "k" \in DOMAIN f /\ f.k \in {"block", "if", "else", "while"}
  /\ f.k = "block" => "error" \in DOMAIN f

Nested(s) ==
  /\ \E S : s \in Seq(S) /\ \A f \in S : FrameOK(f)
  /\ s # <<>> => s[1].k = "block"
  /\ \A n \in 1 .. Len(s) - 1 : s[n].k = "block" <=> s[n + 1].k # "block"

Open(s) == {n \in DOMAIN s : s[n].k = "block"}
AtBlock(s) == s # <<>> /\ s[Len(s)].k = "block"

LEMMA OpenFinite ==
  ASSUME NEW s, Nested(s)
  PROVE  /\ IsFiniteSet(Open(s)) /\ Cardinality(Open(s)) \in Nat
         /\ Len(s) \in Nat /\ DOMAIN s = 1 .. Len(s)
<1>1. Len(s) \in Nat /\ DOMAIN s = 1 .. Len(s)
  BY LenProperties DEF Nested
<1>2. IsFiniteSet(1 .. Len(s))
  BY <1>1, FS_Interval
<1>3. IsFiniteSet(Open(s))
  BY <1>1, <1>2, FS_Subset DEF Open
<1> QED BY <1>1, <1>3, FS_CardinalityType

LEMMA NestedPush ==
  ASSUME NEW s, Nested(s), NEW f, FrameOK(f), (f.k = "block") <=> ~AtBlock(s)
  PROVE  /\ Nested(Append(s, f)) /\ Append(s, f) # <<>>
         /\ AtBlock(Append(s, f)) <=> f.k = "block"
         /\ Cardinality(Open(Append(s, f))) =
              Cardinality(Open(s)) + (IF f.k = "block" THEN 1 ELSE 0)
<1> DEFINE t == Append(s, f)
           len == Len(s)
<1>1. PICK S : s \in Seq(S) /\ \A g \in S : FrameOK(g)
  BY DEF Nested
<1>2. /\ t \in Seq(S \cup {f}) /\ Len(t) = len + 1 /\ DOMAIN t = 1 .. len + 1
      /\ \A n \in 1 .. len : t[n] = s[n]
      /\ t[len + 1] = f /\ t # <<>>
  BY <1>1, AppendKeeps
<1>3. len \in Nat /\ DOMAIN s = 1 .. len /\ (s = <<>> <=> len = 0)
  BY <1>1, LenProperties, EmptySeq
<1> HIDE DEF t, len
<1>4. \A g \in S \cup {f} : FrameOK(g)
  BY <1>1
<1>5. t[1].k = "block"
  <2>1. CASE len = 0
    BY <2>1, <1>2, <1>3 DEF AtBlock
  <2>2. CASE len # 0
    BY <2>2, <1>2, <1>3 DEF Nested
  <2> QED BY <2>1, <2>2
<1>6. ASSUME NEW n \in 1 .. Len(t) - 1
      PROVE  t[n].k = "block" <=> t[n + 1].k # "block"
  <2>1. CASE n < len
    <3>1. n \in 1 .. len - 1 /\ n \in 1 .. len /\ n + 1 \in 1 .. len
      BY <2>1, <1>2, <1>3
    <3>2. s[n].k = "block" <=> s[n + 1].k # "block"
      BY <3>1 DEF Nested, len
    <3> QED BY <3>1, <3>2, <1>2
  <2>2. CASE n = len
    <3>1. n \in 1 .. len /\ s # <<>> /\ t[n] = s[len] /\ t[n + 1] = f
      BY <2>2, <1>2, <1>3
    <3> QED BY <3>1 DEF AtBlock, len
  <2> QED BY <2>1, <2>2, <1>2, <1>3
<1>7. Nested(t)
  BY <1>2, <1>4, <1>5, <1>6 DEF Nested
<1>8. Open(t) = IF f.k = "block" THEN Open(s) \cup {len + 1} ELSE Open(s)
  BY <1>2, <1>3 DEF Open
<1>9. len + 1 \notin Open(s) /\ IsFiniteSet(Open(s)) /\ Cardinality(Open(s)) \in Nat
  <2>1. len + 1 \notin DOMAIN s
    BY <1>3
  <2> QED BY <2>1, OpenFinite DEF Open
<1>10. Cardinality(Open(t)) = Cardinality(Open(s)) + (IF f.k = "block" THEN 1 ELSE 0)
  BY <1>8, <1>9, FS_AddElement
<1>11. AtBlock(t) <=> f.k = "block"
  BY <1>2 DEF AtBlock
<1> QED BY <1>2, <1>7, <1>10, <1>11 DEF t

LEMMA NestedPop ==
  ASSUME NEW s, Nested(s), s # <<>>
  PROVE  LET b == SubSeq(s, 1, Len(s) - 1)
         IN  /\ FrameOK(s[Len(s)]) /\ Nested(b)
             /\ AtBlock(s) <=> ~AtBlock(b)
             /\ Cardinality(Open(s)) = Cardinality(Open(b)) + (IF AtBlock(s) THEN 1 ELSE 0)
<1> DEFINE b == SubSeq(s, 1, Len(s) - 1)
           len == Len(s)
<1>1. PICK S : s \in Seq(S) /\ \A g \in S : FrameOK(g)
  BY DEF Nested
<1>2. /\ b \in Seq(S) /\ s[len] \in S /\ len \in Nat \ {0} /\ Len(b) = len - 1
      /\ \A n \in 1 .. len - 1 : b[n] = s[n]
      /\ s = Append(b, s[len])
  BY <1>1, FrontKeeps
<1>3. b = <<>> <=> len = 1
  BY <1>2, EmptySeq
<1> HIDE DEF b
<1>4. Nested(b)
  <2>1. b # <<>> => b[1].k = "block"
    BY <1>2, <1>3 DEF Nested, len
  <2>2. ASSUME NEW n \in 1 .. Len(b) - 1 PROVE b[n].k = "block" <=> b[n + 1].k # "block"
    <3>1. n \in 1 .. len - 1 /\ n + 1 \in 1 .. len - 1
      BY <1>2
    <3> QED BY <3>1, <1>2 DEF Nested
  <2> QED BY <1>1, <1>2, <2>1, <2>2 DEF Nested
<1>5. FrameOK(s[len])
  BY <1>1, <1>2
<1>6. AtBlock(s) <=> ~AtBlock(b)
  <2>1. CASE len = 1
    BY <2>1, <1>3 DEF Nested, AtBlock
  <2>2. CASE len # 1
    <3>1. len - 1 \in 1 .. len - 1 /\ len - 1 + 1 = len
      BY <2>2, <1>2
    <3>2. s[len - 1].k = "block" <=> s[len].k # "block"
      BY <3>1 DEF Nested
    <3>3. b # <<>> /\ b[Len(b)] = s[len - 1]
      BY <2>2, <3>1, <1>2, <1>3
    <3> QED BY <3>2, <3>3 DEF AtBlock
  <2> QED BY <2>1, <2>2
<1>7. Cardinality(Open(s)) = Cardinality(Open(b)) + (IF s[len].k = "block" THEN 1 ELSE 0)
  <2>1. (s[len].k = "block") <=> ~AtBlock(b)
    BY <1>6 DEF AtBlock
  <2> DEFINE f == s[len]
  <2>2. FrameOK(f) /\ ((f.k = "block") <=> ~AtBlock(b)) /\ s = Append(b, f)
    BY <1>2, <1>5, <2>1
  <2> HIDE DEF f
  <2>3. Cardinality(Open(s)) = Cardinality(Open(b)) + (IF f.k = "block" THEN 1 ELSE 0)
    BY <1>4, <2>2, NestedPush
  <2> QED BY <2>3 DEF f
<1> QED BY <1>4, <1>5, <1>6, <1>7 DEF b, AtBlock

LEMMA NestedNothing == Nested(<<>>) /\ ~AtBlock(<<>>) /\ Cardinality(Open(<<>>)) = 0
<1>1. <<>> \in Seq({}) /\ Len(<<>>) = 0
  BY EmptySeq
<1>2. Open(<<>>) = {}
  BY <1>1, LenProperties DEF Open
<1> QED BY <1>1, <1>2, FS_EmptySet DEF Nested, AtBlock

-----------------------------------------------------------------------------
(* The inductive invariant: one scope for the program, one for the          *)
(* parameters from the first statement of a body on, one for each block on  *)
(* the stack.  What is on top of the stack waits for ret if it is no block. *)
InBody == stack # <<>> \/ ret # <<>>

Typed ==
  /\ ast \in Programs /\ fn \in 1 .. Len(ast) + 1
  /\ phase \in {"declare", "resolve", "done"}
  /\ error = TRUE \/ error = FALSE
  /\ ret = <<>> \/ \E r : ret = <<r>>
  /\ result \in {"none", "ok", "failed", "crashed"}
  /\ InBody => phase = "resolve" /\ fn \in DOMAIN ast

Balanced ==
  /\ Scoped(scopes) /\ Nested(stack)
  /\ stack # <<>> => (AtBlock(stack) <=> ret = <<>>)
  /\ Len(scopes) = 1 + (IF InBody THEN 1 ELSE 0) + Cardinality(Open(stack))

(* Parameter lists that get as far as a scope are free of doubles.          *)
Declared ==
  /\ phase = "declare" /\ ~error => \A n \in 1 .. fn - 1 : ~BadParams(ast[n].params)
  /\ phase = "resolve" => \A n \in DOMAIN ast : ~BadParams(ast[n].params)

IInv == Typed /\ Balanced /\ Declared

LEMMA Lengths ==
  ASSUME Typed
  PROVE  /\ Len(ast) \in Nat /\ DOMAIN ast = 1 .. Len(ast)
         /\ \A n \in DOMAIN ast : Len(ast[n].params) \in Nat
                                  /\ DOMAIN ast[n].params = 1 .. Len(ast[n].params)
  BY ProgramsAssumption DEF Typed, Listed

LEMMA InitIInv == Init => IInv
<1> SUFFICES ASSUME Init PROVE IInv
  OBVIOUS
<1>1. ast \in Programs /\ fn \in 1 .. Len(ast) + 1
  BY ProgramsAssumption DEF Init, Listed
<1>2. Typed
  BY <1>1 DEF Init, Typed, InBody
<1>3. Scoped(scopes) /\ Len(scopes) = 1
  <2>1. IsScope(<<println>>)
    <3>1. <<println>> \in Seq({println}) /\ DOMAIN <<println>> = {1}
      OBVIOUS
    <3> QED BY <3>1 DEF IsScope, Distinct
  <2> DEFINE p == <<println>>
  <2>2. scopes = <<p>> /\ IsScope(p)
    BY <2>1 DEF Init
  <2> HIDE DEF p
  <2>3. scopes \in Seq({p}) /\ Len(scopes) = 1
    BY <2>2
  <2> DEFINE P == {p}
  <2>4. \A scope \in P : IsScope(scope)
    BY <2>2
  <2>5. scopes \in Seq(P)
    BY <2>3
  <2> HIDE DEF P
  <2>6. Scoped(scopes)
    BY <2>4, <2>5 DEF Scoped
  <2> QED BY <2>3, <2>6
<1>4. Balanced
  BY <1>3, NestedNothing DEF Balanced, Init, InBody
<1>5. Declared
  BY DEF Declared, Init
<1> QED BY <1>2, <1>4, <1>5 DEF IInv

-----------------------------------------------------------------------------
(* The two loops over the functions.                                        *)
LEMMA DeclareFunctionPreserves ==
  ASSUME IInv, DeclareFunction
  PROVE  IInv'
<1> USE DEF IInv
<1> DEFINE f == ast[fn]
           d == FnName(f.identifier, f.type.kind = "void", Len(f.params))
           bad == BadSignature(f) \/ Redeclared(scopes, f.identifier)
<1>1. /\ phase = "declare" /\ fn \in DOMAIN ast /\ fn' = fn + 1
      /\ UNCHANGED <<ast, phase, stack, ret, result>>
      /\ error' = (error \/ bad) /\ scopes' = IF bad THEN scopes ELSE Insert(scopes, d)
  BY Lengths DEF DeclareFunction, Typed
<1>2. stack = <<>> /\ ret = <<>>
  BY <1>1 DEF Typed, InBody
<1>3. Typed'
  BY <1>1, <1>2, Lengths DEF Typed, InBody
<1>4. Scoped(scopes') /\ Len(scopes') = Len(scopes)
  <2>1. CASE bad
    BY <1>1, <2>1 DEF Balanced
  <2>2. CASE ~bad
    <3>1. d.identifier = f.identifier
      BY DEF FnName
    <3>2. ~Redeclared(scopes, d.identifier)
      BY <2>2, <3>1
    <3>3. scopes # <<>>
      BY <1>2, NestedNothing, EmptySeq DEF Balanced, InBody
    <3> HIDE DEF d
    <3>4. Scoped(Insert(scopes, d)) /\ Len(Insert(scopes, d)) = Len(scopes)
      BY <3>2, <3>3, ScopeInsert DEF Balanced
    <3> QED BY <3>4, <1>1, <2>2
  <2> HIDE DEF bad
  <2> QED BY <2>1, <2>2
<1>5. Balanced'
  BY <1>1, <1>2, <1>4 DEF Balanced, InBody
<1>6. Declared'
  <2>1. ~error' => ~error /\ ~BadParams(ast[fn].params)
    BY <1>1 DEF BadSignature
  <2>2. ASSUME ~error', NEW n \in 1 .. fn' - 1 PROVE ~BadParams(ast'[n].params)
    <3>1. n \in 1 .. fn - 1 \/ n = fn
      BY <1>1, Lengths
    <3> QED BY <1>1, <2>1, <2>2, <3>1 DEF Declared
  <2> QED BY <1>1, <2>2 DEF Declared
<1> QED BY <1>3, <1>5, <1>6

LEMMA EndDeclarationsPreserves ==
  ASSUME IInv, EndDeclarations
  PROVE  IInv'
<1> USE DEF IInv
<1>1. /\ phase = "declare" /\ fn = Len(ast) + 1 /\ fn' = 1
      /\ phase' = IF error THEN "done" ELSE "resolve"
      /\ result' = IF error THEN "failed" ELSE result
      /\ UNCHANGED <<ast, scopes, error, stack, ret>>
  BY DEF EndDeclarations
<1>2. stack = <<>> /\ ret = <<>>
  BY <1>1 DEF Typed, InBody
<1>3. Typed'
  BY <1>1, <1>2, Lengths DEF Typed, InBody
<1>4. Balanced'
  BY <1>1 DEF Balanced, InBody
<1>5. Declared'
  <2>1. DOMAIN ast = 1 .. fn - 1
    BY <1>1, Lengths
  <2> QED BY <1>1, <2>1 DEF Declared
<1> QED BY <1>3, <1>4, <1>5

LEMMA BlockFrame ==
  \A at, stmts : FrameOK(Block(at, stmts)) /\ Block(at, stmts).k = "block"
  BY DEF FrameOK, Block

LEMMA BeginBodyPreserves ==
  ASSUME IInv, BeginBody
  PROVE  IInv'
<1> USE DEF IInv
<1> DEFINE params == [n \in DOMAIN cur.params |-> DeclName(cur.params[n].identifier, Params(fn)[n])]
           b == Block(<<<<fn, 1>>>>, cur.body)
<1>1. /\ phase = "resolve" /\ stack = <<>> /\ ret = <<>> /\ fn \in DOMAIN ast
      /\ scopes' = scopes \o <<params, <<>>>> /\ stack' = <<b>>
      /\ UNCHANGED <<ast, fn, phase, error, ret, result>>
  BY Lengths DEF BeginBody, Resolving, Typed
<1>2. Typed'
  BY <1>1 DEF Typed, InBody
<1>3. IsScope(params)
  <2>1. DOMAIN params = 1 .. Len(cur.params) /\ Len(cur.params) \in Nat
    BY <1>1, Lengths DEF cur
  <2>2. \A n \in DOMAIN params : params[n].identifier = cur.params[n].identifier
    BY DEF DeclName
  <2>3. Distinct(params)
    <3> SUFFICES ASSUME NEW i \in DOMAIN params, NEW j \in DOMAIN params, i # j,
                        params[i].identifier = params[j].identifier
                 PROVE  FALSE
      BY DEF Distinct
    <3>1. ~BadParams(cur.params)
      BY <1>1 DEF Declared, cur
    <3>2. cur.params[i].identifier = cur.params[j].identifier
      BY <2>2
    <3>3. \A m \in DOMAIN cur.params : \A l \in 1 .. (m - 1) :
            cur.params[l].identifier # cur.params[m].identifier
      BY <3>1 DEF BadParams
    <3>4. (i \in DOMAIN cur.params /\ j \in 1 .. (i - 1)) \/ (j \in DOMAIN cur.params /\ i \in 1 .. (j - 1))
      BY <2>1
    <3> QED BY <3>2, <3>3, <3>4
  <2>4. \E D : params \in Seq(D)
    <3> DEFINE D == {params[n] : n \in DOMAIN params}
               len == Len(cur.params)
    <3>1. params \in [1 .. len -> D]
      BY <2>1
    <3>2. params \in Seq(D)
      BY <2>1, <3>1, SeqDef
    <3> QED BY <3>2
  <2> QED BY <2>3, <2>4 DEF IsScope
<1>4. IsScope(<<>>)
  <2>1. <<>> \in Seq({}) /\ DOMAIN <<>> = {}
    OBVIOUS
  <2> QED BY <2>1 DEF IsScope, Distinct
<1> HIDE DEF params
<1>5. Scoped(scopes') /\ Len(scopes') = 3
  <2>1. Len(scopes) = 1
    BY <1>1, NestedNothing DEF Balanced, InBody
  <2> DEFINE inner == <<>>
             s2 == Append(scopes, params)
             s3 == Append(s2, inner)
  <2>2. Scoped(scopes) /\ IsScope(inner)
    BY <1>4 DEF Balanced
  <2> HIDE DEF inner
  <2>3. Scoped(s2) /\ Len(s2) = Len(scopes) + 1
    BY <1>3, <2>2, ScopePush
  <2> HIDE DEF s2
  <2>4. Scoped(s3) /\ Len(s3) = Len(s2) + 1
    BY <2>2, <2>3, ScopePush
  <2>5. Len(s3) = 3
    BY <2>1, <2>3, <2>4
  <2>6. PICK S : scopes \in Seq(S)
    BY <2>2 DEF Scoped
  <2>7. scopes \o <<params, inner>> = s3
    BY <2>6, AppendTwice DEF s2
  <2> HIDE DEF s3
  <2> QED BY <1>1, <2>4, <2>5, <2>7 DEF inner
<1>6. Nested(stack') /\ AtBlock(stack') /\ stack' # <<>> /\ Cardinality(Open(stack')) = 1
  <2>1. FrameOK(b) /\ b.k = "block"
    BY BlockFrame
  <2> HIDE DEF b
  <2> DEFINE e == <<>>
  <2>2. Append(e, b) = stack'
    BY <1>1
  <2>3. Nested(e) /\ ~AtBlock(e) /\ Cardinality(Open(e)) = 0
    BY NestedNothing
  <2> HIDE DEF e
  <2>4. /\ Nested(Append(e, b)) /\ Append(e, b) # <<>> /\ AtBlock(Append(e, b))
        /\ Cardinality(Open(Append(e, b))) = 0 + 1
    BY <2>1, <2>3, NestedPush
  <2> QED BY <2>2, <2>4
<1>7. Balanced'
  BY <1>1, <1>5, <1>6 DEF Balanced, InBody
<1>8. Declared'
  BY <1>1 DEF Declared
<1> QED BY <1>2, <1>7, <1>8

LEMMA EndBodyPreserves ==
  ASSUME IInv, EndBody
  PROVE  IInv'
<1> USE DEF IInv
<1>1. /\ phase = "resolve" /\ result = "none" /\ stack = <<>> /\ ret # <<>> /\ ret' = <<>> /\ fn' = fn + 1
      /\ error' = TRUE \/ error' = FALSE
      /\ scopes' = Front(scopes) /\ UNCHANGED <<ast, phase, stack, result>>
  BY Zenon DEF EndBody, Resolving
<1>2. Typed'
  BY <1>1, Lengths DEF Typed, InBody
<1>3. Balanced'
  <2>1. Len(scopes) = 2 /\ scopes # <<>>
    BY <1>1, NestedNothing, EmptySeq DEF Balanced, InBody
  <2>2. Scoped(scopes)
    BY DEF Balanced
  <2>3. Scoped(Front(scopes)) /\ Len(Front(scopes)) = Len(scopes) - 1
    BY <2>1, <2>2, ScopePop
  <2>4. Len(Front(scopes)) = 1
    BY <2>1, <2>3
  <2> QED BY <1>1, <2>3, <2>4, NestedNothing DEF Balanced, InBody
<1>4. Declared'
  BY <1>1 DEF Declared
<1> QED BY <1>2, <1>3, <1>4

LEMMA EndProgramPreserves ==
  ASSUME IInv, EndProgram
  PROVE  IInv'
  BY DEF IInv, EndProgram, Resolving, Typed, InBody, Balanced, Declared

-----------------------------------------------------------------------------
(* The statements.                                                          *)
LEMMA AfterKeepsFrame ==
  ASSUME NEW f, FrameOK(f), NEW r, NEW is_return
  PROVE  LET g == After(f, r, is_return) IN FrameOK(g) /\ g.k = f.k
<1> DEFINE g == After(f, r, is_return)
<1>1. DOMAIN g = DOMAIN f /\ "k" \in DOMAIN f
  BY DEF After, FrameOK
<1>2. g.k = f.k
  BY <1>1 DEF After
<1> HIDE DEF g
<1>3. FrameOK(g) /\ g.k = f.k
  BY <1>1, <1>2 DEF FrameOK
<1> QED BY <1>3 DEF g

(* Behind a statement the block on top stays where it is.                   *)
LEMMA ResolvedKeeps ==
  ASSUME NEW stk, Nested(stk), AtBlock(stk), NEW r, NEW is_return, Resolved(stk, r, is_return), r.is # "crash"
  PROVE  /\ Nested(stack') /\ AtBlock(stack') /\ stack' # <<>> /\ UNCHANGED result
         /\ Cardinality(Open(stack')) = Cardinality(Open(stk))
<1> DEFINE f == Last(stk)
           g == After(f, r, is_return)
           b == SubSeq(stk, 1, Len(stk) - 1)
<1>1. stk # <<>> /\ stk[Len(stk)].k = "block"
  BY DEF AtBlock
<1>2. /\ FrameOK(stk[Len(stk)]) /\ Nested(b) /\ (AtBlock(stk) <=> ~AtBlock(b))
      /\ Cardinality(Open(stk)) = Cardinality(Open(b)) + (IF AtBlock(stk) THEN 1 ELSE 0)
  BY <1>1, NestedPop
<1>3. FrameOK(g) /\ g.k = "block"
  BY <1>1, <1>2, AfterKeepsFrame DEF Last
<1>4. stack' = Append(b, g) /\ UNCHANGED result
  BY DEF Resolved, Front
<1> HIDE DEF g, b
<1>5. /\ Nested(Append(b, g)) /\ Append(b, g) # <<>> /\ (AtBlock(Append(b, g)) <=> g.k = "block")
      /\ Cardinality(Open(Append(b, g))) = Cardinality(Open(b)) + (IF g.k = "block" THEN 1 ELSE 0)
  BY <1>2, <1>3, NestedPush
<1> QED BY <1>2, <1>3, <1>4, <1>5

(* What the steps inside a body have in common: of the functions and of the *)
(* phases they change nothing.                                              *)
Inside == InBody /\ InBody' /\ UNCHANGED <<ast, fn, phase, error>>

LEMMA InsidePreserves ==
  ASSUME IInv, Inside,
         ret' = <<>> \/ \E r : ret' = <<r>>,
         result' \in {"none", "ok", "failed", "crashed"},
         Balanced'
  PROVE  IInv'
<1>1. Typed'
  BY DEF IInv, Inside, Typed, InBody
<1>2. Declared'
  BY DEF IInv, Inside, Declared
<1> QED BY <1>1, <1>2 DEF IInv

(* A statement of the block on top.                                         *)
LEMMA StatementPreserves ==
  ASSUME IInv, stack # <<>>, ret = <<>>, NEW r, NEW is_return, Resolved(stack, r, is_return),
         Scoped(scopes'), Len(scopes') = Len(scopes),
         UNCHANGED <<ast, fn, phase, error, ret>>
  PROVE  IInv'
<1> USE DEF IInv
<1>1. Nested(stack) /\ AtBlock(stack)
  BY DEF Balanced
<1>2. CASE r.is = "crash"
  <2>1. result' = "crashed" /\ stack' = stack
    BY <1>2 DEF Resolved
  <2>2. Balanced' /\ Inside
    BY <2>1 DEF Balanced, InBody, Inside
  <2> QED BY <2>1, <2>2, InsidePreserves
<1>3. CASE r.is # "crash"
  <2>1. /\ Nested(stack') /\ AtBlock(stack') /\ stack' # <<>> /\ UNCHANGED result
        /\ Cardinality(Open(stack')) = Cardinality(Open(stack))
    BY <1>1, <1>3, ResolvedKeeps
  <2>2. Balanced' /\ Inside
    BY <2>1 DEF Balanced, InBody, Inside
  <2> QED BY <2>1, <2>2, InsidePreserves DEF Typed
<1> QED BY <1>2, <1>3

LEMMA SimplePreserves ==
  ASSUME IInv, ResolveExprStmt \/ ResolveReturn \/ ResolveAssignment
  PROVE  IInv'
<1>1. /\ stack # <<>> /\ ret = <<>> /\ UNCHANGED <<ast, fn, phase, error, ret, scopes>>
      /\ \E r, is_return : Resolved(stack, r, is_return)
  BY DEF ResolveExprStmt, ResolveReturn, ResolveAssignment, AtStmt
<1>2. Scoped(scopes') /\ Len(scopes') = Len(scopes)
  BY <1>1 DEF IInv, Balanced
<1> QED BY <1>1, <1>2, StatementPreserves

LEMMA DeclPreserves ==
  ASSUME IInv, ResolveDecl
  PROVE  IInv'
<1> DEFINE var == resolve_var_decl(stmt.var, place)
           r == resolve_decl_stmt(stmt, var)
           d == DeclName(stmt.var.identifier, r.e.var)
<1>1. /\ stack # <<>> /\ ret = <<>> /\ UNCHANGED <<ast, fn, phase, error, ret>>
      /\ Resolved(stack, r, FALSE)
      /\ scopes' = IF r.is = "ok" THEN Insert(scopes, d) ELSE scopes
  BY DEF ResolveDecl, AtStmt
<1>2. Scoped(scopes) /\ scopes # <<>>
  <2>1. Scoped(scopes) /\ Len(scopes) = 2 + Cardinality(Open(stack)) /\ Cardinality(Open(stack)) \in Nat
    BY <1>1, OpenFinite DEF IInv, Balanced, InBody
  <2>2. Len(scopes) # 0
    BY <2>1
  <2> QED BY <2>1, <2>2, EmptySeq
<1>3. r.is = "ok" => ~Redeclared(scopes, stmt.var.identifier)
  BY DEF resolve_decl_stmt, nullptr
<1>4. d.identifier = stmt.var.identifier
  BY DEF DeclName
<1> HIDE DEF r, d
<1>5. Scoped(scopes') /\ Len(scopes') = Len(scopes)
  <2>1. CASE r.is = "ok"
    <3>1. ~Redeclared(scopes, d.identifier)
      BY <2>1, <1>3, <1>4
    <3>2. Scoped(Insert(scopes, d)) /\ Len(Insert(scopes, d)) = Len(scopes)
      BY <1>2, <3>1, ScopeInsert
    <3> QED BY <3>2, <2>1, <1>1
  <2>2. CASE r.is # "ok"
    BY <2>2, <1>1, <1>2
  <2> QED BY <2>1, <2>2
<1> QED BY <1>1, <1>5, StatementPreserves

-----------------------------------------------------------------------------
(* The blocks inside a statement.                                           *)
LEMMA BlockOpened ==
  ASSUME NEW s, Nested(s), AtBlock(s), NEW f, FrameOK(f), f.k # "block", NEW b, FrameOK(b), b.k = "block"
  PROVE  /\ Nested(s \o <<f, b>>) /\ AtBlock(s \o <<f, b>>) /\ s \o <<f, b>> # <<>>
         /\ Cardinality(Open(s \o <<f, b>>)) = Cardinality(Open(s)) + 1
<1> DEFINE t == Append(s, f)
           u == Append(t, b)
<1>1. PICK S : s \in Seq(S)
  BY DEF Nested
<1>2. s \o <<f, b>> = u
  BY <1>1, AppendTwice
<1>3. /\ Nested(t) /\ t # <<>> /\ (AtBlock(t) <=> f.k = "block")
      /\ Cardinality(Open(t)) = Cardinality(Open(s)) + (IF f.k = "block" THEN 1 ELSE 0)
  BY NestedPush
<1> HIDE DEF t
<1>4. /\ Nested(u) /\ u # <<>> /\ (AtBlock(u) <=> b.k = "block")
      /\ Cardinality(Open(u)) = Cardinality(Open(t)) + (IF b.k = "block" THEN 1 ELSE 0)
  BY <1>3, NestedPush
<1> HIDE DEF u
<1> DEFINE n == Cardinality(Open(s))
           m == Cardinality(Open(u))
<1>5. n \in Nat
  BY OpenFinite
<1>6. m = n + 0 + 1
  BY <1>3, <1>4
<1> HIDE DEF n, m
<1>7. m = n + 1
  BY <1>5, <1>6
<1> QED BY <1>2, <1>3, <1>4, <1>7 DEF n, m

LEMMA InnerScope ==
  ASSUME Scoped(scopes)
  PROVE  Scoped(Append(scopes, <<>>)) /\ Len(Append(scopes, <<>>)) = Len(scopes) + 1 /\ Len(scopes) \in Nat
<1> DEFINE c == <<>>
<1>1. IsScope(c)
  <2>1. <<>> \in Seq({}) /\ DOMAIN <<>> = {}
    OBVIOUS
  <2> QED BY <2>1 DEF IsScope, Distinct
<1> HIDE DEF c
<1>2. Scoped(Append(scopes, c)) /\ Len(Append(scopes, c)) = Len(scopes) + 1 /\ Len(scopes) \in Nat
  BY <1>1, ScopePush
<1> QED BY <1>2 DEF c

LEMMA BlockBegins ==
  ASSUME NEW c, NEW node \in {"if", "while"}, NEW stmts, IInv,
         stack # <<>>, ret = <<>>, BeginBlock(c, node, stmts), UNCHANGED <<ast, fn, phase, error, ret>>
  PROVE  IInv'
<1>1. CASE c.is # "ok"
  <2>1. Resolved(stack, c, FALSE) /\ UNCHANGED scopes
    BY <1>1 DEF BeginBlock
  <2> QED BY <2>1, StatementPreserves DEF IInv, Balanced
<1>2. CASE c.is = "ok"
  <2> DEFINE f == [k |-> node, condition |-> c.e]
             b == Block(Append(Top.at, <<Top.n, 1>>), stmts)
  <2>1. stack' = stack \o <<f, b>> /\ scopes' = Append(scopes, <<>>) /\ UNCHANGED result
    BY <1>2 DEF BeginBlock
  <2>2. FrameOK(f) /\ f.k # "block"
    BY DEF FrameOK
  <2>3. FrameOK(b) /\ b.k = "block"
    BY BlockFrame
  <2>4. Nested(stack) /\ AtBlock(stack) /\ Scoped(scopes)
    BY DEF IInv, Balanced
  <2> HIDE DEF f, b
  <2>5. /\ Nested(stack') /\ AtBlock(stack') /\ stack' # <<>>
        /\ Cardinality(Open(stack')) = Cardinality(Open(stack)) + 1
    BY <2>1, <2>2, <2>3, <2>4, BlockOpened
  <2>6. Scoped(scopes') /\ Len(scopes') = Len(scopes) + 1 /\ Cardinality(Open(stack)) \in Nat
    BY <2>1, <2>4, InnerScope, OpenFinite
  <2>7. Balanced' /\ Inside
    BY <2>5, <2>6 DEF IInv, Balanced, InBody, Inside
  <2> QED BY <2>1, <2>7, InsidePreserves DEF IInv, Typed
<1> QED BY <1>1, <1>2

LEMMA BeginPreserves ==
  ASSUME IInv, BeginIf \/ BeginWhile
  PROVE  IInv'
<1>1. stack # <<>> /\ ret = <<>> /\ UNCHANGED <<ast, fn, phase, error, ret>>
  BY DEF BeginIf, BeginWhile, AtStmt
<1>2. CASE BeginIf
  BY <1>1, <1>2, BlockBegins DEF BeginIf
<1>3. CASE BeginWhile
  BY <1>1, <1>3, BlockBegins DEF BeginWhile
<1> QED BY <1>2, <1>3

LEMMA EndBlockPreserves ==
  ASSUME IInv, EndBlock
  PROVE  IInv'
<1> USE DEF IInv
<1>1. /\ stack # <<>> /\ ret = <<>> /\ stack' = SubSeq(stack, 1, Len(stack) - 1) /\ scopes' = Front(scopes)
      /\ \E r : ret' = <<r>>
      /\ UNCHANGED <<ast, fn, phase, error, result>>
  BY DEF EndBlock, Below
<1>2. ret' # <<>>
  BY <1>1
<1>3. Nested(stack) /\ AtBlock(stack) /\ Scoped(scopes)
  BY <1>1 DEF Balanced
<1>4. /\ Nested(stack') /\ ~AtBlock(stack')
      /\ Cardinality(Open(stack)) = Cardinality(Open(stack')) + 1
  BY <1>1, <1>3, NestedPop
<1>5. /\ Len(scopes) = 2 + Cardinality(Open(stack)) /\ Cardinality(Open(stack)) \in Nat
      /\ Cardinality(Open(stack')) \in Nat
  BY <1>1, <1>3, <1>4, OpenFinite DEF Balanced, InBody
<1>6. scopes # <<>>
  <2>1. Len(scopes) # 0
    BY <1>5
  <2> QED BY <2>1, EmptySeq
<1>7. Scoped(Front(scopes)) /\ Len(Front(scopes)) = Len(scopes) - 1
  BY <1>3, <1>6, ScopePop
<1>8. Len(scopes') = 2 + Cardinality(Open(stack'))
  BY <1>1, <1>4, <1>5, <1>7
<1>9. Balanced' /\ Inside
  BY <1>1, <1>2, <1>4, <1>7, <1>8 DEF Balanced, InBody, Inside
<1> QED BY <1>1, <1>9, InsidePreserves DEF Typed

(* Behind a block stands the statement it belongs to, in the block around.  *)
LEMMA OuterBlock ==
  ASSUME IInv, NEW k, Returned(k)
  PROVE  /\ ret # <<>> /\ stack # <<>> /\ result = "none"
         /\ Nested(Below) /\ AtBlock(Below) /\ Scoped(scopes)
         /\ Cardinality(Open(Below)) = Cardinality(Open(stack)) /\ Cardinality(Open(stack)) \in Nat
         /\ Len(scopes) = 2 + Cardinality(Open(stack))
<1>1. ret # <<>> /\ stack # <<>> /\ result = "none"
  BY DEF Returned, Resolving
<1>2. Nested(stack) /\ ~AtBlock(stack) /\ Scoped(scopes) /\ Cardinality(Open(stack)) \in Nat
  BY <1>1, OpenFinite DEF IInv, Balanced
<1>3. Nested(Below) /\ AtBlock(Below) /\ Cardinality(Open(stack)) = Cardinality(Open(Below)) + 0
  BY <1>1, <1>2, NestedPop DEF Below
<1>4. Cardinality(Open(Below)) \in Nat
  BY <1>3, OpenFinite
<1>5. Len(scopes) = 2 + Cardinality(Open(stack))
  BY <1>1, <1>2 DEF IInv, Balanced, InBody
<1> QED BY <1>1, <1>2, <1>3, <1>4, <1>5

LEMMA EndStmtPreserves ==
  ASSUME IInv, NEW k, Returned(k), NEW node, EndStmt(node)
  PROVE  IInv'
<1> DEFINE r == IF ret[1].is = "null" THEN nullptr ELSE Ok(node, FALSE)
<1>1. Resolved(Below, r, FALSE) /\ ret' = <<>> /\ UNCHANGED <<ast, fn, phase, scopes, error>>
  BY DEF EndStmt
<1>2. r.is # "crash"
  BY DEF nullptr, Ok
<1>3. /\ ret # <<>> /\ stack # <<>> /\ Nested(Below) /\ AtBlock(Below) /\ Scoped(scopes)
      /\ Cardinality(Open(Below)) = Cardinality(Open(stack))
      /\ Len(scopes) = 2 + Cardinality(Open(stack)) /\ Cardinality(Open(stack)) \in Nat
  BY OuterBlock
<1> HIDE DEF r
<1>4. /\ Nested(stack') /\ AtBlock(stack') /\ stack' # <<>> /\ UNCHANGED result
      /\ Cardinality(Open(stack')) = Cardinality(Open(Below))
  BY <1>1, <1>2, <1>3, ResolvedKeeps
<1>5. Balanced' /\ Inside
  BY <1>1, <1>3, <1>4 DEF Balanced, InBody, Inside
<1> QED BY <1>1, <1>4, <1>5, InsidePreserves DEF IInv, Typed

LEMMA BeginElsePreserves ==
  ASSUME IInv, BeginElse
  PROVE  IInv'
<1> DEFINE f == [k |-> "else", condition |-> Top.condition, true_block |-> ret[1].e]
           b == Block(Append(Outer.at, <<Outer.n, 2>>), Statement.false_block[1])
<1>1. /\ Returned("if") /\ stack' = Below \o <<f, b>> /\ scopes' = Append(scopes, <<>>) /\ ret' = <<>>
      /\ UNCHANGED <<ast, fn, phase, error, result>>
  BY DEF BeginElse
<1>2. FrameOK(f) /\ f.k # "block"
  BY DEF FrameOK
<1>3. FrameOK(b) /\ b.k = "block"
  BY BlockFrame
<1> HIDE DEF f, b
<1>4. /\ ret # <<>> /\ stack # <<>> /\ Nested(Below) /\ AtBlock(Below) /\ Scoped(scopes)
      /\ Cardinality(Open(Below)) = Cardinality(Open(stack))
      /\ Len(scopes) = 2 + Cardinality(Open(stack)) /\ Cardinality(Open(stack)) \in Nat
  BY <1>1, OuterBlock
<1>5. /\ Nested(stack') /\ AtBlock(stack') /\ stack' # <<>>
      /\ Cardinality(Open(stack')) = Cardinality(Open(Below)) + 1
  BY <1>1, <1>2, <1>3, <1>4, BlockOpened
<1>6. Scoped(scopes') /\ Len(scopes') = Len(scopes) + 1
  BY <1>1, <1>4, InnerScope
<1>7. Balanced' /\ Inside
  BY <1>1, <1>4, <1>5, <1>6 DEF Balanced, InBody, Inside
<1> QED BY <1>1, <1>7, InsidePreserves DEF IInv, Typed

LEMMA EndPreserves ==
  ASSUME IInv, EndWhile \/ EndIf \/ EndElse
  PROVE  IInv'
<1>1. CASE EndWhile
  BY <1>1, EndStmtPreserves DEF EndWhile
<1>2. CASE EndIf
  BY <1>2, EndStmtPreserves DEF EndIf
<1>3. CASE EndElse
  BY <1>3, EndStmtPreserves DEF EndElse
<1> QED BY <1>1, <1>2, <1>3

LEMMA NextIInv == IInv /\ [Next]_vars => IInv'
<1> SUFFICES ASSUME IInv, [Next]_vars PROVE IInv'
  OBVIOUS
<1>1. CASE DeclareFunction \/ EndDeclarations
  BY <1>1, DeclareFunctionPreserves, EndDeclarationsPreserves
<1>2. CASE BeginBody \/ EndBody \/ EndProgram
  BY <1>2, BeginBodyPreserves, EndBodyPreserves, EndProgramPreserves
<1>3. CASE ResolveExprStmt \/ ResolveReturn \/ ResolveAssignment \/ ResolveDecl
  BY <1>3, SimplePreserves, DeclPreserves
<1>4. CASE BeginIf \/ BeginWhile \/ EndBlock
  BY <1>4, BeginPreserves, EndBlockPreserves
<1>5. CASE EndWhile \/ BeginElse \/ EndIf \/ EndElse
  BY <1>5, BeginElsePreserves, EndPreserves
<1>6. CASE UNCHANGED vars
  BY <1>6 DEF vars, IInv, Typed, Balanced, Declared, InBody
<1> QED BY <1>1, <1>2, <1>3, <1>4, <1>5, <1>6 DEF Next

-----------------------------------------------------------------------------
(* The loops of resolve_ast and the recursion over blocks, for every        *)
(* program and whatever becomes of its expressions.                         *)
THEOREM TypeCorrect == Spec => []TypeOK
<1>1. IInv => TypeOK
  <2> SUFFICES ASSUME IInv PROVE TypeOK
    OBVIOUS
  <2>1. Len(ret) <= 1
    <3>1. CASE ret = <<>>
      BY <3>1
    <3>2. CASE \E r : ret = <<r>>
      BY <3>2
    <3> QED BY <3>1, <3>2 DEF IInv, Typed
  <2>2. Len(scopes) >= 1
    BY OpenFinite DEF IInv, Balanced
  <2>3. \A n \in DOMAIN stack : stack[n].k \in {"block", "if", "else", "while"}
    BY DEF IInv, Balanced, Nested, FrameOK
  <2> QED BY <2>1, <2>2, <2>3 DEF TypeOK, IInv, Typed
<1> QED BY <1>1, InitIInv, NextIInv, PTL DEF Spec

(* However blocks are left, by their end or by an error in them, scope_raii *)
(* leaves as many scopes as there are blocks around, and no scope ever has  *)
(* two declarations of a name.                                              *)
THEOREM ScopesFollowBlocks == Spec => []ScopesMatchBlocks
<1>1. IInv => ScopesMatchBlocks
  <2> SUFFICES ASSUME IInv PROVE ScopesMatchBlocks
    OBVIOUS
  <2> DEFINE open == {n \in DOMAIN stack : stack[n].k = "block"}
             body == phase = "resolve" /\ (stack # <<>> \/ ret # <<>>)
  <2>1. body <=> InBody
    BY DEF IInv, Typed, InBody
  <2>2. Len(scopes) = 1 + (IF body THEN 1 ELSE 0) + Cardinality(open)
    BY <2>1 DEF IInv, Balanced, Open
  <2>3. \A s \in DOMAIN scopes : Distinct(scopes[s])
    BY DEF IInv, Balanced, Scoped, IsScope
  <2> HIDE DEF open, body
  <2>4. \A s \in DOMAIN scopes : \A i, j \in DOMAIN scopes[s] :
          scopes[s][i].identifier = scopes[s][j].identifier => i = j
    BY <2>3 DEF Distinct
  <2> QED BY <2>2, <2>4 DEF ScopesMatchBlocks, open, body
<1> QED BY <1>1, InitIInv, NextIInv, PTL DEF Spec
=============================================================================
