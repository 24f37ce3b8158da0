--------------------------- MODULE ScopingProofs ---------------------------
(* What is proved of name resolution against scoping by position, for every *)
(* program, from the contract of SemaCorrect.                               *)
EXTENDS SemaCorrect, SemaProofs, WellFoundedInduction

-----------------------------------------------------------------------------
(* Every set of natural numbers has a least element, and a greatest one if  *)
(* it is bounded.                                                           *)
LEMMA Least ==
  ASSUME NEW T, T \subseteq Nat, T # {}
  PROVE  \E x \in T : \A y \in T : x <= y
<1>1. \E R : IsWellFoundedOn(R, Nat) /\ \A x, y \in Nat : x < y => <<x, y>> \in R
  <2>1. \A x, y \in Nat : x < y => <<x, y>> \in OpToRel(<, Nat)
    BY DEF OpToRel
  <2> QED BY <2>1, NatLessThanWellFounded
<1>2. PICK R : IsWellFoundedOn(R, Nat) /\ \A x, y \in Nat : x < y => <<x, y>> \in R
  BY <1>1
<1>3. \E x \in T : \A y \in T : <<y, x>> \notin R
  <2> DEFINE N == Nat
  <2>1. IsWellFoundedOn(R, N) /\ T \subseteq N
    BY <1>2
  <2> HIDE DEF N
  <2>2. \E x \in T : \A y \in T : ~(<<y, x>> \in R)
    BY <2>1, WFMin, Zenon
  <2> QED BY <2>2
<1>4. PICK x \in T : \A y \in T : <<y, x>> \notin R
  BY <1>3
<1>5. \A y \in T : ~(y < x)
  BY <1>2, <1>4
<1> QED BY <1>5

LEMMA Greatest ==
  ASSUME NEW n \in Nat, NEW T, T \subseteq 1 .. n, T # {}
  PROVE  \E x \in T : \A y \in T : y <= x
<1> DEFINE U == {n - x : x \in T}
<1>1. U \subseteq Nat /\ U # {}
  <2>1. \A x \in T : n - x \in Nat
    OBVIOUS
  <2>2. PICK x : x \in T
    OBVIOUS
  <2>3. n - x \in U
    BY <2>2
  <2> QED BY <2>1, <2>3
<1>2. PICK u \in U : \A v \in U : u <= v
  BY <1>1, Least
<1>3. PICK x \in T : u = n - x
  BY <1>2
<1>4. \A y \in T : n - x <= n - y
  BY <1>2, <1>3
<1> QED BY <1>4

-----------------------------------------------------------------------------
(* Places.                                                                  *)
IsPlace(at) == at # <<>> /\ at \in Seq(Nat \X Nat)

LEMMA PlaceLength ==
  ASSUME NEW at, IsPlace(at)
  PROVE  Len(at) \in Nat \ {0} /\ DOMAIN at = 1 .. Len(at) /\ Around(at, Len(at)) = at
<1> DEFINE S == Nat \X Nat
<1>1. at \in Seq(S)
  BY DEF IsPlace
<1> HIDE DEF S
<1>2. Len(at) \in Nat /\ Len(at) # 0 /\ DOMAIN at = 1 .. Len(at)
  BY <1>1, LenProperties, EmptySeq DEF IsPlace
<1>3. Around(at, Len(at)) = at
  <2> DEFINE len == Len(at)
             t == SubSeq(at, 1, len)
  <2>1. len \in Nat /\ len # 0 /\ at \in Seq(S)
    BY <1>1, <1>2
  <2>2. \A i \in 1 .. len : at[i] \in S
    BY <2>1, <1>2
  <2>3. /\ t \in Seq(S) /\ Len(t) = IF 1 <= len THEN len - 1 + 1 ELSE 0
        /\ \A i \in 1 .. len - 1 + 1 : t[i] = at[1 + i - 1]
    BY <2>1, <2>2, SubSeqProperties
  <2> HIDE DEF t
  <2>4. Len(t) = len /\ \A i \in 1 .. len : t[i] = at[i]
    <3> HIDE DEF len
    <3>1. Len(t) = len
      BY <2>1, <2>3
    <3>2. ASSUME NEW i \in 1 .. len PROVE t[i] = at[i]
      <4>1. i \in 1 .. len - 1 + 1 /\ 1 + i - 1 = i
        BY <2>1
      <4> QED BY <4>1, <2>3
    <3> QED BY <3>1, <3>2
  <2>5. t = at
    BY <2>1, <2>3, <2>4, SeqEqual
  <2> QED BY <2>5 DEF Around, t, len
<1> QED BY <1>2, <1>3

(* The blocks around a place inside are those around the place outside, and *)
(* the one there.                                                           *)
LEMMA PlaceInside ==
  ASSUME NEW at, IsPlace(at), NEW b \in Nat \X Nat
  PROVE  /\ IsPlace(Append(at, b)) /\ Len(Append(at, b)) = Len(at) + 1
         /\ DOMAIN Append(at, b) = 1 .. Len(at) + 1
         /\ Append(at, b)[1] = at[1] /\ Append(at, b)[Len(at) + 1] = b
         /\ \A d \in 1 .. Len(at) : Around(Append(at, b), d) = Around(at, d)
         /\ \A d \in 1 .. Len(at) - 1 : Append(at, b)[d + 1] = at[d + 1]
<1> DEFINE c == Append(at, b)
           len == Len(at)
<1> DEFINE S == Nat \X Nat
<1>1. at \in Seq(S)
  BY DEF IsPlace
<1> HIDE DEF S
<1>2. len \in Nat \ {0}
  BY PlaceLength
<1>3. /\ c \in Seq(S \cup {b}) /\ at \in Seq(S \cup {b}) /\ Len(c) = len + 1 /\ DOMAIN c = 1 .. len + 1
      /\ \A n \in 1 .. len : c[n] = at[n]
      /\ c[len + 1] = b /\ c # <<>>
  BY <1>1, AppendKeeps, SeqMonotonic
<1> HIDE DEF c
<1>4. ASSUME NEW d \in 1 .. len PROVE Around(c, d) = Around(at, d)
  <2> DEFINE T == S \cup {b}
             u == SubSeq(c, 1, d)
             v == SubSeq(at, 1, d)
  <2>1. len \in Nat /\ d \in Nat /\ 1 \in Nat
    BY <1>2
  <2>2. /\ \A i \in 1 .. d : c[i] \in T
        /\ \A i \in 1 .. d : at[i] \in T
    <3>1. \A i \in 1 .. d : i \in 1 .. len /\ i \in 1 .. len + 1
      BY <2>1
    <3>2. \A i \in 1 .. len : at[i] \in T
      BY <1>1, PlaceLength
    <3> QED BY <3>1, <3>2, <1>3
  <2>3. c \in Seq(T) /\ at \in Seq(T)
    BY <1>3
  <2> HIDE DEF T
  <2>4. /\ u \in Seq(T) /\ Len(u) = IF 1 <= d THEN d - 1 + 1 ELSE 0
        /\ \A i \in 1 .. d - 1 + 1 : u[i] = c[1 + i - 1]
    BY <2>1, <2>2, <2>3, SubSeqProperties
  <2>5. /\ v \in Seq(T) /\ Len(v) = IF 1 <= d THEN d - 1 + 1 ELSE 0
        /\ \A i \in 1 .. d - 1 + 1 : v[i] = at[1 + i - 1]
    BY <2>1, <2>2, <2>3, SubSeqProperties
  <2> HIDE DEF u, v
  <2>6. Len(u) = Len(v)
    BY <2>4, <2>5
  <2>7. ASSUME NEW i \in 1 .. Len(u) PROVE u[i] = v[i]
    <3>1. i \in 1 .. d - 1 + 1 /\ 1 + i - 1 = i /\ i \in 1 .. len
      BY <2>1, <2>4
    <3> QED BY <3>1, <2>4, <2>5, <1>3
  <2>8. u = v
    BY <2>4, <2>5, <2>6, <2>7, SeqEqual
  <2> QED BY <2>8 DEF u, v, Around
<1>5. \A d \in 1 .. len - 1 : c[d + 1] = at[d + 1]
  <2>1. \A d \in 1 .. len - 1 : d + 1 \in 1 .. len
    BY <1>2
  <2> QED BY <2>1, <1>3
<1>6. c[1] = at[1]
  BY <1>2, <1>3
<1>7. IsPlace(c)
  <2>1. S \cup {b} = Nat \X Nat
    BY DEF S
  <2> QED BY <2>1, <1>3 DEF IsPlace
<1> QED BY <1>3, <1>4, <1>5, <1>6, <1>7 DEF c, len

LEMMA IndexHere ==
  ASSUME NEW at, NEW n
  PROVE  Index(at, n, Len(at)) = n
  BY DEF Index

LEMMA IndexInside ==
  ASSUME NEW at, IsPlace(at), NEW b \in Nat \X Nat, NEW k, NEW d \in 1 .. Len(at)
  PROVE  Index(Append(at, b), k, d) = Index(at, b[1], d)
<1> DEFINE c == Append(at, b)
           len == Len(at)
<1>1. /\ Len(c) = len + 1 /\ c[len + 1] = b
      /\ \A i \in 1 .. len - 1 : c[i + 1] = at[i + 1]
      /\ len \in Nat \ {0}
  BY PlaceInside, PlaceLength
<1> HIDE DEF c
<1>2. Index(c, k, d) = Index(at, b[1], d)
  <2>1. CASE d = len
    BY <2>1, <1>1 DEF Index, len
  <2>2. CASE d # len
    <3>1. d \in 1 .. len - 1 /\ d # len + 1
      BY <2>2, <1>1
    <3> QED BY <3>1, <2>2, <1>1 DEF Index, len
  <2> QED BY <2>1, <2>2
<1> QED BY <1>2 DEF c

LEMMA IndexNext ==
  ASSUME NEW at, IsPlace(at), NEW n, NEW k
  PROVE  \A d \in 1 .. Len(at) - 1 : Index(at, k, d) = Index(at, n, d)
<1>1. ASSUME NEW d \in 1 .. Len(at) - 1 PROVE Index(at, k, d) = Index(at, n, d)
  <2>1. d # Len(at)
    BY PlaceLength
  <2> QED BY <2>1 DEF Index
<1> QED BY <1>1

-----------------------------------------------------------------------------
(* Listings of sets.                                                        *)
LEMMA EmptyListing == <<>> \in Listings({})
<1>1. Cardinality({}) = 0
  BY FS_EmptySet
<1>2. <<>> \in [1 .. 0 -> {}]
  OBVIOUS
<1> QED BY <1>1, <1>2 DEF Listings

LEMMA ListingGrows ==
  ASSUME NEW S, IsFiniteSet(S), NEW s \in Listings(S), NEW x, x \notin S
  PROVE  Append(s, x) \in Listings(S \cup {x})
<1> DEFINE c == Cardinality(S)
           t == Append(s, x)
<1>1. c \in Nat /\ Cardinality(S \cup {x}) = c + 1
  BY FS_CardinalityType, FS_AddElement
<1>2. s \in [1 .. c -> S] /\ \A y \in S : \E i \in 1 .. c : s[i] = y
  BY DEF Listings
<1> HIDE DEF c
<1>3. s \in Seq(S)
  BY <1>1, <1>2, SeqDef
<1>4. Len(s) = c
  BY <1>1, <1>2, <1>3, LenProperties
<1>5. /\ t \in Seq(S \cup {x}) /\ DOMAIN t = 1 .. c + 1
      /\ \A n \in 1 .. c : t[n] = s[n]
      /\ t[c + 1] = x
  BY <1>3, <1>4, AppendKeeps
<1> HIDE DEF t
<1>6. t \in [1 .. c + 1 -> S \cup {x}]
  <2>1. t \in [1 .. Len(t) -> S \cup {x}] /\ DOMAIN t = 1 .. Len(t)
    BY <1>5, LenProperties
  <2> QED BY <2>1, <1>5
<1>7. ASSUME NEW y \in S \cup {x} PROVE \E i \in DOMAIN t : t[i] = y
  <2>1. CASE y \in S
    <3>1. PICK i \in 1 .. c : s[i] = y
      BY <2>1, <1>2
    <3>2. i \in 1 .. c + 1
      BY <1>1
    <3> QED BY <3>1, <3>2, <1>5
  <2>2. CASE y = x
    <3>1. c + 1 \in 1 .. c + 1
      BY <1>1
    <3> QED BY <3>1, <2>2, <1>5
  <2> QED BY <2>1, <2>2
<1> DEFINE U == S \cup {x}
<1>8. Cardinality(U) = c + 1
  BY <1>1
<1>9. t \in [1 .. c + 1 -> U] /\ \A y \in U : \E i \in DOMAIN t : t[i] = y
  BY <1>6, <1>7
<1> HIDE DEF U
<1>10. t \in Listings(U)
  BY <1>8, <1>9 DEF Listings
<1> QED BY <1>10 DEF U, t

-----------------------------------------------------------------------------
(* The scopes that belong to a statement of the block at a place.           *)
In(p, scps, at, n) ==
  /\ \E S : scps \in Seq(S)
  /\ Len(scps) = Len(at) + 2 /\ scps[1] = Globals(p) /\ scps[2] = Parameters(p, at[1][1])
  /\ \A d \in 1 .. Len(at) : scps[d + 2] \in Listings(Locals(p, Around(at, d), Index(at, n, d)))

LEMMA InScopesAt ==
  ASSUME NEW p, NEW scps, NEW at, IsPlace(at), NEW n, In(p, scps, at, n)
  PROVE  scps \in ScopesAt(p, at, n)
<1> DEFINE listings(d) == Listings(Locals(p, Around(at, d), Index(at, n, d)))
           s == [d \in 1 .. Len(at) |-> scps[d + 2]]
           t == [i \in 1 .. (Len(at) + 2) |->
                   IF i = 1 THEN Globals(p) ELSE IF i = 2 THEN Parameters(p, at[1][1]) ELSE s[i - 2]]
<1>1. Len(at) \in Nat \ {0} /\ DOMAIN at = 1 .. Len(at)
  BY PlaceLength
<1>2. \A d \in 1 .. Len(at) : scps[d + 2] \in listings(d)
  BY DEF In
<1> HIDE DEF listings
<1>3. s \in [DOMAIN at -> UNION {listings(d) : d \in DOMAIN at}] /\ \A d \in DOMAIN at : s[d] \in listings(d)
  BY <1>1, <1>2
<1> HIDE DEF s
<1>4. t \in ScopesAt(p, at, n)
  BY <1>3 DEF ScopesAt, listings
<1>5. scps = t
  <2>1. PICK S : scps \in Seq(S)
    BY DEF In
  <2>2. Len(scps) = Len(at) + 2 /\ scps[1] = Globals(p) /\ scps[2] = Parameters(p, at[1][1])
    BY DEF In
  <2>3. scps \in [1 .. Len(at) + 2 -> S]
    BY <2>1, <2>2, LenProperties
  <2>4. \A i \in 1 .. Len(at) + 2 : scps[i] = t[i]
    <3> SUFFICES ASSUME NEW i \in 1 .. Len(at) + 2 PROVE scps[i] = t[i]
      OBVIOUS
    <3>1. CASE i = 1 \/ i = 2
      BY <3>1, <2>2
    <3>2. CASE i # 1 /\ i # 2
      <4>1. i - 2 \in 1 .. Len(at) /\ i - 2 + 2 = i
        BY <3>2, <1>1
      <4> QED BY <4>1, <3>2 DEF s
    <3> QED BY <3>1, <3>2
  <2> QED BY <2>3, <2>4
<1> QED BY <1>4, <1>5

(* Into a block, and out of it.                                             *)
LEMMA InEnters ==
  ASSUME NEW p, NEW scps, NEW at, IsPlace(at), NEW b \in Nat \X Nat, In(p, scps, at, b[1])
  PROVE  In(p, Append(scps, <<>>), Append(at, b), 1)
<1> DEFINE e == <<>>
           t == Append(scps, e)
           c == Append(at, b)
           len == Len(at)
<1>1. PICK S : scps \in Seq(S)
  BY DEF In
<1>2. len \in Nat \ {0} /\ Len(scps) = len + 2
  BY PlaceLength DEF In
<1>3. e \in Listings(Locals(p, c, 1))
  <2>1. Locals(p, c, 1) = {}
    BY DEF Locals, Declarations
  <2> QED BY <2>1, EmptyListing
<1> HIDE DEF e
<1>4. /\ t \in Seq(S \cup {e}) /\ Len(t) = Len(scps) + 1
      /\ \A i \in 1 .. Len(scps) : t[i] = scps[i]
      /\ t[Len(scps) + 1] = e
  BY <1>1, AppendKeeps
<1> HIDE DEF t
<1>5. /\ Len(c) = len + 1 /\ c[1] = at[1] /\ IsPlace(c)
      /\ \A d \in 1 .. len : Around(c, d) = Around(at, d)
      /\ \A d \in 1 .. len : Index(c, 1, d) = Index(at, b[1], d)
      /\ Index(c, 1, len + 1) = 1 /\ Around(c, len + 1) = c
  <2>1. /\ Len(c) = len + 1 /\ c[1] = at[1] /\ IsPlace(c)
        /\ \A d \in 1 .. len : Around(c, d) = Around(at, d)
    BY PlaceInside
  <2>2. \A d \in 1 .. len : Index(c, 1, d) = Index(at, b[1], d)
    BY IndexInside
  <2>3. Around(c, Len(c)) = c /\ Index(c, 1, Len(c)) = 1
    BY <2>1, PlaceLength, IndexHere
  <2> QED BY <2>1, <2>2, <2>3
<1> HIDE DEF c
<1>6. Len(t) = Len(c) + 2
  BY <1>2, <1>4, <1>5
<1>7. t[1] = Globals(p) /\ t[2] = Parameters(p, c[1][1])
  <2>1. 1 \in 1 .. Len(scps) /\ 2 \in 1 .. Len(scps)
    BY <1>2
  <2> QED BY <2>1, <1>4, <1>5 DEF In
<1>8. ASSUME NEW d \in 1 .. Len(c)
      PROVE  t[d + 2] \in Listings(Locals(p, Around(c, d), Index(c, 1, d)))
  <2>1. CASE d \in 1 .. len
    <3>1. d + 2 \in 1 .. Len(scps)
      BY <2>1, <1>2
    <3>2. t[d + 2] = scps[d + 2]
      BY <3>1, <1>4
    <3>3. scps[d + 2] \in Listings(Locals(p, Around(at, d), Index(at, b[1], d)))
      BY <2>1 DEF In
    <3> QED BY <2>1, <3>2, <3>3, <1>5
  <2>2. CASE d = len + 1
    <3>1. d + 2 = Len(scps) + 1
      BY <2>2, <1>2
    <3> QED BY <2>2, <3>1, <1>3, <1>4, <1>5
  <2> QED BY <2>1, <2>2, <1>2, <1>5
<1>9. In(p, t, c, 1)
  BY <1>4, <1>6, <1>7, <1>8 DEF In
<1> QED BY <1>9 DEF t, c, e

LEMMA InLeaves ==
  ASSUME NEW p, NEW scps, NEW at, IsPlace(at), NEW b \in Nat \X Nat, NEW k, In(p, scps, Append(at, b), k)
  PROVE  In(p, Front(scps), at, b[1])
<1> DEFINE t == Front(scps)
           c == Append(at, b)
           len == Len(at)
<1>1. PICK S : scps \in Seq(S)
  BY DEF In
<1>2. /\ Len(c) = len + 1 /\ c[1] = at[1] /\ len \in Nat \ {0}
      /\ \A d \in 1 .. len : Around(c, d) = Around(at, d)
      /\ \A d \in 1 .. len : Index(c, k, d) = Index(at, b[1], d)
  <2>1. \A d \in 1 .. len : Index(c, k, d) = Index(at, b[1], d)
    BY IndexInside
  <2> QED BY <2>1, PlaceInside, PlaceLength
<1> HIDE DEF c
<1>3. In(p, scps, c, k)
  BY DEF c
<1>4. Len(scps) = len + 3 /\ scps # <<>>
  <2>1. Len(scps) = len + 3
    BY <1>2, <1>3 DEF In
  <2>2. Len(scps) # 0
    BY <2>1, <1>2
  <2> QED BY <2>1, <2>2, EmptySeq
<1>5. /\ t \in Seq(S) /\ Len(t) = Len(scps) - 1
      /\ \A i \in 1 .. Len(scps) - 1 : t[i] = scps[i]
  BY <1>1, <1>4, FrontKeeps DEF Front
<1> HIDE DEF t
<1>6. Len(t) = len + 2 /\ \A i \in 1 .. len + 2 : t[i] = scps[i]
  BY <1>2, <1>4, <1>5
<1>7. t[1] = Globals(p) /\ t[2] = Parameters(p, at[1][1])
  <2>1. 1 \in 1 .. len + 2 /\ 2 \in 1 .. len + 2
    BY <1>2
  <2> QED BY <2>1, <1>2, <1>3, <1>6 DEF In
<1>8. ASSUME NEW d \in 1 .. len
      PROVE  t[d + 2] \in Listings(Locals(p, Around(at, d), Index(at, b[1], d)))
  <2>1. d + 2 \in 1 .. len + 2 /\ d \in 1 .. Len(c)
    BY <1>2
  <2>2. scps[d + 2] \in Listings(Locals(p, Around(c, d), Index(c, k, d)))
    BY <2>1, <1>3 DEF In
  <2> QED BY <2>1, <2>2, <1>2, <1>6
<1> QED BY <1>5, <1>6, <1>7, <1>8 DEF In, t

(* Past a statement that declares nothing.                                  *)
LEMMA DeclarationsNext ==
  ASSUME NEW p, NEW at, NEW n \in Nat \ {0}
  PROVE  Declarations(p, at, n + 1) =
           Declarations(p, at, n) \cup (IF Stmts(p, at)[n].k = "decl" THEN {n} ELSE {})
<1>1. 1 .. (n + 1 - 1) = (1 .. (n - 1)) \cup {n}
  OBVIOUS
<1> QED BY <1>1 DEF Declarations

LEMMA InPasses ==
  ASSUME NEW p, NEW scps, NEW at, IsPlace(at), NEW n \in Nat \ {0}, In(p, scps, at, n),
         Stmts(p, at)[n].k # "decl"
  PROVE  In(p, scps, at, n + 1)
<1>1. Locals(p, at, n + 1) = Locals(p, at, n)
  <2>1. Declarations(p, at, n + 1) = Declarations(p, at, n) \cup {}
    BY DeclarationsNext
  <2> QED BY <2>1 DEF Locals
<1>2. /\ \A d \in 1 .. Len(at) - 1 : Index(at, n + 1, d) = Index(at, n, d)
      /\ Index(at, n + 1, Len(at)) = n + 1 /\ Index(at, n, Len(at)) = n
  BY IndexNext, IndexHere
<1>3. Around(at, Len(at)) = at /\ Len(at) \in Nat \ {0}
  BY PlaceLength
<1>4. ASSUME NEW d \in 1 .. Len(at)
      PROVE  scps[d + 2] \in Listings(Locals(p, Around(at, d), Index(at, n + 1, d)))
  <2>1. scps[d + 2] \in Listings(Locals(p, Around(at, d), Index(at, n, d)))
    BY DEF In
  <2>2. CASE d = Len(at)
    BY <2>1, <2>2, <1>1, <1>2, <1>3
  <2>3. CASE d # Len(at)
    <3>1. d \in 1 .. Len(at) - 1
      BY <2>3, <1>3
    <3> QED BY <2>1, <3>1, <1>2
  <2> QED BY <2>2, <2>3
<1> QED BY <1>4 DEF In

(* Past a declaration of a name that is new to the block.                   *)
LEMMA VariableName ==
  ASSUME NEW p, NEW at, NEW n
  PROVE  /\ Variable(p, at, n).identifier = Stmts(p, at)[n].var.identifier
         /\ Variable(p, at, n).k = "var"
  BY DEF Variable, DeclName, Tree!var_decl

LEMMA InDeclares ==
  ASSUME NEW p, NEW scps, NEW at, IsPlace(at), NEW n \in Nat \ {0}, In(p, scps, at, n),
         Stmts(p, at)[n].k = "decl", Declaring(p, at, n, Stmts(p, at)[n].var.identifier) = {}
  PROVE  In(p, Insert(scps, Variable(p, at, n)), at, n + 1)
<1> DEFINE v == Variable(p, at, n)
           L == Locals(p, at, n)
           len == Len(at)
           c == Append(Last(scps), v)
           t == Append(Front(scps), c)
<1>1. PICK S : scps \in Seq(S)
  BY DEF In
<1>2. len \in Nat \ {0} /\ Around(at, len) = at /\ Len(scps) = len + 2 /\ scps # <<>>
  <2>1. len \in Nat \ {0} /\ Around(at, len) = at /\ Len(scps) = len + 2
    BY PlaceLength DEF In
  <2>2. Len(scps) # 0
    BY <2>1
  <2> QED BY <2>1, <2>2, EmptySeq
<1>3. Locals(p, at, n + 1) = L \cup {v}
  <2>1. Declarations(p, at, n + 1) = Declarations(p, at, n) \cup {n}
    BY DeclarationsNext
  <2> QED BY <2>1 DEF Locals
<1>4. v \notin L
  <2> SUFFICES ASSUME NEW m \in Declarations(p, at, n), Variable(p, at, m) = v PROVE FALSE
    BY DEF Locals
  <2>1. Stmts(p, at)[m].var.identifier = Stmts(p, at)[n].var.identifier
    BY VariableName
  <2> QED BY <2>1 DEF Declaring
<1>5. IsFiniteSet(L)
  <2>1. IsFiniteSet(1 .. (n - 1))
    BY FS_Interval
  <2>2. IsFiniteSet(Declarations(p, at, n))
    BY <2>1, FS_Subset DEF Declarations
  <2> DEFINE D == Declarations(p, at, n)
             f == [m \in D |-> Variable(p, at, m)]
  <2>3. L = {f[m] : m \in D}
    BY DEF Locals
  <2>4. f \in Surjection(D, L)
    BY <2>3 DEF Surjection
  <2> HIDE DEF D, f, L
  <2>5. IsFiniteSet(D)
    BY <2>2 DEF D
  <2> QED BY <2>4, <2>5, FS_Surjection
<1>6. /\ Last(scps) \in Listings(L)
      /\ \A d \in 1 .. len - 1 : scps[d + 2] \in Listings(Locals(p, Around(at, d), Index(at, n + 1, d)))
  <2>1. Index(at, n, len) = n /\ \A d \in 1 .. len - 1 : Index(at, n + 1, d) = Index(at, n, d)
    BY IndexHere, IndexNext
  <2>2. \A d \in 1 .. len : scps[d + 2] \in Listings(Locals(p, Around(at, d), Index(at, n, d)))
    BY DEF In
  <2>3. len \in 1 .. len /\ \A d \in 1 .. len - 1 : d \in 1 .. len
    BY <1>2
  <2>4. Last(scps) = scps[len + 2]
    BY <1>2 DEF Last
  <2> QED BY <2>1, <2>2, <2>3, <2>4, <1>2
<1>7. c \in Listings(Locals(p, at, n + 1))
  <2> HIDE DEF L, v
  <2>1. Append(Last(scps), v) \in Listings(L \cup {v})
    BY <1>4, <1>5, <1>6, ListingGrows
  <2> QED BY <2>1, <1>3
<1> HIDE DEF L, v
<1>8. Insert(scps, v) = t
  <2>1. Front(scps) \in Seq(S)
    BY <1>1, <1>2, FrontKeeps DEF Front
  <2> DEFINE T == S \cup {c}
  <2>2. Front(scps) \in Seq(T) /\ c \in T
    BY <2>1, SeqMonotonic
  <2> HIDE DEF T, c
  <2>3. Append(Front(scps), c) = Front(scps) \o <<c>>
    BY <2>2, AppendIsConcat
  <2> QED BY <2>3 DEF Insert, c
<1> HIDE DEF c
<1>9. /\ t \in Seq(S \cup {c}) /\ Len(t) = len + 2
      /\ \A i \in 1 .. len + 1 : t[i] = scps[i]
      /\ t[len + 2] = c
  <2> DEFINE b == Front(scps)
  <2>1. b \in Seq(S) /\ Len(b) = Len(scps) - 1 /\ \A i \in 1 .. Len(scps) - 1 : b[i] = scps[i]
    BY <1>1, <1>2, FrontKeeps DEF Front
  <2> HIDE DEF b
  <2>2. /\ Append(b, c) \in Seq(S \cup {c}) /\ Len(Append(b, c)) = Len(b) + 1
        /\ \A i \in 1 .. Len(b) : Append(b, c)[i] = b[i]
        /\ Append(b, c)[Len(b) + 1] = c
    BY <2>1, AppendKeeps
  <2>3. Len(b) = len + 1 /\ Len(b) + 1 = len + 2
    BY <2>1, <1>2
  <2>4. \A i \in 1 .. len + 1 : i \in 1 .. Len(scps) - 1
    BY <1>2
  <2> QED BY <2>1, <2>2, <2>3, <2>4 DEF b
<1> HIDE DEF t
<1>10. t[1] = Globals(p) /\ t[2] = Parameters(p, at[1][1])
  <2>1. 1 \in 1 .. len + 1 /\ 2 \in 1 .. len + 1
    BY <1>2
  <2> QED BY <2>1, <1>9 DEF In
<1>11. ASSUME NEW d \in 1 .. len
       PROVE  t[d + 2] \in Listings(Locals(p, Around(at, d), Index(at, n + 1, d)))
  <2>1. CASE d = len
    <3>1. Index(at, n + 1, len) = n + 1
      BY IndexHere
    <3> QED BY <2>1, <3>1, <1>2, <1>7, <1>9
  <2>2. CASE d # len
    <3>1. d \in 1 .. len - 1 /\ d + 2 \in 1 .. len + 1
      BY <2>2, <1>2
    <3> QED BY <3>1, <1>6, <1>9
  <2> QED BY <2>1, <2>2
<1>12. In(p, t, at, n + 1)
  BY <1>9, <1>10, <1>11 DEF In
<1> QED BY <1>8, <1>12 DEF v

(* Of what is in scope all is well-typed, all along.                        *)
LEMMA SoundEnters ==
  ASSUME NEW p, NEW at, IsPlace(at), NEW b \in Nat \X Nat, SoundAt(p, at, b[1])
  PROVE  SoundAt(p, Append(at, b), 1)
<1> DEFINE c == Append(at, b)
           len == Len(at)
<1>1. /\ Len(c) = len + 1 /\ DOMAIN c = 1 .. len + 1 /\ DOMAIN at = 1 .. len /\ len \in Nat
      /\ \A d \in 1 .. len : Around(c, d) = Around(at, d)
  BY PlaceInside, PlaceLength
<1>2. \A d \in 1 .. len : Index(c, 1, d) = Index(at, b[1], d)
  BY IndexInside
<1> HIDE DEF c
<1>3. Index(c, 1, len + 1) = 1
  BY <1>1, IndexHere
<1>4. \A a : Declarations(p, a, 1) = {}
  BY DEF Declarations
<1>5. ASSUME NEW d \in DOMAIN c, NEW m \in Declarations(p, Around(c, d), Index(c, 1, d))
      PROVE  WellTypedStmt(p, Around(c, d), m)
  <2>1. d \in 1 .. len
    BY <1>1, <1>3, <1>4, <1>5
  <2> QED BY <2>1, <1>1, <1>2, <1>5 DEF SoundAt
<1> QED BY <1>5 DEF SoundAt, c

LEMMA SoundLeaves ==
  ASSUME NEW p, NEW at, IsPlace(at), NEW b \in Nat \X Nat, NEW k, SoundAt(p, Append(at, b), k)
  PROVE  SoundAt(p, at, b[1])
<1> DEFINE c == Append(at, b)
           len == Len(at)
<1>1. /\ DOMAIN c = 1 .. len + 1 /\ DOMAIN at = 1 .. len /\ len \in Nat
      /\ \A d \in 1 .. len : Around(c, d) = Around(at, d)
  BY PlaceInside, PlaceLength
<1>2. \A d \in 1 .. len : Index(c, k, d) = Index(at, b[1], d)
  BY IndexInside
<1>3. SoundAt(p, c, k)
  OBVIOUS
<1> HIDE DEF c
<1>4. ASSUME NEW d \in DOMAIN at, NEW m \in Declarations(p, Around(at, d), Index(at, b[1], d))
      PROVE  WellTypedStmt(p, Around(at, d), m)
  <2>1. d \in 1 .. len /\ d \in DOMAIN c
    BY <1>1
  <2> QED BY <2>1, <1>1, <1>2, <1>3, <1>4 DEF SoundAt
<1> QED BY <1>4 DEF SoundAt

LEMMA SoundPasses ==
  ASSUME NEW p, NEW at, IsPlace(at), NEW n \in Nat \ {0}, SoundAt(p, at, n), WellTypedStmt(p, at, n)
  PROVE  SoundAt(p, at, n + 1)
<1>1. /\ DOMAIN at = 1 .. Len(at) /\ Len(at) \in Nat /\ Around(at, Len(at)) = at
      /\ \A d \in 1 .. Len(at) - 1 : Index(at, n + 1, d) = Index(at, n, d)
      /\ Index(at, n + 1, Len(at)) = n + 1 /\ Index(at, n, Len(at)) = n
  BY PlaceLength, IndexNext, IndexHere
<1>2. ASSUME NEW d \in DOMAIN at, NEW m \in Declarations(p, Around(at, d), Index(at, n + 1, d))
      PROVE  WellTypedStmt(p, Around(at, d), m)
  <2>1. CASE d = Len(at)
    <3>1. m = n \/ m \in Declarations(p, at, n)
      BY <2>1, <1>1, <1>2, DeclarationsNext
    <3> QED BY <2>1, <3>1, <1>1 DEF SoundAt
  <2>2. CASE d # Len(at)
    <3>1. d \in 1 .. Len(at) - 1
      BY <2>2, <1>1
    <3> QED BY <3>1, <1>1, <1>2 DEF SoundAt
  <2> QED BY <2>1, <2>2
<1> QED BY <1>2 DEF SoundAt

-----------------------------------------------------------------------------
(* What lookupDecl finds in the scopes of a place is what the name means    *)
(* there.                                                                   *)
LEMMA FirstIn ==
  ASSUME NEW S, S \subseteq Nat, S # {}
  PROVE  First(S) \in S /\ \A n \in S : First(S) <= n
<1>1. \E j \in S : \A n \in S : j <= n
  BY Least
<1> QED BY <1>1 DEF First

LEMMA FirstOnly ==
  ASSUME NEW x \in Nat
  PROVE  First({x}) = x
<1> DEFINE S == {x}
<1>1. S \subseteq Nat /\ S # {} /\ \A y \in S : y = x
  OBVIOUS
<1> HIDE DEF S
<1>2. First(S) \in S
  BY <1>1, FirstIn
<1>3. First(S) = x
  BY <1>1, <1>2
<1> QED BY <1>3 DEF S

LEMMA LookupFinds ==
  ASSUME NEW S, NEW scps \in Seq(S), NEW id, NEW i \in 1 .. Len(scps), Named(scps[i], id) # {},
         \A j \in 1 .. Len(scps) : j > i => Named(scps[j], id) = {}
  PROVE  lookupDecl(scps, id) = <<scps[i][First(Named(scps[i], id))]>>
<1> DEFINE found == {j \in DOMAIN scps : Named(scps[j], id) # {}}
           max == CHOOSE j \in found : \A k \in found : k <= j
<1>1. Len(scps) \in Nat /\ DOMAIN scps = 1 .. Len(scps)
  BY LenProperties
<1>2. i \in found /\ \A k \in found : k <= i /\ k \in Nat
  BY <1>1
<1> HIDE DEF found
<1>3. max \in found /\ \A k \in found : k <= max
  <2>1. \E j \in found : \A k \in found : k <= j
    BY <1>2
  <2> QED BY <2>1
<1> HIDE DEF max
<1>4. max = i
  BY <1>2, <1>3
<1>5. found # {}
  BY <1>2
<1>6. lookupDecl(scps, id) = <<scps[max][First(Named(scps[max], id))]>>
  BY <1>5 DEF lookupDecl, found, max
<1> QED BY <1>4, <1>6

LEMMA LookupFails ==
  ASSUME NEW S, NEW scps \in Seq(S), NEW id, \A j \in 1 .. Len(scps) : Named(scps[j], id) = {}
  PROVE  lookupDecl(scps, id) = <<>>
<1>1. DOMAIN scps = 1 .. Len(scps)
  BY LenProperties
<1> QED BY <1>1 DEF lookupDecl

LEMMA IndexNatural ==
  ASSUME NEW at, IsPlace(at), NEW n \in Nat
  PROVE  at[1][1] \in Nat /\ \A d \in 1 .. Len(at) : Index(at, n, d) \in Nat
<1>1. Len(at) \in Nat \ {0} /\ DOMAIN at = 1 .. Len(at)
  BY PlaceLength
<1>2. \A d \in 1 .. Len(at) : at[d] \in Nat \X Nat
  BY <1>1 DEF IsPlace
<1>3. \A d \in 1 .. Len(at) : at[d][1] \in Nat
  BY <1>2
<1>4. ASSUME NEW d \in 1 .. Len(at) PROVE Index(at, n, d) \in Nat
  <2>1. CASE d = Len(at)
    BY <2>1 DEF Index
  <2>2. CASE d # Len(at)
    <3>1. d + 1 \in 1 .. Len(at)
      <4> DEFINE len == Len(at)
      <4>1. len \in Nat /\ d \in 1 .. len /\ d # len
        BY <2>2, <1>1
      <4> HIDE DEF len
      <4>2. d + 1 \in 1 .. len
        BY <4>1
      <4> QED BY <4>2 DEF len
    <3> QED BY <2>2, <3>1, <1>3 DEF Index
  <2> QED BY <2>1, <2>2
<1>5. 1 \in 1 .. Len(at)
  BY <1>1
<1> QED BY <1>3, <1>4, <1>5

(* A well-typed declaration.                                                *)
LEMMA WellTypedDecl ==
  ASSUME NEW p, NEW at, NEW n, Stmts(p, at)[n].k = "decl"
  PROVE  WellTypedStmt(p, at, n) <=>
           /\ Number(p, at, n, ToSet(Stmts(p, at)[n].var.initializer))
           /\ \A t \in ToSet(Stmts(p, at)[n].var.type) : t.kind = "number"
           /\ Stmts(p, at)[n].var.type # <<>> \/ Stmts(p, at)[n].var.initializer # <<>>
           /\ Declaring(p, at, n, Stmts(p, at)[n].var.identifier) = {}
  BY DEF WellTypedStmt

(* One declaration of a name in a block, as all are well-typed.             *)
LEMMA OneDeclaring ==
  ASSUME NEW p, NEW at, NEW n \in Nat, NEW id,
         \A m \in Declarations(p, at, n) : WellTypedStmt(p, at, m),
         NEW i \in Declaring(p, at, n, id), NEW j \in Declaring(p, at, n, id)
  PROVE  i = j
<1>1. ASSUME NEW k \in Declaring(p, at, n, id), NEW m \in Declaring(p, at, n, id), k < m
      PROVE  FALSE
  <2>1. /\ k \in 1 .. (n - 1) /\ m \in 1 .. (n - 1) /\ Stmts(p, at)[k].k = "decl" /\ Stmts(p, at)[m].k = "decl"
        /\ Stmts(p, at)[k].var.identifier = id /\ Stmts(p, at)[m].var.identifier = id
        /\ m \in Declarations(p, at, n)
    BY DEF Declaring, Declarations
  <2>2. Declaring(p, at, m, id) = {}
    BY <2>1, WellTypedDecl
  <2>3. k \in 1 .. (m - 1)
    BY <2>1, <1>1
  <2>4. k \in Declaring(p, at, m, id)
    BY <2>1, <2>3 DEF Declaring, Declarations
  <2> QED BY <2>2, <2>4
<1>2. i \in Nat /\ j \in Nat
  BY DEF Declaring, Declarations
<1>3. ~(i < j) /\ ~(j < i)
  BY <1>1
<1> QED BY <1>2, <1>3

LEMMA LocalNames ==
  ASSUME NEW p, NEW at, NEW n \in Nat, NEW id,
         \A m \in Declarations(p, at, n) : WellTypedStmt(p, at, m),
         NEW s \in Listings(Locals(p, at, n))
  PROVE  /\ Named(s, id) # {} <=> Declaring(p, at, n, id) # {}
         /\ Named(s, id) # {} =>
              /\ s[First(Named(s, id))] = Variable(p, at, First(Declaring(p, at, n, id)))
              /\ First(Declaring(p, at, n, id)) \in Declarations(p, at, n)
<1> DEFINE L == Locals(p, at, n)
           c == Cardinality(L)
           N == Named(s, id)
           D == Declaring(p, at, n, id)
<1>1. s \in [1 .. c -> L] /\ (\A x \in L : \E i \in DOMAIN s : s[i] = x)
  BY DEF Listings
<1> HIDE DEF c
<1>2. \A i \in DOMAIN s : \E m \in Declarations(p, at, n) : s[i] = Variable(p, at, m)
  BY <1>1 DEF Locals
<1>3. \A m \in Declarations(p, at, n) : Variable(p, at, m) \in L
  BY DEF Locals
<1> HIDE DEF L
<1>4. ASSUME NEW i \in N PROVE \E m \in D : s[i] = Variable(p, at, m)
  <2>1. i \in DOMAIN s /\ s[i].identifier = id
    BY DEF Named
  <2>2. PICK m \in Declarations(p, at, n) : s[i] = Variable(p, at, m)
    BY <2>1, <1>2
  <2>3. Stmts(p, at)[m].var.identifier = id
    BY <2>1, <2>2, VariableName
  <2> QED BY <2>2, <2>3 DEF Declaring
<1>5. ASSUME NEW m \in D PROVE N # {}
  <2>1. m \in Declarations(p, at, n) /\ Stmts(p, at)[m].var.identifier = id
    BY DEF Declaring
  <2>2. PICK i \in DOMAIN s : s[i] = Variable(p, at, m)
    BY <2>1, <1>1, <1>3
  <2>3. s[i].identifier = id
    BY <2>1, <2>2, VariableName
  <2> QED BY <2>2, <2>3 DEF Named
<1>6. N \subseteq Nat /\ D \subseteq Nat
  <2>1. DOMAIN s = 1 .. c
    BY <1>1
  <2>2. N \subseteq 1 .. c
    BY <2>1 DEF Named
  <2>3. D \subseteq 1 .. (n - 1)
    BY DEF Declaring, Declarations
  <2>4. \A i \in 1 .. c : i \in Nat
    OBVIOUS
  <2> QED BY <2>2, <2>3, <2>4
<1>7. \A i, j \in D : i = j
  BY OneDeclaring
<1>8. \A m \in D : m \in Declarations(p, at, n)
  BY DEF Declaring
<1> HIDE DEF N, D
<1>9. ASSUME N # {}
      PROVE  s[First(N)] = Variable(p, at, First(D)) /\ First(D) \in Declarations(p, at, n)
  <2>1. First(N) \in N
    BY <1>6, <1>9, FirstIn
  <2>2. PICK m \in D : s[First(N)] = Variable(p, at, m)
    BY <2>1, <1>4
  <2>3. First(D) \in D
    BY <2>2, <1>6, FirstIn
  <2>4. First(D) = m
    BY <2>2, <2>3, <1>7
  <2> QED BY <2>2, <2>3, <2>4, <1>8
<1>10. N # {} <=> D # {}
  BY <1>4, <1>5
<1> QED BY <1>9, <1>10 DEF N, D

LEMMA ParameterNames ==
  ASSUME NEW p, NEW f \in DOMAIN p, Listed(p[f].params), WellTypedSignature(p, f), NEW id
  PROVE  /\ Named(Parameters(p, f), id) = ParamsNamed(p, f, id)
         /\ ParamsNamed(p, f, id) # {} =>
              Parameters(p, f)[First(ParamsNamed(p, f, id))] = Parameter(p, f, First(ParamsNamed(p, f, id)))
<1>1. \A i \in DOMAIN p[f].params : Parameter(p, f, i).identifier = p[f].params[i].identifier
  BY DEF Parameter, DeclName
<1>2. Named(Parameters(p, f), id) = ParamsNamed(p, f, id)
  BY <1>1 DEF Named, Parameters, ParamsNamed
<1>3. ParamsNamed(p, f, id) \subseteq DOMAIN p[f].params /\ DOMAIN p[f].params \subseteq Nat
  <2>1. DOMAIN p[f].params = 1 .. Len(p[f].params)
    BY DEF Listed
  <2>2. \A i \in 1 .. Len(p[f].params) : i \in Nat
    OBVIOUS
  <2> QED BY <2>1, <2>2 DEF ParamsNamed
<1>4. ASSUME ParamsNamed(p, f, id) # {}
      PROVE  Parameters(p, f)[First(ParamsNamed(p, f, id))] = Parameter(p, f, First(ParamsNamed(p, f, id)))
  <2>1. First(ParamsNamed(p, f, id)) \in ParamsNamed(p, f, id)
    BY <1>3, <1>4, FirstIn
  <2>2. First(ParamsNamed(p, f, id)) \in DOMAIN p[f].params
    BY <2>1, <1>3
  <2> QED BY <2>2 DEF Parameters
<1> QED BY <1>2, <1>4

LEMMA GlobalList ==
  ASSUME NEW p, Listed(p)
  PROVE  /\ \E S : Globals(p) \in Seq(S)
         /\ Len(Globals(p)) = Len(p) + 1 /\ DOMAIN Globals(p) = 1 .. Len(p) + 1
         /\ Globals(p)[1] = println
         /\ \A i \in DOMAIN p : Globals(p)[i + 1] = Function(p[i])
<1> DEFINE len == Len(p)
           g == [i \in 1 .. len |-> Function(p[i])]
           S == {Function(p[i]) : i \in 1 .. len}
           T == S \cup {println}
           b == <<println>>
           c == b \o g
<1>1. len \in Nat /\ DOMAIN p = 1 .. len
  BY DEF Listed
<1>2. Globals(p) = c
  BY <1>1 DEF Globals
<1>3. g \in [1 .. len -> S] /\ \A i \in 1 .. len : g[i] = Function(p[i])
  OBVIOUS
<1> HIDE DEF g
<1>4. g \in Seq(S)
  BY <1>1, <1>3, SeqDef
<1>5. Len(g) = len
  BY <1>1, <1>3, <1>4, LenProperties
<1>6. g \in Seq(T)
  BY <1>4, SeqMonotonic
<1>7. b \in Seq(T) /\ Len(b) = 1 /\ b[1] = println
  <2>1. println \in T
    OBVIOUS
  <2> HIDE DEF T
  <2> DEFINE e == println
  <2>2. e \in T
    BY <2>1
  <2> HIDE DEF e
  <2>3. <<e>> \in Seq(T) /\ Len(<<e>>) = 1 /\ <<e>>[1] = e
    BY <2>2
  <2> QED BY <2>3 DEF e
<1> HIDE DEF T, b
<1>8. /\ c \in Seq(T) /\ Len(c) = Len(b) + Len(g)
      /\ \A i \in 1 .. Len(b) : c[i] = b[i]
      /\ \A i \in 1 .. Len(g) : c[Len(b) + i] = g[i]
  BY <1>6, <1>7, ConcatProperties
<1> HIDE DEF c
<1>9. DOMAIN c = 1 .. Len(c)
  BY <1>8, LenProperties
<1>10. Len(c) = len + 1 /\ c[1] = println
  BY <1>1, <1>5, <1>7, <1>8
<1>11. \A i \in 1 .. len : c[i + 1] = Function(p[i])
  <2> SUFFICES ASSUME NEW i \in 1 .. len PROVE c[i + 1] = Function(p[i])
    OBVIOUS
  <2>1. c[1 + i] = g[i] /\ 1 + i = i + 1
    BY <1>5, <1>7, <1>8
  <2> QED BY <2>1, <1>3
<1> QED BY <1>1, <1>2, <1>8, <1>9, <1>10, <1>11

LEMMA GlobalNames ==
  ASSUME NEW p, Listed(p), WellTypedSignatures(p), NEW id
  PROVE  \/ /\ Named(Globals(p), id) = {} /\ FunctionsNamed(p, id) = {} /\ id # "println"
         \/ /\ Named(Globals(p), id) # {} /\ FunctionsNamed(p, id) = {} /\ id = "println"
            /\ Globals(p)[First(Named(Globals(p), id))] = println
         \/ /\ Named(Globals(p), id) # {} /\ FunctionsNamed(p, id) # {}
            /\ Globals(p)[First(Named(Globals(p), id))] = Function(p[First(FunctionsNamed(p, id))])
<1> DEFINE g == Globals(p)
           N == Named(g, id)
           F == FunctionsNamed(p, id)
<1>1. /\ DOMAIN g = 1 .. Len(p) + 1 /\ g[1] = println /\ Len(p) \in Nat /\ DOMAIN p = 1 .. Len(p)
      /\ \A i \in DOMAIN p : g[i + 1] = Function(p[i])
  BY GlobalList DEF Listed
<1> HIDE DEF g
<1>2. \A i \in DOMAIN p : Function(p[i]).identifier = p[i].identifier
  BY DEF Function, FnName
<1>3. println.identifier = "println"
  BY DEF println, FnName
<1>4. \A j \in N : j \in 1 .. Len(p) + 1 /\ g[j].identifier = id
  BY <1>1 DEF Named
<1>5. \A j \in 1 .. Len(p) + 1 : g[j].identifier = id => j \in N
  BY <1>1 DEF Named
<1>6. \A i \in F : i \in DOMAIN p /\ p[i].identifier = id /\ F = {i} /\ id # "println"
  BY DEF FunctionsNamed, WellTypedSignatures, WellTypedSignature
<1>7. \A i \in DOMAIN p : p[i].identifier = id => i \in F
  BY DEF FunctionsNamed
<1> HIDE DEF N, F
<1>8. CASE F # {}
  <2>1. PICK i \in F : TRUE
    BY <1>8
  <2>2. i \in 1 .. Len(p) /\ F = {i} /\ id # "println" /\ p[i].identifier = id
    BY <2>1, <1>1, <1>6
  <2>3. i + 1 \in N
    <3>1. i + 1 \in 1 .. Len(p) + 1 /\ g[i + 1].identifier = id
      BY <2>2, <1>1, <1>2
    <3> QED BY <3>1, <1>5
  <2>4. ASSUME NEW j \in N PROVE j = i + 1
    <3>1. j # 1 /\ j \in 1 .. Len(p) + 1 /\ g[j].identifier = id
      BY <2>2, <1>1, <1>3, <1>4
    <3>2. j - 1 \in 1 .. Len(p) /\ j = (j - 1) + 1
      BY <3>1, <1>1
    <3>3. p[j - 1].identifier = id
      BY <3>1, <3>2, <1>1, <1>2
    <3>4. j - 1 = i
      BY <3>2, <3>3, <2>2, <1>1, <1>7
    <3> QED BY <3>2, <3>4
  <2>5. N = {i + 1}
    BY <2>3, <2>4
  <2>6. First(N) = i + 1 /\ First(F) = i
    <3>1. i \in Nat /\ i + 1 \in Nat
      BY <2>2
    <3> QED BY <3>1, <2>2, <2>5, FirstOnly
  <2>7. g[First(N)] = Function(p[First(F)])
    BY <2>2, <2>6, <1>1
  <2> QED BY <2>3, <2>7, <1>8 DEF g, N, F
<1>9. CASE F = {}
  <2>1. ASSUME NEW j \in N PROVE j = 1
    <3>1. j \in 1 .. Len(p) + 1 /\ g[j].identifier = id
      BY <1>4
    <3>2. ASSUME j # 1 PROVE FALSE
      <4>1. j - 1 \in 1 .. Len(p) /\ j = (j - 1) + 1
        BY <3>1, <3>2, <1>1
      <4>2. p[j - 1].identifier = id
        BY <3>1, <4>1, <1>1, <1>2
      <4> QED BY <4>1, <4>2, <1>1, <1>7, <1>9
    <3> QED BY <3>2
  <2>2. CASE id = "println"
    <3>1. 1 \in N
      <4>1. 1 \in 1 .. Len(p) + 1
        BY <1>1
      <4> QED BY <4>1, <2>2, <1>1, <1>3, <1>5
    <3>2. N = {1}
      BY <3>1, <2>1
    <3>3. First(N) = 1
      BY <3>2, FirstOnly
    <3> QED BY <3>1, <3>3, <2>2, <1>1, <1>9 DEF g, N, F
  <2>3. CASE id # "println"
    <3>1. N = {}
      BY <2>1, <2>3, <1>1, <1>3, <1>4
    <3> QED BY <3>1, <2>3, <1>9 DEF g, N, F
  <2> QED BY <2>2, <2>3
<1> QED BY <1>8, <1>9

LEMMA MeansVariable ==
  ASSUME NEW p, NEW at, IsPlace(at), NEW n, NEW id, NEW d \in 1 .. Len(at),
         Declaring(p, Around(at, d), Index(at, n, d), id) # {},
         \A c \in 1 .. Len(at) : c > d => Declaring(p, Around(at, c), Index(at, n, c), id) = {}
  PROVE  Meaning(p, at, n, id) =
           {Variable(p, Around(at, d), First(Declaring(p, Around(at, d), Index(at, n, d), id)))}
<1> DEFINE depths == {c \in DOMAIN at : Declaring(p, Around(at, c), Index(at, n, c), id) # {}}
           max == CHOOSE c \in depths : \A k \in depths : k <= c
<1>1. Len(at) \in Nat /\ DOMAIN at = 1 .. Len(at)
  BY PlaceLength
<1>2. d \in depths /\ \A k \in depths : k <= d /\ k \in Nat
  BY <1>1
<1> HIDE DEF depths
<1>3. max \in depths /\ \A k \in depths : k <= max
  <2>1. \E c \in depths : \A k \in depths : k <= c
    BY <1>2
  <2> QED BY <2>1
<1> HIDE DEF max
<1>4. max = d
  BY <1>2, <1>3
<1>5. depths # {}
  BY <1>2
<1>6. Meaning(p, at, n, id) =
        {Variable(p, Around(at, max), First(Declaring(p, Around(at, max), Index(at, n, max), id)))}
  BY <1>5 DEF Meaning, depths, max
<1> QED BY <1>4, <1>6

LEMMA MeansOuter ==
  ASSUME NEW p, NEW at, IsPlace(at), NEW n, NEW id,
         \A c \in 1 .. Len(at) : Declaring(p, Around(at, c), Index(at, n, c), id) = {}
  PROVE  Meaning(p, at, n, id) =
           IF ParamsNamed(p, at[1][1], id) # {} THEN {Parameter(p, at[1][1], First(ParamsNamed(p, at[1][1], id)))}
           ELSE IF FunctionsNamed(p, id) # {} THEN {Function(p[First(FunctionsNamed(p, id))])}
           ELSE IF id = "println" THEN {println}
           ELSE {}
<1>1. DOMAIN at = 1 .. Len(at)
  BY PlaceLength
<1>2. {c \in DOMAIN at : Declaring(p, Around(at, c), Index(at, n, c), id) # {}} = {}
  BY <1>1
<1> QED BY <1>2, Zenon DEF Meaning

LEMMA LookupMeans ==
  ASSUME NEW p \in Programs, WellTypedSignatures(p), NEW at, IsPlace(at), at[1][1] \in DOMAIN p,
         NEW n \in Nat, SoundAt(p, at, n), NEW scps, In(p, scps, at, n), NEW id
  PROVE  \/ lookupDecl(scps, id) = <<>> /\ Meaning(p, at, n, id) = {}
         \/ \E d : lookupDecl(scps, id) = <<d>> /\ Meaning(p, at, n, id) = {d}
<1> DEFINE len == Len(at)
           Decl(d) == Declaring(p, Around(at, d), Index(at, n, d), id)
           f == at[1][1]
           D == {d \in 1 .. len : Decl(d) # {}}
<1>1. PICK S : scps \in Seq(S)
  BY DEF In
<1>2. len \in Nat \ {0} /\ DOMAIN at = 1 .. len /\ Len(scps) = len + 2
  BY PlaceLength DEF In
<1>3. Listed(p) /\ Listed(p[f].params) /\ WellTypedSignature(p, f)
  BY ProgramsAssumption DEF WellTypedSignatures
<1>4. ASSUME NEW d \in 1 .. len
      PROVE  /\ Named(scps[d + 2], id) # {} <=> Decl(d) # {}
             /\ Named(scps[d + 2], id) # {} =>
                  scps[d + 2][First(Named(scps[d + 2], id))] = Variable(p, Around(at, d), First(Decl(d)))
  <2>1. Index(at, n, d) \in Nat
    BY IndexNatural
  <2>2. \A m \in Declarations(p, Around(at, d), Index(at, n, d)) : WellTypedStmt(p, Around(at, d), m)
    BY <1>2 DEF SoundAt
  <2>3. scps[d + 2] \in Listings(Locals(p, Around(at, d), Index(at, n, d)))
    BY DEF In
  <2> QED BY <2>1, <2>2, <2>3, LocalNames
<1>5. scps[1] = Globals(p) /\ scps[2] = Parameters(p, f)
  BY DEF In
<1> HIDE DEF Decl
<1>6. CASE D # {}
  <2>1. PICK d \in D : \A c \in D : c <= d
    BY <1>2, <1>6, Greatest
  <2>2. d \in 1 .. len /\ Decl(d) # {}
    OBVIOUS
  <2>3. ASSUME NEW c \in 1 .. len, c > d PROVE Decl(c) = {}
    <3>1. c \notin D
      BY <2>1, <2>2, <2>3
    <3> QED BY <3>1
  <2>4. Meaning(p, at, n, id) = {Variable(p, Around(at, d), First(Decl(d)))}
    BY <2>2, <2>3, MeansVariable DEF Decl
  <2> DEFINE i == d + 2
  <2>5. i \in 1 .. Len(scps) /\ Named(scps[i], id) # {}
        /\ scps[i][First(Named(scps[i], id))] = Variable(p, Around(at, d), First(Decl(d)))
    <3>1. i \in 1 .. Len(scps)
      BY <1>2, <2>2
    <3> QED BY <3>1, <2>2, <1>4
  <2>6. ASSUME NEW j \in 1 .. Len(scps), j > i PROVE Named(scps[j], id) = {}
    <3>1. j - 2 \in 1 .. len /\ j - 2 > d /\ (j - 2) + 2 = j
      BY <2>2, <2>6, <1>2
    <3>2. Decl(j - 2) = {}
      BY <3>1, <2>3
    <3>3. Named(scps[(j - 2) + 2], id) = {}
      BY <3>1, <3>2, <1>4
    <3> QED BY <3>1, <3>3
  <2> HIDE DEF i
  <2>7. lookupDecl(scps, id) = <<scps[i][First(Named(scps[i], id))]>>
    BY <1>1, <2>5, <2>6, LookupFinds
  <2> QED BY <2>4, <2>5, <2>7
<1>7. CASE D = {}
  <2>1. \A d \in 1 .. len : Decl(d) = {}
    BY <1>7
  <2>2. ASSUME NEW j \in 1 .. Len(scps), j > 2 PROVE Named(scps[j], id) = {}
    <3>1. j - 2 \in 1 .. len /\ (j - 2) + 2 = j
      BY <2>2, <1>2
    <3>2. Named(scps[(j - 2) + 2], id) = {}
      BY <3>1, <2>1, <1>4
    <3> QED BY <3>1, <3>2
  <2> DEFINE ps == ParamsNamed(p, f, id)
             fs == FunctionsNamed(p, id)
             m == Meaning(p, at, n, id)
  <2>3. m = IF ps # {} THEN {Parameter(p, f, First(ps))}
            ELSE IF fs # {} THEN {Function(p[First(fs)])}
            ELSE IF id = "println" THEN {println}
            ELSE {}
    <3>1. \A c \in 1 .. Len(at) : Declaring(p, Around(at, c), Index(at, n, c), id) = {}
      BY <2>1 DEF Decl
    <3> QED BY <3>1, MeansOuter
  <2>4. Named(scps[2], id) = ps /\ (ps # {} => scps[2][First(ps)] = Parameter(p, f, First(ps)))
    BY <1>3, <1>5, ParameterNames
  <2>5. 1 \in 1 .. Len(scps) /\ 2 \in 1 .. Len(scps)
    BY <1>2
  <2> HIDE DEF m
  <2>6. CASE ps # {}
    <3>1. lookupDecl(scps, id) = <<scps[2][First(Named(scps[2], id))]>>
      BY <2>2, <2>4, <2>5, <2>6, <1>1, LookupFinds
    <3>2. lookupDecl(scps, id) = <<Parameter(p, f, First(ps))>>
      BY <3>1, <2>4, <2>6
    <3> QED BY <3>2, <2>3, <2>6 DEF m
  <2>7. CASE ps = {}
    <3>1. ASSUME NEW j \in 1 .. Len(scps), j > 1 PROVE Named(scps[j], id) = {}
      <4>1. j = 2 \/ j > 2
        BY <3>1
      <4> QED BY <4>1, <2>2, <2>4, <2>7
    <3>2. Named(scps[1], id) # {} => lookupDecl(scps, id) = <<scps[1][First(Named(scps[1], id))]>>
      BY <3>1, <2>5, <1>1, LookupFinds
    <3>3. Named(scps[1], id) = {} => lookupDecl(scps, id) = <<>>
      <4>1. ASSUME Named(scps[1], id) = {}, NEW j \in 1 .. Len(scps) PROVE Named(scps[j], id) = {}
        <5>1. j = 1 \/ j > 1
          OBVIOUS
        <5> QED BY <5>1, <4>1, <3>1
      <4> QED BY <4>1, <1>1, LookupFails
    <3>4. \/ /\ Named(scps[1], id) = {} /\ fs = {} /\ id # "println"
          \/ /\ Named(scps[1], id) # {} /\ fs = {} /\ id = "println"
             /\ scps[1][First(Named(scps[1], id))] = println
          \/ /\ Named(scps[1], id) # {} /\ fs # {}
             /\ scps[1][First(Named(scps[1], id))] = Function(p[First(fs)])
      BY <1>3, <1>5, GlobalNames
    <3>5. CASE Named(scps[1], id) = {} /\ fs = {} /\ id # "println"
      BY <3>5, <3>3, <2>3, <2>7 DEF m
    <3>6. CASE Named(scps[1], id) # {} /\ fs = {} /\ id = "println" /\ scps[1][First(Named(scps[1], id))] = println
      BY <3>6, <3>2, <2>3, <2>7 DEF m
    <3>7. CASE Named(scps[1], id) # {} /\ fs # {} /\ scps[1][First(Named(scps[1], id))] = Function(p[First(fs)])
      BY <3>7, <3>2, <2>3, <2>7 DEF m
    <3> QED BY <3>4, <3>5, <3>6, <3>7
  <2> QED BY <2>6, <2>7
<1> QED BY <1>6, <1>7

-----------------------------------------------------------------------------
(* The places of a program are the least set with the bodies and with the   *)
(* blocks of every statement in one of it.                                  *)
LEMMA LeastBlocks ==
  ASSUME NEW p \in Programs, NEW P, \A i \in DOMAIN p : <<<<i, 1>>>> \in P,
         \A at \in P : at \in Blocks(p) =>
           \A n \in DOMAIN Stmts(p, at) : \A m \in Inner(Stmts(p, at)[n]) : Append(at, <<n, m>>) \in P
  PROVE  Blocks(p) \subseteq P
<1> DEFINE X == Blocks(p) \ P
           L == {Len(at) : at \in X}
<1>1. \A at \in Blocks(p) :
        /\ Len(at) \in Nat
        /\ \/ \E i \in DOMAIN p : at = <<<<i, 1>>>>
           \/ \E outer \in Blocks(p) : \E n \in DOMAIN Stmts(p, outer) : \E m \in Inner(Stmts(p, outer)[n]) :
                at = Append(outer, <<n, m>>) /\ Len(outer) < Len(at)
  BY BlocksAssumption
<1>2. SUFFICES ASSUME X # {} PROVE FALSE
  OBVIOUS
<1>3. L \subseteq Nat /\ L # {}
  BY <1>1, <1>2
<1>4. PICK least \in L : \A k \in L : least <= k
  BY <1>3, Least
<1>5. PICK at \in X : Len(at) = least
  BY <1>4
<1>6. PICK outer \in Blocks(p) : \E n \in DOMAIN Stmts(p, outer) : \E m \in Inner(Stmts(p, outer)[n]) :
        at = Append(outer, <<n, m>>) /\ Len(outer) < Len(at)
  BY <1>1, <1>5
<1>7. outer \in P
  <2>1. ASSUME outer \in X PROVE FALSE
    <3>1. Len(outer) \in L /\ Len(outer) \in Nat /\ Len(at) \in Nat
      BY <2>1, <1>1
    <3> QED BY <3>1, <1>4, <1>5, <1>6
  <2> QED BY <2>1
<1> QED BY <1>5, <1>6, <1>7

-----------------------------------------------------------------------------
(* What is known of the blocks as long as there is no error: P is the set   *)
(* of those behind the resolution, w that of the warnings.                  *)
Behind(p, at, n) ==
  n > 1 /\ Stmts(p, at)[n - 1].k = "return" /\ \A m \in 1 .. (n - 2) : Stmts(p, at)[m].k # "return"

Passed(p, at, n, P) ==
  /\ WellTypedStmt(p, at, n) /\ ~OverflowsAt(p, at, n)
  /\ \A m \in Inner(Stmts(p, at)[n]) : Append(at, <<n, m>>) \in P

Warned(p, w, at, n) == Behind(p, at, n) => <<at, n>> \in w

FinishedOK(p, w, P) ==
  \A at \in P : /\ at \in Blocks(p)
                /\ \A n \in DOMAIN Stmts(p, at) : Passed(p, at, n, P) /\ Warned(p, w, at, n)

WarningsOK(p, w) == w \subseteq UNION {Unreachable(p, at) : at \in Blocks(p)}

(* A block on the stack: its statements up to the next, its counter.        *)
BlockOK(p, w, fun, f, P) ==
  /\ {"k", "at", "stmts", "n", "done", "error", "unreachable_count"} \subseteq DOMAIN f
  /\ f.error = FALSE
  /\ f.at \in Blocks(p) /\ IsPlace(f.at) /\ f.at[1][1] = fun
  /\ f.stmts = Stmts(p, f.at) /\ f.n \in 1 .. Len(f.stmts) + 1
  /\ \A n \in 1 .. f.n - 1 : Passed(p, f.at, n, P) /\ Warned(p, w, f.at, n)
  /\ f.unreachable_count \in Nat
  /\ f.unreachable_count = 0 <=> \A n \in 1 .. f.n - 1 : Stmts(p, f.at)[n].k # "return"
  /\ f.unreachable_count = 1 <=> Behind(p, f.at, f.n)
  /\ WellTyped(p) => f.done = [n \in 1 .. f.n - 1 |-> ElaboratedStmt(p, f.at, n)]

(* A statement on the stack, f, in the block b, and where its block is.     *)
Into(b, f) == Append(b.at, <<b.n, IF f.k = "else" THEN 2 ELSE 1>>)

StmtOK(p, b, f, P) ==
  /\ b.n \in 1 .. Len(b.stmts)
  /\ b.stmts[b.n].k = IF f.k = "while" THEN "while" ELSE "if"
  /\ Number(p, b.at, b.n, {b.stmts[b.n].condition}) /\ ~OverflowsAt(p, b.at, b.n)
  /\ f.condition = SetValue(Meant(p, b.at, b.n, b.stmts[b.n].condition))
  /\ f.k = "else" => /\ b.stmts[b.n].false_block # <<>>
                     /\ Append(b.at, <<b.n, 1>>) \in P
                     /\ WellTyped(p) => f.true_block = Elaborated(p, Append(b.at, <<b.n, 1>>))

Chain(p, w, fun, s, P) ==
  /\ \A i \in 1 .. Len(s) : s[i].k = "block" => BlockOK(p, w, fun, s[i], P)
  /\ s # <<>> => s[1].at = <<<<fun, 1>>>>
  /\ \A i \in 1 .. Len(s) - 1 : s[i].k = "block" => StmtOK(p, s[i], s[i + 1], P)
  /\ \A i \in 1 .. Len(s) - 2 : s[i].k = "block" => s[i + 2].at = Into(s[i], s[i + 1])

LEMMA BlockGrows ==
  ASSUME NEW p, NEW w, NEW fun, NEW f, NEW P, BlockOK(p, w, fun, f, P), NEW v, w \subseteq v, NEW Q, P \subseteq Q
  PROVE  BlockOK(p, v, fun, f, Q)
<1>1. \A n \in 1 .. f.n - 1 : Passed(p, f.at, n, Q) /\ Warned(p, v, f.at, n)
  BY DEF BlockOK, Passed, Warned
<1> QED BY <1>1 DEF BlockOK

LEMMA StmtGrows ==
  ASSUME NEW p, NEW b, NEW f, NEW P, StmtOK(p, b, f, P), NEW Q, P \subseteq Q
  PROVE  StmtOK(p, b, f, Q)
  BY DEF StmtOK

LEMMA ChainGrows ==
  ASSUME NEW p, NEW w, NEW fun, NEW s, NEW P, Chain(p, w, fun, s, P), NEW v, w \subseteq v, NEW Q, P \subseteq Q
  PROVE  Chain(p, v, fun, s, Q)
<1>1. \A i \in 1 .. Len(s) : s[i].k = "block" => BlockOK(p, v, fun, s[i], Q)
  BY BlockGrows DEF Chain
<1>2. \A i \in 1 .. Len(s) - 1 : s[i].k = "block" => StmtOK(p, s[i], s[i + 1], Q)
  BY StmtGrows DEF Chain
<1> QED BY <1>1, <1>2 DEF Chain

(* Past a statement.                                                        *)
LEMMA BlockAdvances ==
  ASSUME NEW p \in Programs, NEW w, NEW fun, NEW f, NEW P, BlockOK(p, w, fun, f, P), f.k = "block",
         f.n \in 1 .. Len(f.stmts), Passed(p, f.at, f.n, P),
         NEW r, r.is = "ok", WellTyped(p) => r.e = ElaboratedStmt(p, f.at, f.n),
         NEW is_return \in BOOLEAN, is_return <=> f.stmts[f.n].k = "return",
         NEW v, v = IF Warns(f, r) THEN w \cup {<<f.at, f.n>>} ELSE w
  PROVE  /\ BlockOK(p, v, fun, After(f, r, is_return), P)
         /\ After(f, r, is_return).k = "block" /\ After(f, r, is_return).at = f.at
         /\ After(f, r, is_return).n = f.n + 1
         /\ w \subseteq v /\ (WarningsOK(p, w) => WarningsOK(p, v))
<1> DEFINE g == After(f, r, is_return)
           at == f.at
           n == f.n
           c == f.unreachable_count
<1>1. /\ DOMAIN g = DOMAIN f /\ g.k = "block" /\ g.at = at /\ g.stmts = f.stmts /\ g.n = n + 1
      /\ g.error = FALSE /\ g.done = Append(f.done, r.e)
      /\ g.unreachable_count = c + (IF c = 1 THEN 1 ELSE 0) + (IF is_return THEN 1 ELSE 0)
  BY DEF After, BlockOK, Warns
<1>2. Warns(f, r) <=> c = 1
  BY DEF Warns, BlockOK
<1> HIDE DEF g
<1>3. /\ n \in Nat \ {0} /\ c \in Nat /\ f.stmts = Stmts(p, at)
      /\ DOMAIN Stmts(p, at) = 1 .. Len(Stmts(p, at)) /\ Len(Stmts(p, at)) \in Nat
      /\ c = 0 <=> \A m \in 1 .. n - 1 : Stmts(p, at)[m].k # "return"
      /\ c = 1 <=> Behind(p, at, n)
  <2>1. at \in Blocks(p)
    BY DEF BlockOK
  <2>2. DOMAIN Stmts(p, at) = 1 .. Len(Stmts(p, at)) /\ Len(Stmts(p, at)) \in Nat
    BY <2>1, BlocksAssumption DEF Listed
  <2> QED BY <2>2 DEF BlockOK
<1>10. g.n - 1 = n /\ 1 .. g.n - 1 = (1 .. n - 1) \cup {n}
  <2> DEFINE k == g.n
  <2>1. k = n + 1 /\ n \in Nat \ {0}
    BY <1>1, <1>3
  <2> HIDE DEF n, k
  <2>2. k - 1 = n /\ 1 .. k - 1 = (1 .. n - 1) \cup {n}
    BY <2>1
  <2> QED BY <2>2 DEF k
<1>4. w \subseteq v /\ Warned(p, v, at, n)
  BY <1>2, <1>3 DEF Warned
<1>5. \A m \in 1 .. g.n - 1 : Passed(p, at, m, P) /\ Warned(p, v, at, m)
  <2> SUFFICES ASSUME NEW m \in 1 .. g.n - 1 PROVE Passed(p, at, m, P) /\ Warned(p, v, at, m)
    OBVIOUS
  <2>1. m = n \/ m \in 1 .. n - 1
    BY <1>10
  <2>2. m \in 1 .. n - 1 => Passed(p, at, m, P) /\ Warned(p, w, at, m)
    BY DEF BlockOK
  <2> QED BY <2>1, <2>2, <1>4 DEF Warned
<1>6. /\ g.unreachable_count \in Nat
      /\ g.unreachable_count = 0 <=> \A m \in 1 .. g.n - 1 : Stmts(p, at)[m].k # "return"
      /\ g.unreachable_count = 1 <=> Behind(p, at, g.n)
  <2> DEFINE R(m) == Stmts(p, at)[m].k = "return"
             d == g.unreachable_count
             k == g.n
  <2>1. /\ c = 0 <=> \A m \in 1 .. n - 1 : ~R(m)
        /\ R(n) <=> is_return
    BY <1>3
  <2>2. Behind(p, at, k) <=> k > 1 /\ R(k - 1) /\ \A m \in 1 .. (k - 2) : ~R(m)
    BY DEF Behind
  <2> HIDE DEF R, d, k
  <2>3. k = n + 1 /\ d = c + (IF c = 1 THEN 1 ELSE 0) + (IF is_return THEN 1 ELSE 0) /\ n \in Nat \ {0} /\ c \in Nat
    BY <1>1, <1>3 DEF d, k
  <2>4. k > 1 /\ k - 1 = n /\ 1 .. (k - 2) = 1 .. n - 1 /\ \A m \in 1 .. k - 1 : m = n \/ m \in 1 .. n - 1
    <3> HIDE DEF n, c
    <3>1. k > 1 /\ k - 1 = n /\ k - 2 = n - 1
      BY <2>3
    <3>2. \A m \in 1 .. k - 1 : m = n \/ m \in 1 .. n - 1
      BY <2>3
    <3> QED BY <3>1, <3>2
  <2>5. Behind(p, at, k) <=> is_return /\ c = 0
    BY <2>1, <2>2, <2>4
  <2>6. (\A m \in 1 .. k - 1 : ~R(m)) <=> ~is_return /\ c = 0
    <3>1. n \in 1 .. k - 1 /\ \A m \in 1 .. n - 1 : m \in 1 .. k - 1
      BY <2>3
    <3> QED BY <3>1, <2>1, <2>4
  <2>7. d \in Nat /\ (d = 0 <=> c = 0 /\ ~is_return) /\ (d = 1 <=> c = 0 /\ is_return)
    BY <2>3
  <2> QED BY <2>5, <2>6, <2>7 DEF R, d, k
<1>7. ASSUME WellTyped(p) PROVE g.done = [m \in 1 .. g.n - 1 |-> ElaboratedStmt(p, at, m)]
  <2> DEFINE S == {ElaboratedStmt(p, at, m) : m \in 1 .. n}
             e(m) == ElaboratedStmt(p, at, m)
             done == f.done
  <2>1. done = [m \in 1 .. n - 1 |-> e(m)] /\ r.e = e(n)
    BY <1>7 DEF BlockOK
  <2>2. \A m \in 1 .. n : e(m) \in S
    OBVIOUS
  <2> HIDE DEF e, S, done
  <2>3. done \in Seq(S) /\ Len(done) = n - 1
    <3>1. done \in [1 .. n - 1 -> S] /\ n - 1 \in Nat
      BY <2>1, <2>2, <1>3
    <3>2. done \in Seq(S)
      BY <3>1, SeqDef
    <3> QED BY <3>1, <3>2, LenProperties
  <2>4. /\ DOMAIN Append(done, r.e) = 1 .. Len(done) + 1
        /\ \A m \in 1 .. Len(done) : Append(done, r.e)[m] = done[m]
        /\ Append(done, r.e)[Len(done) + 1] = r.e
        /\ Append(done, r.e) \in Seq(S \cup {r.e})
    BY <2>3, AppendKeeps
  <2> DEFINE t == Append(done, r.e)
  <2> HIDE DEF t
  <2>5. DOMAIN t = 1 .. n /\ \A m \in 1 .. n : t[m] = e(m)
    <3>1. Len(done) + 1 = n
      BY <2>3, <1>3
    <3>2. DOMAIN t = 1 .. n
      BY <2>4, <3>1 DEF t
    <3>3. ASSUME NEW m \in 1 .. n PROVE t[m] = e(m)
      <4>1. CASE m = n
        BY <4>1, <2>1, <2>4, <3>1 DEF t
      <4>2. CASE m # n
        <5>1. m \in 1 .. n - 1
          BY <4>2, <1>3
        <5> QED BY <5>1, <2>1, <2>3, <2>4 DEF t
      <4> QED BY <4>1, <4>2
    <3> QED BY <3>2, <3>3
  <2>6. t = [m \in 1 .. n |-> e(m)]
    <3>1. \E T : t \in [1 .. Len(t) -> T] /\ DOMAIN t = 1 .. Len(t)
      BY <2>4, LenProperties DEF t
    <3>2. PICK T : t \in [1 .. n -> T]
      BY <3>1, <2>5
    <3> QED BY <3>2, <2>5
  <2> QED BY <2>6, <1>1, <1>10 DEF t, e, done
<1>8. BlockOK(p, v, fun, g, P)
  <2>1. g.n \in 1 .. Len(g.stmts) + 1
    <3> DEFINE len == Len(f.stmts)
    <3>1. n \in 1 .. len /\ len \in Nat
      BY <1>3
    <3> HIDE DEF n, len
    <3>2. n + 1 \in 1 .. len + 1
      BY <3>1
    <3> QED BY <3>2, <1>1 DEF len
  <2> QED BY <2>1, <1>1, <1>5, <1>6, <1>7 DEF BlockOK
<1>9. WarningsOK(p, w) => WarningsOK(p, v)
  <2> SUFFICES ASSUME WarningsOK(p, w), c = 1 PROVE <<at, n>> \in UNION {Unreachable(p, a) : a \in Blocks(p)}
    BY <1>2 DEF WarningsOK
  <2>1. Behind(p, at, n) /\ n \in 1 .. Len(f.stmts)
    BY <1>3
  <2>2. at \in Blocks(p) /\ n \in DOMAIN Stmts(p, at)
    <3>1. at \in Blocks(p)
      BY DEF BlockOK
    <3> QED BY <3>1, <1>3
  <2>3. <<at, n>> \in Unreachable(p, at)
    BY <2>1, <2>2 DEF Unreachable, Behind
  <2> QED BY <2>2, <2>3
<1> QED BY <1>1, <1>4, <1>8, <1>9 DEF g, at, n

(* A frame on top of a chain.                                               *)
Fits(p, w, fun, b, f, P) ==
  /\ f.k = "block"  => /\ BlockOK(p, w, fun, f, P)
                       /\ f.at = IF b = <<>> THEN <<<<fun, 1>>>> ELSE Into(b[Len(b) - 1], b[Len(b)])
  /\ f.k # "block" => StmtOK(p, b[Len(b)], f, P)

LEMMA ChainPush ==
  ASSUME NEW p, NEW w, NEW fun, NEW P, NEW b, Nested(b), Chain(p, w, fun, b, P),
         NEW f, (f.k = "block") <=> ~AtBlock(b), Fits(p, w, fun, b, f, P)
  PROVE  Chain(p, w, fun, Append(b, f), P)
<1> DEFINE s == Append(b, f)
           len == Len(b)
<1>1. PICK S : b \in Seq(S)
  BY DEF Nested
<1>2. /\ Len(s) = len + 1 /\ \A i \in 1 .. len : s[i] = b[i]
      /\ s[len + 1] = f /\ len \in Nat /\ (b = <<>> <=> len = 0)
  BY <1>1, AppendKeeps, LenProperties, EmptySeq
<1>3. (f.k = "block") <=> (len = 0 \/ b[len].k # "block")
  BY <1>2 DEF AtBlock
<1>4. \A i \in 1 .. len - 1 : b[i].k = "block" <=> b[i + 1].k # "block"
  BY DEF Nested
<1>5. /\ \A i \in 1 .. len : b[i].k = "block" => BlockOK(p, w, fun, b[i], P)
      /\ len # 0 => b[1].at = <<<<fun, 1>>>>
      /\ \A i \in 1 .. len - 1 : b[i].k = "block" => StmtOK(p, b[i], b[i + 1], P)
      /\ \A i \in 1 .. len - 2 : b[i].k = "block" => b[i + 2].at = Into(b[i], b[i + 1])
  BY <1>2 DEF Chain
<1>6. /\ f.k = "block"  => /\ BlockOK(p, w, fun, f, P)
                           /\ len = 0 => f.at = <<<<fun, 1>>>>
                           /\ len # 0 => f.at = Into(b[len - 1], b[len])
      /\ f.k # "block" => StmtOK(p, b[len], f, P)
  BY <1>2 DEF Fits
<1>7. len # 0 => b[1].k = "block"
  BY <1>2 DEF Nested
<1> HIDE DEF s, len
<1>8. ASSUME NEW i \in 1 .. Len(s), s[i].k = "block" PROVE BlockOK(p, w, fun, s[i], P)
  <2>1. i = len + 1 \/ i \in 1 .. len
    BY <1>2
  <2> QED BY <2>1, <1>2, <1>5, <1>6, <1>8
<1>9. s # <<>> => s[1].at = <<<<fun, 1>>>>
  <2>1. CASE len = 0
    <3>1. f.k = "block" /\ s[1] = f
      BY <2>1, <1>2, <1>3
    <3> QED BY <2>1, <3>1, <1>6
  <2>2. CASE len # 0
    <3>1. s[1] = b[1]
      BY <2>2, <1>2
    <3> QED BY <3>1, <2>2, <1>5
  <2> QED BY <2>1, <2>2
<1>10. ASSUME NEW i \in 1 .. Len(s) - 1, s[i].k = "block" PROVE StmtOK(p, s[i], s[i + 1], P)
  <2>1. i \in 1 .. len
    BY <1>2
  <2>2. CASE i = len
    <3>1. s[i] = b[len] /\ s[i + 1] = f
      BY <2>1, <2>2, <1>2
    <3>2. f.k # "block"
      BY <3>1, <2>1, <1>2, <1>3, <1>10
    <3> QED BY <3>1, <3>2, <1>6
  <2>3. CASE i # len
    <3>1. i \in 1 .. len - 1 /\ i + 1 \in 1 .. len
      BY <2>1, <2>3, <1>2
    <3>2. s[i] = b[i] /\ s[i + 1] = b[i + 1]
      BY <3>1, <2>1, <1>2
    <3> QED BY <3>1, <3>2, <1>5, <1>10
  <2> QED BY <2>2, <2>3
<1>11. ASSUME NEW i \in 1 .. Len(s) - 2, s[i].k = "block" PROVE s[i + 2].at = Into(s[i], s[i + 1])
  <2>1. i \in 1 .. len - 1 /\ i \in 1 .. len /\ i + 1 \in 1 .. len
    BY <1>2
  <2>2. s[i] = b[i] /\ s[i + 1] = b[i + 1]
    BY <2>1, <1>2
  <2>3. CASE i = len - 1
    <3>1. i + 1 = len /\ i + 2 = len + 1 /\ len # 0
      BY <2>1, <2>3, <1>2
    <3>2. s[i + 2] = f /\ b[len].k # "block"
      BY <3>1, <2>1, <2>2, <1>2, <1>4, <1>11
    <3> QED BY <3>1, <3>2, <2>2, <2>3, <1>3, <1>6
  <2>4. CASE i # len - 1
    <3>1. i \in 1 .. len - 2 /\ i + 2 \in 1 .. len
      BY <2>1, <2>4, <1>2
    <3>2. s[i + 2] = b[i + 2]
      BY <3>1, <1>2
    <3> QED BY <3>1, <3>2, <2>2, <1>5, <1>11
  <2> QED BY <2>3, <2>4
<1> QED BY <1>8, <1>9, <1>10, <1>11 DEF Chain, s

LEMMA ChainPop ==
  ASSUME NEW p, NEW w, NEW fun, NEW P, NEW s, Nested(s), s # <<>>, Chain(p, w, fun, s, P),
         NEW b, b = SubSeq(s, 1, Len(s) - 1)
  PROVE  Chain(p, w, fun, b, P) /\ Fits(p, w, fun, b, s[Len(s)], P)
<1> DEFINE len == Len(s)
           f == s[len]
<1>1. PICK S : s \in Seq(S)
  BY DEF Nested
<1>2. /\ len \in Nat \ {0} /\ Len(b) = len - 1 /\ b \in Seq(S)
      /\ \A i \in 1 .. len - 1 : b[i] = s[i]
  BY <1>1, FrontKeeps
<1>3. b = <<>> <=> len = 1
  <2>1. b = <<>> <=> Len(b) = 0
    BY <1>2, EmptySeq
  <2> HIDE DEF len
  <2> QED BY <2>1, <1>2
<1>4. /\ s[1].k = "block"
      /\ \A i \in 1 .. len - 1 : s[i].k = "block" <=> s[i + 1].k # "block"
  BY DEF Nested
<1>5. /\ \A i \in 1 .. len : s[i].k = "block" => BlockOK(p, w, fun, s[i], P)
      /\ s[1].at = <<<<fun, 1>>>>
      /\ \A i \in 1 .. len - 1 : s[i].k = "block" => StmtOK(p, s[i], s[i + 1], P)
      /\ \A i \in 1 .. len - 2 : s[i].k = "block" => s[i + 2].at = Into(s[i], s[i + 1])
  BY DEF Chain
<1> HIDE DEF len
<1>6. Chain(p, w, fun, b, P)
  <2>1. ASSUME NEW i \in 1 .. Len(b), b[i].k = "block" PROVE BlockOK(p, w, fun, b[i], P)
    <3>1. i \in 1 .. len - 1 /\ i \in 1 .. len
      BY <1>2
    <3> QED BY <3>1, <2>1, <1>2, <1>5
  <2>2. b # <<>> => b[1].at = <<<<fun, 1>>>>
    <3>1. b # <<>> => 1 \in 1 .. len - 1
      BY <1>2, <1>3
    <3> QED BY <3>1, <1>2, <1>5
  <2>3. ASSUME NEW i \in 1 .. Len(b) - 1, b[i].k = "block" PROVE StmtOK(p, b[i], b[i + 1], P)
    <3>1. i \in 1 .. len - 1 /\ i + 1 \in 1 .. len - 1
      BY <1>2
    <3> QED BY <3>1, <2>3, <1>2, <1>5
  <2>4. ASSUME NEW i \in 1 .. Len(b) - 2, b[i].k = "block" PROVE b[i + 2].at = Into(b[i], b[i + 1])
    <3>1. i \in 1 .. len - 1 /\ i + 1 \in 1 .. len - 1 /\ i + 2 \in 1 .. len - 1 /\ i \in 1 .. len - 2
      BY <1>2
    <3> QED BY <3>1, <2>4, <1>2, <1>5
  <2> QED BY <2>1, <2>2, <2>3, <2>4 DEF Chain
<1>7. ASSUME f.k = "block" PROVE BlockOK(p, w, fun, f, P)
  <2>1. len \in 1 .. len
    BY <1>2
  <2> QED BY <2>1, <1>5, <1>7
<1>8. ASSUME f.k = "block" PROVE f.at = IF b = <<>> THEN <<<<fun, 1>>>> ELSE Into(b[Len(b) - 1], b[Len(b)])
  <2>1. CASE len = 1
    BY <2>1, <1>3, <1>5
  <2>2. CASE len # 1
    <3>1. len - 1 \in 1 .. len - 1 /\ len - 1 + 1 = len
      BY <2>2, <1>2
    <3>2. s[len - 1].k # "block"
      BY <3>1, <1>4, <1>8
    <3>3. len - 1 # 1
      BY <3>2, <1>4
    <3>4. len - 2 \in 1 .. len - 2 /\ len - 2 \in 1 .. len - 1 /\ len - 2 + 1 = len - 1 /\ len - 2 + 2 = len
      BY <2>2, <3>3, <1>2
    <3>5. s[len - 2].k = "block"
      BY <3>2, <3>4, <1>4
    <3>6. f.at = Into(s[len - 2], s[len - 1])
      BY <3>4, <3>5, <1>5
    <3>7. Len(b) = len - 1 /\ Len(b) - 1 = len - 2
      BY <1>2
    <3> QED BY <3>1, <3>4, <3>6, <3>7, <2>2, <1>2, <1>3
  <2> QED BY <2>1, <2>2
<1>9. ASSUME f.k # "block" PROVE StmtOK(p, b[Len(b)], f, P)
  <2>1. len # 1
    BY <1>4, <1>9
  <2>2. len - 1 \in 1 .. len - 1 /\ len - 1 + 1 = len
    BY <2>1, <1>2
  <2>3. s[len - 1].k = "block"
    BY <2>2, <1>4, <1>9
  <2>4. StmtOK(p, s[len - 1], f, P)
    BY <2>2, <2>3, <1>5
  <2> QED BY <2>2, <2>4, <1>2
<1> QED BY <1>6, <1>7, <1>8, <1>9 DEF Fits, len

-----------------------------------------------------------------------------
(* What becomes of a statement in the scopes of its place.                  *)
Located(p, scps, at, n) ==
  /\ p \in Programs /\ WellTypedSignatures(p)
  /\ at \in Blocks(p) /\ IsPlace(at) /\ at[1][1] \in DOMAIN p
  /\ n \in DOMAIN Stmts(p, at) /\ n \in Nat \ {0}
  /\ In(p, scps, at, n) /\ SoundAt(p, at, n)

Outcome(r, p, at, n) ==
  /\ r.is \in {"ok", "null", "crash"}
  /\ r.is = "ok" => /\ WellTypedStmt(p, at, n) /\ ~OverflowsAt(p, at, n)
                    /\ r.e = ElaboratedStmt(p, at, n)
  /\ r.is = "null" => ~WellTypedStmt(p, at, n)
  /\ r.is = "crash" => ~WellTypedStmt(p, at, n) \/ OverflowsAt(p, at, n)

LEMMA OptionalSet ==
  ASSUME NEW o, Optional(o)
  PROVE  \/ o = <<>> /\ ToSet(o) = {} /\ DOMAIN o = {}
         \/ o # <<>> /\ ToSet(o) = {o[1]} /\ DOMAIN o = {1}
<1>1. CASE o = <<>>
  <2>1. DOMAIN o = {}
    BY <1>1
  <2> QED BY <2>1, <1>1 DEF ToSet
<1>2. CASE o = <<o[1]>>
  <2> DEFINE e == o[1]
  <2>1. o = <<e>>
    BY <1>2
  <2> HIDE DEF e
  <2>2. DOMAIN o = {1} /\ o # <<>> /\ o[1] = e
    BY <2>1
  <2>3. ToSet(o) = {e}
    BY <2>2 DEF ToSet
  <2> QED BY <2>2, <2>3
<1> QED BY <1>1, <1>2 DEF Optional

LEMMA Expressions ==
  ASSUME NEW s
  PROVE  /\ s.k = "decl" => ExprsOf(s) = ToSet(s.var.initializer)
         /\ s.k = "assign" => ExprsOf(s) = {s.e}
         /\ s.k = "return" => ExprsOf(s) = ToSet(s.expr)
         /\ s.k \in {"if", "while"} => ExprsOf(s) = {s.condition}
         /\ s.k \in {"num", "ref", "call", "unop", "binop", "group"} => ExprsOf(s) = {s}
  BY DEF ExprsOf

LEMMA MeaningKinds ==
  ASSUME NEW p, NEW at, NEW n, NEW id, NEW d \in Meaning(p, at, n, id)
  PROVE  d.k \in {"fn", "param", "var"}
<1>1. \A a, k : Variable(p, a, k).k = "var"
  BY VariableName
<1>2. \A f, i : Parameter(p, f, i).k = "param"
  BY DEF Parameter, DeclName, Tree!param_decl
<1>3. \A f : Function(f).k = "fn"
  BY DEF Function, FnName
<1>4. println.k = "fn"
  BY DEF println, FnName
<1>5. \/ \E a, k : d = Variable(p, a, k)
      \/ \E f, i : d = Parameter(p, f, i)
      \/ \E f : d = Function(f)
      \/ d = println
  BY Zenon DEF Meaning
<1> QED BY <1>1, <1>2, <1>3, <1>4, <1>5

LEMMA FunctionMeaning ==
  ASSUME NEW p \in Programs, NEW at, NEW n, NEW id, NEW d \in Meaning(p, at, n, id), d.k = "fn"
  PROVE  d.identifier = id /\ d.is_void \in BOOLEAN
<1> DEFINE fs == FunctionsNamed(p, id)
<1>1. \A a, k : Variable(p, a, k).k = "var"
  BY VariableName
<1>2. \A f, i : Parameter(p, f, i).k = "param"
  BY DEF Parameter, DeclName, Tree!param_decl
<1>3. \/ \E a, k : d = Variable(p, a, k)
      \/ \E f, i : d = Parameter(p, f, i)
      \/ fs # {} /\ d = Function(p[First(fs)])
      \/ id = "println" /\ d = println
  BY Zenon DEF Meaning
<1>4. fs \subseteq Nat
  BY ProgramsAssumption DEF FunctionsNamed, Listed
<1>5. fs # {} => p[First(fs)].identifier = id
  <2>1. fs # {} => First(fs) \in fs
    BY <1>4, FirstIn
  <2> QED BY <2>1 DEF FunctionsNamed
<1>6. ASSUME fs # {}, d = Function(p[First(fs)]) PROVE d.identifier = id /\ d.is_void \in BOOLEAN
  BY <1>5, <1>6 DEF Function, FnName
<1>7. ASSUME id = "println", d = println PROVE d.identifier = id /\ d.is_void \in BOOLEAN
  BY <1>7 DEF println, FnName
<1> QED BY <1>1, <1>2, <1>3, <1>6, <1>7

-----------------------------------------------------------------------------
(* Expressions: the resolution agrees with the type and the meaning an      *)
(* expression has at its place if it does so for the operands.              *)
LEMMA AgreesNull ==
  ASSUME NEW p, NEW at, NEW n, NEW e, Type(p, at, n, e) = "none"
  PROVE  Agrees(nullptr, p, at, n, e)
BY DEF Agrees, nullptr

LEMMA AgreesCrash ==
  ASSUME NEW r, r.is = "crash", NEW p, NEW at, NEW n, NEW e, Type(p, at, n, e) = "none" \/ Overflows(e)
  PROVE  Agrees(r, p, at, n, e)
BY DEF Agrees

LEMMA AgreesNumber ==
  ASSUME NEW p, NEW at, NEW n, NEW e, Type(p, at, n, e) = "number", ~Overflows(e)
  PROVE  Agrees(Ok(Meant(p, at, n, e), FALSE), p, at, n, e)
BY DEF Agrees, Ok

(* A literal out of range in an expression is the expression itself or in   *)
(* one of its operands.                                                     *)
OverflowRule(e) ==
  Overflows(e) <=> (e.k = "num" /\ e.value \in OutOfRange) \/ \E x \in Parts(e) : Overflows(x)

LEMMA OverflowsRule ==
  ASSUME NEW e, IsExpr(e)
  PROVE  OverflowRule(e)
<1>1. Subexprs(e) = {e} \cup UNION {Subexprs(x) : x \in Parts(e)}
  BY DEF IsExpr
<1>2. Overflows(e) <=> \E y \in Subexprs(e) : y.k = "num" /\ y.value \in OutOfRange
  BY DEF Overflows
<1>3. \A x : Overflows(x) <=> \E y \in Subexprs(x) : y.k = "num" /\ y.value \in OutOfRange
  BY DEF Overflows
<1>4. \A y : y \in Subexprs(e) <=> y = e \/ \E x \in Parts(e) : y \in Subexprs(x)
  BY <1>1
<1> QED BY <1>2, <1>3, <1>4, Zenon DEF OverflowRule

LEMMA Operands ==
  ASSUME NEW e
  PROVE  /\ e.k \in {"num", "ref"} => Parts(e) = {}
         /\ e.k = "unop"  => Parts(e) = {e.operand}
         /\ e.k = "binop" => Parts(e) = {e.lhs, e.rhs}
         /\ e.k = "group" => Parts(e) = {e.expr}
         /\ e.k = "call"  => Parts(e) = ToSet(e.arguments)
BY DEF Parts

LEMMA NumberAgrees ==
  ASSUME NEW scps, NEW p, NEW at, NEW n, NEW e, Unfolds(scps, p, at, n, e), OverflowRule(e), e.k = "num"
  PROVE  Agrees(ResolveExpr(scps, e), p, at, n, e)
<1>1. ResolveExpr(scps, e) = resolve_number(e) /\ Type(p, at, n, e) = "number"
  BY DEF Unfolds, resolve_expr, TypeRule
<1>2. Meant(p, at, n, e) = Tree!number_literal(stod(e.value))
  BY <1>1 DEF Unfolds, MeantRule
<1>3. Parts(e) = {}
  BY Operands
<1>4. CASE e.value \in OutOfRange
  <2>1. ResolveExpr(scps, e).is = "crash"
    BY <1>1, <1>4 DEF resolve_number, Crash
  <2>2. Overflows(e)
    BY <1>4 DEF OverflowRule
  <2> QED BY <2>1, <2>2, AgreesCrash
<1>5. CASE e.value \notin OutOfRange
  <2>1. ResolveExpr(scps, e) = Ok(Meant(p, at, n, e), FALSE)
    BY <1>1, <1>2, <1>5 DEF resolve_number
  <2>2. ~Overflows(e)
    BY <1>3, <1>5 DEF OverflowRule
  <2> QED BY <2>1, <2>2, <1>1, AgreesNumber
<1> QED BY <1>4, <1>5

LEMMA NameAgrees ==
  ASSUME NEW scps, NEW p, NEW at, NEW n, NEW e, Located(p, scps, at, n), Unfolds(scps, p, at, n, e), OverflowRule(e), e.k = "ref"
  PROVE  Agrees(ResolveExpr(scps, e), p, at, n, e)
<1> DEFINE m == Meaning(p, at, n, e.identifier)
           found == lookupDecl(scps, e.identifier)
           r == ResolveExpr(scps, e)
<1>1. /\ r = resolve_decl_ref_expr(found)
      /\ Type(p, at, n, e) = IF \E d \in m : d.k # "fn" THEN "number" ELSE "none"
  BY DEF Unfolds, resolve_expr, TypeRule
<1>2. Type(p, at, n, e) # "none" => Meant(p, at, n, e) = Tree!decl_ref_expr(The(m).decl)
  BY DEF Unfolds, MeantRule
<1>3. \/ found = <<>> /\ m = {}
      \/ \E d : found = <<d>> /\ m = {d}
  BY LookupMeans DEF Located
<1>4. r = IF found = <<>> \/ found[1].k = "fn" THEN nullptr ELSE Ok(Tree!decl_ref_expr(found[1].decl), FALSE)
  BY <1>1 DEF resolve_decl_ref_expr
<1>7. ~Overflows(e)
  BY Operands DEF OverflowRule
<1> HIDE DEF m, found, r
<1>5. CASE found = <<>> /\ m = {}
  <2>1. r = nullptr /\ Type(p, at, n, e) = "none"
    BY <1>1, <1>4, <1>5
  <2> QED BY <2>1, AgreesNull DEF r
<1>6. ASSUME NEW d, found = <<d>>, m = {d} PROVE Agrees(r, p, at, n, e)
  <2>1. found # <<>> /\ found[1] = d /\ The(m) = d
    BY <1>6 DEF The
  <2>2. CASE d.k = "fn"
    <3>1. r = nullptr /\ Type(p, at, n, e) = "none"
      BY <2>1, <2>2, <1>1, <1>4, <1>6
    <3> QED BY <3>1, AgreesNull
  <2>3. CASE d.k # "fn"
    <3>1. Type(p, at, n, e) = "number" /\ r = Ok(Tree!decl_ref_expr(d.decl), FALSE)
      BY <2>1, <2>3, <1>1, <1>4, <1>6
    <3>2. r = Ok(Meant(p, at, n, e), FALSE)
      BY <3>1, <2>1, <1>2
    <3> QED BY <3>1, <3>2, <1>7, AgreesNumber
  <2> QED BY <2>2, <2>3
<1> QED BY <1>3, <1>5, <1>6 DEF r

LEMMA AgreesMeans ==
  ASSUME NEW r, NEW p, NEW at, NEW n, NEW e
  PROVE  Agrees(r, p, at, n, e) <=>
           \/ /\ r.is = "ok" /\ r.e = Meant(p, at, n, e) /\ r.is_void \in BOOLEAN
              /\ r.is_void => Type(p, at, n, e) = "void"
              /\ ~r.is_void => Type(p, at, n, e) = "number"
              /\ ~Overflows(e)
           \/ r.is = "null" /\ r = nullptr /\ Type(p, at, n, e) = "none"
           \/ r.is = "crash" /\ (Type(p, at, n, e) = "none" \/ Overflows(e))
BY DEF Agrees

LEMMA UnaryAgrees ==
  ASSUME NEW scps, NEW p, NEW at, NEW n, NEW e, Unfolds(scps, p, at, n, e), OverflowRule(e), e.k = "unop",
         Agrees(ResolveExpr(scps, e.operand), p, at, n, e.operand)
  PROVE  Agrees(ResolveExpr(scps, e), p, at, n, e)
<1> DEFINE x == e.operand
           q == ResolveExpr(scps, x)
           r == ResolveExpr(scps, e)
<1>1. Parts(e) = {x}
  BY Operands
<1>2. /\ r = resolve_unary_op(e.op, q)
      /\ Type(p, at, n, e) = IF Type(p, at, n, x) = "number" THEN "number" ELSE "none"
  BY <1>1 DEF Unfolds, resolve_expr, TypeRule, AllNumbers
<1>3. Type(p, at, n, e) # "none" => Meant(p, at, n, e) = Tree!unary_op(e.op, Meant(p, at, n, x))
  BY <1>1 DEF Unfolds, MeantRule
<1>4. r = IF q.is # "ok" THEN q ELSE IF q.is_void THEN nullptr ELSE Ok(Tree!unary_op(e.op, q.e), FALSE)
  BY <1>2 DEF resolve_unary_op
<1>5. \/ /\ q.is = "ok" /\ q.e = Meant(p, at, n, x) /\ q.is_void \in BOOLEAN
         /\ q.is_void => Type(p, at, n, x) = "void"
         /\ ~q.is_void => Type(p, at, n, x) = "number"
         /\ ~Overflows(x)
      \/ q.is = "null" /\ q = nullptr /\ Type(p, at, n, x) = "none"
      \/ q.is = "crash" /\ (Type(p, at, n, x) = "none" \/ Overflows(x))
  BY AgreesMeans
<1>10. Overflows(e) <=> Overflows(x)
  BY <1>1 DEF OverflowRule
<1> HIDE DEF q, r, x
<1>6. CASE q.is = "crash" /\ (Type(p, at, n, x) = "none" \/ Overflows(x))
  <2>1. r.is = "crash" /\ (Type(p, at, n, e) = "none" \/ Overflows(e))
    BY <1>2, <1>4, <1>6, <1>10
  <2> QED BY <2>1, AgreesCrash DEF r
<1>7. CASE q.is = "null" /\ q = nullptr /\ Type(p, at, n, x) = "none"
  BY <1>2, <1>4, <1>7, AgreesNull DEF r
<1>8. CASE q.is = "ok" /\ q.is_void /\ Type(p, at, n, x) = "void"
  BY <1>2, <1>4, <1>8, AgreesNull DEF r
<1>9. CASE q.is = "ok" /\ ~q.is_void /\ q.e = Meant(p, at, n, x) /\ Type(p, at, n, x) = "number" /\ ~Overflows(x)
  <2>1. Type(p, at, n, e) = "number" /\ r = Ok(Meant(p, at, n, e), FALSE) /\ ~Overflows(e)
    BY <1>2, <1>3, <1>4, <1>9, <1>10
  <2> QED BY <2>1, AgreesNumber DEF r
<1> QED BY <1>5, <1>6, <1>7, <1>8, <1>9

LEMMA BinaryAgrees ==
  ASSUME NEW scps, NEW p, NEW at, NEW n, NEW e, Unfolds(scps, p, at, n, e), OverflowRule(e), e.k = "binop",
         Agrees(ResolveExpr(scps, e.lhs), p, at, n, e.lhs), Agrees(ResolveExpr(scps, e.rhs), p, at, n, e.rhs)
  PROVE  Agrees(ResolveExpr(scps, e), p, at, n, e)
<1> DEFINE x == e.lhs
           y == e.rhs
           a == ResolveExpr(scps, x)
           b == ResolveExpr(scps, y)
           r == ResolveExpr(scps, e)
<1>1. Parts(e) = {x, y}
  BY Operands
<1>2. /\ r = resolve_binary_op(e.op, a, b)
      /\ Type(p, at, n, e) = IF Type(p, at, n, x) = "number" /\ Type(p, at, n, y) = "number" THEN "number" ELSE "none"
  BY <1>1 DEF Unfolds, resolve_expr, TypeRule, AllNumbers
<1>3. Type(p, at, n, e) # "none" => Meant(p, at, n, e) = Tree!binary_op(e.op, Meant(p, at, n, x), Meant(p, at, n, y))
  BY <1>1 DEF Unfolds, MeantRule
<1>4. r = IF a.is # "ok" THEN a ELSE IF b.is # "ok" THEN b
          ELSE IF a.is_void \/ b.is_void THEN nullptr ELSE Ok(Tree!binary_op(e.op, a.e, b.e), FALSE)
  BY <1>2 DEF resolve_binary_op
<1>5. \/ /\ a.is = "ok" /\ a.e = Meant(p, at, n, x) /\ a.is_void \in BOOLEAN
         /\ a.is_void => Type(p, at, n, x) = "void"
         /\ ~a.is_void => Type(p, at, n, x) = "number"
         /\ ~Overflows(x)
      \/ a.is = "null" /\ a = nullptr /\ Type(p, at, n, x) = "none"
      \/ a.is = "crash" /\ (Type(p, at, n, x) = "none" \/ Overflows(x))
  BY AgreesMeans
<1>6. \/ /\ b.is = "ok" /\ b.e = Meant(p, at, n, y) /\ b.is_void \in BOOLEAN
         /\ b.is_void => Type(p, at, n, y) = "void"
         /\ ~b.is_void => Type(p, at, n, y) = "number"
         /\ ~Overflows(y)
      \/ b.is = "null" /\ b = nullptr /\ Type(p, at, n, y) = "none"
      \/ b.is = "crash" /\ (Type(p, at, n, y) = "none" \/ Overflows(y))
  BY AgreesMeans
<1>10. Overflows(e) <=> Overflows(x) \/ Overflows(y)
  BY <1>1 DEF OverflowRule
<1> HIDE DEF a, b, r, x, y
<1>7. CASE a.is = "crash" \/ (a.is = "ok" /\ b.is = "crash")
  <2>1. r.is = "crash" /\ (Type(p, at, n, e) = "none" \/ Overflows(e))
    BY <1>2, <1>4, <1>5, <1>6, <1>7, <1>10
  <2> QED BY <2>1, AgreesCrash DEF r
<1>8. CASE \/ a = nullptr /\ a.is = "null" /\ Type(p, at, n, x) = "none"
           \/ a.is = "ok" /\ b.is = "null" /\ b = nullptr /\ Type(p, at, n, y) = "none"
  <2>1. r = nullptr /\ Type(p, at, n, e) = "none"
    BY <1>2, <1>4, <1>8
  <2> QED BY <2>1, AgreesNull DEF r
<1>9. CASE a.is = "ok" /\ b.is = "ok"
  <2>1. CASE a.is_void \/ b.is_void
    <3>1. r = nullptr /\ Type(p, at, n, e) = "none"
      BY <1>2, <1>4, <1>5, <1>6, <1>9, <2>1
    <3> QED BY <3>1, AgreesNull DEF r
  <2>2. CASE ~a.is_void /\ ~b.is_void
    <3>1. Type(p, at, n, x) = "number" /\ Type(p, at, n, y) = "number" /\ a.e = Meant(p, at, n, x) /\ b.e = Meant(p, at, n, y)
      BY <1>5, <1>6, <1>9, <2>2
    <3>2. Type(p, at, n, e) = "number" /\ r = Ok(Meant(p, at, n, e), FALSE)
      BY <1>2, <1>3, <1>4, <1>9, <2>2, <3>1
    <3>3. ~Overflows(e)
      BY <1>5, <1>6, <1>9, <1>10
    <3> QED BY <3>2, <3>3, AgreesNumber DEF r
  <2> QED BY <2>1, <2>2
<1> QED BY <1>5, <1>6, <1>7, <1>8, <1>9

LEMMA GroupAgrees ==
  ASSUME NEW scps, NEW p, NEW at, NEW n, NEW e, Unfolds(scps, p, at, n, e), OverflowRule(e), e.k = "group",
         Agrees(ResolveExpr(scps, e.expr), p, at, n, e.expr)
  PROVE  Agrees(ResolveExpr(scps, e), p, at, n, e)
<1> DEFINE x == e.expr
           q == ResolveExpr(scps, x)
           r == ResolveExpr(scps, e)
<1>1. Parts(e) = {x}
  BY Operands
<1>2. r = resolve_group_expr(q) /\ Type(p, at, n, e) = Type(p, at, n, x)
  BY <1>1 DEF Unfolds, resolve_expr, TypeRule
<1>3. Type(p, at, n, e) # "none" => Meant(p, at, n, e) = Tree!grouping_expr(Meant(p, at, n, x))
  BY <1>1 DEF Unfolds, MeantRule
<1>4. r = IF q.is # "ok" THEN q ELSE Ok(Tree!grouping_expr(q.e), q.is_void)
  BY <1>2 DEF resolve_group_expr
<1>5. \/ /\ q.is = "ok" /\ q.e = Meant(p, at, n, x) /\ q.is_void \in BOOLEAN
         /\ q.is_void => Type(p, at, n, x) = "void"
         /\ ~q.is_void => Type(p, at, n, x) = "number"
         /\ ~Overflows(x)
      \/ q.is = "null" /\ q = nullptr /\ Type(p, at, n, x) = "none"
      \/ q.is = "crash" /\ (Type(p, at, n, x) = "none" \/ Overflows(x))
  BY AgreesMeans
<1>9. Overflows(e) <=> Overflows(x)
  BY <1>1 DEF OverflowRule
<1> HIDE DEF q, r, x
<1>6. CASE q.is = "crash" /\ (Type(p, at, n, x) = "none" \/ Overflows(x))
  <2>1. r.is = "crash" /\ (Type(p, at, n, e) = "none" \/ Overflows(e))
    BY <1>2, <1>4, <1>6, <1>9
  <2> QED BY <2>1, AgreesCrash DEF r
<1>7. CASE q.is = "null" /\ q = nullptr /\ Type(p, at, n, x) = "none"
  BY <1>2, <1>4, <1>7, AgreesNull DEF r
<1>8. CASE /\ q.is = "ok" /\ q.e = Meant(p, at, n, x) /\ q.is_void \in BOOLEAN
           /\ q.is_void => Type(p, at, n, x) = "void"
           /\ ~q.is_void => Type(p, at, n, x) = "number"
           /\ ~Overflows(x)
  <2>1. Type(p, at, n, e) # "none" /\ r = Ok(Meant(p, at, n, e), q.is_void)
    BY <1>2, <1>3, <1>4, <1>8
  <2>2. r.is = "ok" /\ r.e = Meant(p, at, n, e) /\ r.is_void = q.is_void
    BY <2>1 DEF Ok
  <2>3. /\ r.is = "ok" /\ r.e = Meant(p, at, n, e) /\ r.is_void \in BOOLEAN
        /\ r.is_void => Type(p, at, n, e) = "void"
        /\ ~r.is_void => Type(p, at, n, e) = "number"
        /\ ~Overflows(e)
    BY <1>2, <1>8, <1>9, <2>2
  <2> QED BY <2>3, AgreesMeans DEF r
<1> QED BY <1>5, <1>6, <1>7, <1>8

(* The arguments of a call: the first that is no number decides.            *)
LEMMA ArgumentsAgree ==
  ASSUME NEW scps, NEW p, NEW at, NEW n, NEW args, Listed(args), NEW fd, NEW sub,
         sub = [x \in ToSet(args) |-> ResolveExpr(scps, x)],
         \A x \in ToSet(args) : Agrees(ResolveExpr(scps, x), p, at, n, x)
  PROVE  LET r == resolve_args(fd, args, sub)
         IN  \/ r = Crash /\ \E x \in ToSet(args) : Type(p, at, n, x) = "none" \/ Overflows(x)
             \/ r = nullptr /\ \E x \in ToSet(args) : Type(p, at, n, x) # "number"
             \/ /\ \A x \in ToSet(args) : Type(p, at, n, x) = "number" /\ ~Overflows(x)
                /\ r = Ok(Tree!call_expr(fd.identifier, [i \in DOMAIN args |-> SetValue(Meant(p, at, n, args[i]))]),
                          fd.is_void)
<1> DEFINE a(i) == ResolveExpr(scps, args[i])
           bad == {i \in DOMAIN args : sub[args[i]].is # "ok" \/ sub[args[i]].is_void}
           r == resolve_args(fd, args, sub)
<1>1. ToSet(args) = {args[i] : i \in DOMAIN args} /\ DOMAIN args \subseteq Nat
  BY DEF ToSet, Listed
<1>2. \A i \in DOMAIN args : sub[args[i]] = a(i) /\ args[i] \in ToSet(args)
  BY <1>1
<1>3. ASSUME NEW i \in DOMAIN args
      PROVE  \/ /\ a(i).is = "ok" /\ a(i).e = Meant(p, at, n, args[i])
                /\ a(i).is_void => Type(p, at, n, args[i]) = "void"
                /\ ~a(i).is_void => Type(p, at, n, args[i]) = "number"
                /\ ~Overflows(args[i])
             \/ a(i).is = "null" /\ Type(p, at, n, args[i]) = "none"
             \/ a(i).is = "crash" /\ (Type(p, at, n, args[i]) = "none" \/ Overflows(args[i]))
  <2>1. Agrees(a(i), p, at, n, args[i])
    BY <1>2
  <2> HIDE DEF a
  <2> QED BY <2>1, AgreesMeans
<1>4. r = IF bad = {}
          THEN Ok(Tree!call_expr(fd.identifier, [i \in DOMAIN args |-> SetValue(sub[args[i]].e)]), fd.is_void)
          ELSE IF sub[args[First(bad)]].is # "ok" THEN Crash ELSE nullptr
  BY DEF resolve_args
<1>5. bad = {i \in DOMAIN args : a(i).is # "ok" \/ a(i).is_void}
  BY <1>2
<1> HIDE DEF a, r
<1>6. CASE bad = {}
  <2>1. \A i \in DOMAIN args : a(i).is = "ok" /\ ~a(i).is_void
    BY <1>5, <1>6
  <2>2. \A i \in DOMAIN args : /\ Type(p, at, n, args[i]) = "number" /\ sub[args[i]].e = Meant(p, at, n, args[i])
                              /\ ~Overflows(args[i])
    BY <2>1, <1>2, <1>3
  <2>3. [i \in DOMAIN args |-> SetValue(sub[args[i]].e)] = [i \in DOMAIN args |-> SetValue(Meant(p, at, n, args[i]))]
    BY <2>2
  <2>4. r = Ok(Tree!call_expr(fd.identifier, [i \in DOMAIN args |-> SetValue(Meant(p, at, n, args[i]))]), fd.is_void)
    BY <1>4, <1>6, <2>3
  <2>5. \A x \in ToSet(args) : Type(p, at, n, x) = "number" /\ ~Overflows(x)
    BY <1>1, <2>2
  <2> QED BY <2>4, <2>5 DEF r
<1>7. CASE bad # {}
  <2> DEFINE i == First(bad)
  <2>1. i \in bad
    <3>1. bad \subseteq Nat
      BY <1>1
    <3> HIDE DEF bad
    <3> QED BY <3>1, <1>7, FirstIn
  <2>2. i \in DOMAIN args /\ (a(i).is # "ok" \/ a(i).is_void) /\ sub[args[i]] = a(i)
    BY <2>1, <1>2, <1>5
  <2>5. sub[args[First(bad)]] = a(i)
    BY <2>2
  <2> HIDE DEF i, bad
  <2>3. CASE a(i).is # "ok"
    <3>1. r = Crash
      BY <1>4, <1>7, <2>3, <2>5
    <3>2. args[i] \in ToSet(args) /\ (Type(p, at, n, args[i]) = "none" \/ Overflows(args[i]))
      BY <2>2, <2>3, <1>2, <1>3
    <3> QED BY <3>1, <3>2 DEF r
  <2>4. CASE a(i).is = "ok"
    <3>1. r = nullptr
      BY <1>4, <1>7, <2>4, <2>5
    <3>2. Type(p, at, n, args[i]) # "number" /\ args[i] \in ToSet(args)
      BY <2>2, <2>4, <1>2, <1>3
    <3> QED BY <3>1, <3>2 DEF r
  <2> QED BY <2>3, <2>4
<1> QED BY <1>6, <1>7

LEMMA CallAgrees ==
  ASSUME NEW scps, NEW p, NEW at, NEW n, NEW e, Located(p, scps, at, n), Unfolds(scps, p, at, n, e),
         OverflowRule(e), e.k = "call",
         Listed(e.arguments), \A x \in Parts(e) : Agrees(ResolveExpr(scps, x), p, at, n, x)
  PROVE  Agrees(ResolveExpr(scps, e), p, at, n, e)
<1> DEFINE args == e.arguments
           id == e.callee.identifier
           m == Meaning(p, at, n, id)
           found == lookupDecl(scps, id)
           sub == [x \in ToSet(args) |-> ResolveExpr(scps, x)]
           numbers == \A x \in ToSet(args) : Type(p, at, n, x) = "number"
           overflows == \E x \in ToSet(args) : Overflows(x)
           calls == e.callee.k = "ref" /\ \E f \in m : f.k = "fn" /\ f.arity = Len(args)
           meant(name) == Tree!call_expr(name, [i \in DOMAIN args |-> SetValue(Meant(p, at, n, args[i]))])
           r == ResolveExpr(scps, e)
<1>1. Parts(e) = ToSet(args)
  BY Operands
<1>2. r = resolve_call_expr(scps, e, sub)
  BY <1>1 DEF Unfolds, resolve_expr
<1>3. Type(p, at, n, e) = IF ~(calls /\ numbers) THEN "none" ELSE IF The(m).is_void THEN "void" ELSE "number"
  <2>1. Type(p, at, n, e) = TypeRule(p, at, n, e, [x \in Parts(e) |-> Type(p, at, n, x)])
    BY DEF Unfolds
  <2>2. AllNumbers(e, [x \in Parts(e) |-> Type(p, at, n, x)]) <=> numbers
    BY <1>1 DEF AllNumbers
  <2>3. Calls(p, at, n, e) <=> calls
    BY DEF Calls
  <2> QED BY <2>1, <2>2, <2>3 DEF TypeRule
<1>4. Type(p, at, n, e) # "none" => Meant(p, at, n, e) = meant(id)
  <2>1. \A i \in DOMAIN args : args[i] \in Parts(e)
    BY <1>1 DEF ToSet
  <2>2. [i \in DOMAIN args |-> SetValue([x \in Parts(e) |-> Meant(p, at, n, x)][args[i]])]
          = [i \in DOMAIN args |-> SetValue(Meant(p, at, n, args[i]))]
    BY <2>1
  <2> QED BY <2>2 DEF Unfolds, MeantRule
<1>5. \/ found = <<>> /\ m = {}
      \/ \E d : found = <<d>> /\ m = {d}
  BY LookupMeans DEF Located
<1>6. r = IF e.callee.k # "ref" THEN nullptr
          ELSE IF found = <<>> \/ found[1].k # "fn" THEN nullptr
          ELSE IF found[1].arity # Len(args) THEN nullptr
          ELSE resolve_args(found[1], args, sub)
  BY <1>2 DEF resolve_call_expr
<1>7. ASSUME NEW fd
      PROVE  LET q == resolve_args(fd, args, sub)
             IN  \/ q = Crash /\ (~numbers \/ overflows)
                 \/ q = nullptr /\ ~numbers
                 \/ numbers /\ q = Ok(meant(fd.identifier), fd.is_void) /\ ~overflows
  BY <1>1, ArgumentsAgree
<1>8. \A d \in m : d.k = "fn" => d.identifier = id /\ d.is_void \in BOOLEAN
  BY FunctionMeaning DEF Located
<1>11. Overflows(e) <=> overflows
  BY <1>1 DEF OverflowRule
<1> HIDE DEF args, id, m, found, sub, numbers, overflows, meant, r
<1>9. CASE ~calls
  <2>1. r = nullptr
    <3>1. CASE e.callee.k # "ref"
      BY <3>1, <1>6
    <3>2. CASE found = <<>>
      BY <3>2, <1>6
    <3>3. ASSUME NEW d, found = <<d>>, m = {d}, e.callee.k = "ref" PROVE r = nullptr
      <4>1. found[1] = d /\ ~(d.k = "fn" /\ d.arity = Len(args))
        BY <3>3, <1>9
      <4> QED BY <4>1, <1>6
    <3> QED BY <3>1, <3>2, <3>3, <1>5
  <2>2. Type(p, at, n, e) = "none"
    BY <1>3, <1>9
  <2> QED BY <2>1, <2>2, AgreesNull DEF r
<1>10. CASE calls
  <2>1. PICK d : found = <<d>> /\ m = {d}
    BY <1>5, <1>10
  <2>2. d.k = "fn" /\ d.arity = Len(args) /\ found # <<>> /\ found[1] = d /\ The(m) = d /\ e.callee.k = "ref"
    BY <2>1, <1>10 DEF The
  <2>3. d.identifier = id /\ d.is_void \in BOOLEAN
    BY <1>8, <2>1, <2>2
  <2>4. r = resolve_args(d, args, sub)
    BY <1>6, <2>2
  <2>5. \/ r = Crash /\ (~numbers \/ overflows)
        \/ r = nullptr /\ ~numbers
        \/ numbers /\ r = Ok(meant(id), d.is_void) /\ ~overflows
    BY <1>7, <2>3, <2>4
  <2>6. CASE r = Crash /\ (~numbers \/ overflows)
    <3>1. r.is = "crash" /\ (Type(p, at, n, e) = "none" \/ Overflows(e))
      BY <1>3, <1>11, <2>6 DEF Crash
    <3> QED BY <3>1, AgreesCrash DEF r
  <2>7. CASE r = nullptr /\ ~numbers
    <3>1. Type(p, at, n, e) = "none"
      BY <1>3, <2>7
    <3> QED BY <3>1, <2>7, AgreesNull DEF r
  <2>8. CASE numbers /\ r = Ok(meant(id), d.is_void) /\ ~overflows
    <3>1. Type(p, at, n, e) = IF d.is_void THEN "void" ELSE "number"
      BY <1>3, <1>10, <2>2, <2>8
    <3>2. Meant(p, at, n, e) = meant(id)
      BY <3>1, <1>4
    <3>3. r.is = "ok" /\ r.e = Meant(p, at, n, e) /\ r.is_void = d.is_void
      BY <3>2, <2>8 DEF Ok
    <3>4. /\ r.is = "ok" /\ r.e = Meant(p, at, n, e) /\ r.is_void \in BOOLEAN
          /\ r.is_void => Type(p, at, n, e) = "void"
          /\ ~r.is_void => Type(p, at, n, e) = "number"
          /\ ~Overflows(e)
      BY <3>1, <3>3, <2>3, <2>8, <1>11
    <3> QED BY <3>4, AgreesMeans DEF r
  <2> QED BY <2>5, <2>6, <2>7, <2>8
<1> QED BY <1>9, <1>10

LEMMA StepAgrees ==
  ASSUME NEW scps, NEW p, NEW at, NEW n, NEW e, Located(p, scps, at, n), Unfolds(scps, p, at, n, e), IsExpr(e),
         \A x \in Parts(e) : Agrees(ResolveExpr(scps, x), p, at, n, x)
  PROVE  Agrees(ResolveExpr(scps, e), p, at, n, e)
<1>1. /\ e.k \in {"num", "ref", "call", "unop", "binop", "group"} /\ (e.k = "call" => Listed(e.arguments))
      /\ OverflowRule(e)
  BY OverflowsRule DEF IsExpr
<1>2. CASE e.k = "num"
  BY <1>1, <1>2, NumberAgrees
<1>3. CASE e.k = "ref"
  BY <1>1, <1>3, NameAgrees
<1>4. CASE e.k = "call"
  BY <1>1, <1>4, CallAgrees
<1>5. CASE e.k = "unop"
  <2>1. e.operand \in Parts(e)
    BY <1>5, Operands
  <2> QED BY <2>1, <1>1, <1>5, UnaryAgrees
<1>6. CASE e.k = "binop"
  <2>1. e.lhs \in Parts(e) /\ e.rhs \in Parts(e)
    BY <1>6, Operands
  <2> QED BY <2>1, <1>1, <1>6, BinaryAgrees
<1>7. CASE e.k = "group"
  <2>1. e.expr \in Parts(e)
    BY <1>7, Operands
  <2> QED BY <2>1, <1>1, <1>7, GroupAgrees
<1> QED BY <1>1, <1>2, <1>3, <1>4, <1>5, <1>6, <1>7

(* In the scopes of its place every expression is resolved to the tree and  *)
(* the type that scoping by position gives it there, or to an error if it   *)
(* has none (resolve_expr and what it calls); it crashes on no others than  *)
(* those without a type and those with a literal out of range.  An          *)
(* expression for which that were wrong would have one of least height in   *)
(* it, whose operands agree.                                                *)
THEOREM ExpressionsAgree ==
  ASSUME NEW p, NEW scps, NEW at, NEW n, Located(p, scps, at, n), NEW root \in ExprsOf(Stmts(p, at)[n])
  PROVE  Agrees(ResolveExpr(scps, root), p, at, n, root)
<1> DEFINE Wrong(e) == ~Agrees(ResolveExpr(scps, e), p, at, n, e)
           S == Subexprs(root)
           W == {e \in S : Wrong(e)}
           H == {Height(e) : e \in W}
<1>1. root \in S /\ \A e \in S : IsExpr(e) /\ Parts(e) \subseteq S
  BY TreesAssumption DEF Located
<1>2. scps \in ScopesAt(p, at, n)
  BY InScopesAt DEF Located
<1>3. \A e \in S : Unfolds(scps, p, at, n, e)
  BY <1>2, UnfoldingAssumption DEF Located
<1> HIDE DEF Wrong, S
<1>4. H \subseteq Nat
  BY <1>1 DEF IsExpr
<1>5. W = {}
  <2> SUFFICES ASSUME W # {} PROVE FALSE
    OBVIOUS
  <2>1. H # {}
    OBVIOUS
  <2> HIDE DEF H
  <2>2. PICK h \in H : \A k \in H : h <= k
    BY <1>4, <2>1, Least
  <2>3. PICK e \in W : h = Height(e)
    BY <2>2 DEF H
  <2>4. e \in S /\ Wrong(e) /\ IsExpr(e) /\ Parts(e) \subseteq S /\ Unfolds(scps, p, at, n, e)
    BY <2>3, <1>1, <1>3
  <2>5. ASSUME NEW x \in Parts(e) PROVE ~Wrong(x)
    <3>1. x \in S /\ Height(x) < Height(e) /\ Height(e) \in Nat
      BY <2>4 DEF IsExpr
    <3>2. Height(x) \in Nat
      BY <3>1, <1>1 DEF IsExpr
    <3>3. Wrong(x) => Height(x) \in H
      BY <3>1 DEF H
    <3> QED BY <3>1, <3>2, <3>3, <2>2, <2>3
  <2>6. ~Wrong(e)
    BY <2>4, <2>5, StepAgrees DEF Wrong
  <2> QED BY <2>4, <2>6
<1> QED BY <1>1, <1>5 DEF Wrong

LEMMA ExprAgrees ==
  ASSUME NEW p, NEW scps, NEW at, NEW n, Located(p, scps, at, n), NEW e \in ExprsOf(Stmts(p, at)[n])
  PROVE  LET r == ResolveExpr(scps, e)
         IN  \/ /\ r.is = "ok" /\ r.e = Meant(p, at, n, e) /\ r.is_void \in BOOLEAN
                /\ r.is_void => Type(p, at, n, e) = "void"
                /\ ~r.is_void => Type(p, at, n, e) = "number"
                /\ ~Overflows(e)
             \/ r = nullptr /\ Type(p, at, n, e) = "none"
             \/ r.is = "crash" /\ (Type(p, at, n, e) = "none" \/ Overflows(e))
BY ExpressionsAgree DEF Agrees

LEMMA StmtKinds ==
  ASSUME NEW p, NEW scps, NEW at, NEW n, Located(p, scps, at, n)
  PROVE  LET s == Stmts(p, at)[n]
         IN  /\ s.k \in {"num", "ref", "call", "unop", "binop", "group",
                         "return", "assign", "decl", "if", "while"}
             /\ s.k = "decl"   => Optional(s.var.type) /\ Optional(s.var.initializer)
             /\ s.k = "return" => Optional(s.expr)
             /\ s.k = "if"     => Optional(s.false_block)
<1>1. IsStmt(Stmts(p, at)[n])
  BY BlocksAssumption DEF Located
<1> QED BY <1>1 DEF IsStmt

(* The value at the root of an expression.                                  *)
LEMMA RootAgrees ==
  ASSUME NEW p, NEW scps, NEW at, NEW n, Located(p, scps, at, n), NEW e \in ExprsOf(Stmts(p, at)[n])
  PROVE  LET r == Root(ResolveExpr(scps, e))
         IN  \/ /\ r.is = "ok" /\ r.e = SetValue(Meant(p, at, n, e)) /\ Type(p, at, n, e) = "number"
                /\ ~Overflows(e)
             \/ r.is = "null" /\ Type(p, at, n, e) # "number"
             \/ r.is = "crash" /\ (Type(p, at, n, e) # "number" \/ Overflows(e))
<1> DEFINE q == ResolveExpr(scps, e)
<1>1. \/ /\ q.is = "ok" /\ q.e = Meant(p, at, n, e) /\ q.is_void \in BOOLEAN
         /\ q.is_void => Type(p, at, n, e) = "void"
         /\ ~q.is_void => Type(p, at, n, e) = "number"
         /\ ~Overflows(e)
      \/ q = nullptr /\ Type(p, at, n, e) = "none"
      \/ q.is = "crash" /\ (Type(p, at, n, e) = "none" \/ Overflows(e))
  BY ExprAgrees
<1> HIDE DEF q
<1>2. Root(q) = IF q.is # "ok" THEN q ELSE IF q.is_void THEN nullptr ELSE Ok(SetValue(q.e), FALSE)
  BY DEF Root
<1>3. nullptr.is = "null" /\ Ok(SetValue(q.e), FALSE).is = "ok" /\ Ok(SetValue(q.e), FALSE).e = SetValue(q.e)
  BY DEF nullptr, Ok
<1>4. CASE /\ q.is = "ok" /\ q.e = Meant(p, at, n, e) /\ q.is_void \in BOOLEAN
           /\ q.is_void => Type(p, at, n, e) = "void"
           /\ ~q.is_void => Type(p, at, n, e) = "number"
           /\ ~Overflows(e)
  BY <1>2, <1>3, <1>4 DEF q
<1>5. CASE q = nullptr /\ Type(p, at, n, e) = "none"
  BY <1>2, <1>3, <1>5 DEF q
<1>6. CASE q.is = "crash" /\ (Type(p, at, n, e) = "none" \/ Overflows(e))
  BY <1>2, <1>6 DEF q
<1> QED BY <1>1, <1>4, <1>5, <1>6

LEMMA NodeOutcome ==
  ASSUME NEW r, NEW node, NEW p, NEW at, NEW n,
         r.is = "ok" => WellTypedStmt(p, at, n) /\ ~OverflowsAt(p, at, n) /\ node = ElaboratedStmt(p, at, n),
         r.is = "null" => ~WellTypedStmt(p, at, n),
         r.is = "crash" => ~WellTypedStmt(p, at, n) \/ OverflowsAt(p, at, n),
         r.is \in {"ok", "null", "crash"}
  PROVE  Outcome(Node(r, node), p, at, n)
  BY DEF Outcome, Node, Ok

LEMMA NullOutcome ==
  ASSUME NEW p, NEW at, NEW n, ~WellTypedStmt(p, at, n)
  PROVE  Outcome(nullptr, p, at, n)
  BY DEF Outcome, nullptr

LEMMA OverflowsHere ==
  ASSUME NEW p, NEW at, NEW n
  PROVE  LET es == ExprsOf(Stmts(p, at)[n])
         IN  /\ es = {} => ~OverflowsAt(p, at, n)
             /\ \A e : es = {e} => (OverflowsAt(p, at, n) <=> Overflows(e))
<1> DEFINE es == ExprsOf(Stmts(p, at)[n])
<1>1. OverflowsAt(p, at, n) <=> \E e \in es : Overflows(e)
  BY DEF OverflowsAt
<1> HIDE DEF es
<1> QED BY <1>1 DEF es

LEMMA ExprStmtOutcome ==
  ASSUME NEW p, NEW scps, NEW at, NEW n, Located(p, scps, at, n), NEW s, s = Stmts(p, at)[n],
         s.k \in {"num", "ref", "call", "unop", "binop", "group"}
  PROVE  Outcome(resolve_expr_stmt(ResolveExpr(scps, s)), p, at, n)
<1> DEFINE r == ResolveExpr(scps, s)
<1>1. ExprsOf(s) = {s}
  BY Expressions
<1>2. \/ r.is = "ok" /\ r.e = Meant(p, at, n, s) /\ Type(p, at, n, s) \in {"void", "number"} /\ ~Overflows(s)
      \/ r = nullptr /\ Type(p, at, n, s) = "none"
      \/ r.is = "crash" /\ (Type(p, at, n, s) = "none" \/ Overflows(s))
  BY <1>1, ExprAgrees
<1>7. OverflowsAt(p, at, n) <=> Overflows(s)
  BY <1>1, OverflowsHere
<1>3. WellTypedStmt(p, at, n) <=> Type(p, at, n, s) # "none"
  BY DEF WellTypedStmt
<1>4. ElaboratedStmt(p, at, n) = Tree!expr_stmt(Meant(p, at, n, s))
  BY DEF ElaboratedStmt, Form
<1> HIDE DEF r
<1>5. /\ r.is = "ok" => /\ WellTypedStmt(p, at, n) /\ ~OverflowsAt(p, at, n)
                        /\ Tree!expr_stmt(r.e) = ElaboratedStmt(p, at, n)
      /\ r.is = "null" => ~WellTypedStmt(p, at, n)
      /\ r.is = "crash" => ~WellTypedStmt(p, at, n) \/ OverflowsAt(p, at, n)
      /\ r.is \in {"ok", "null", "crash"}
  BY <1>2, <1>3, <1>4, <1>7 DEF nullptr
<1>6. Outcome(Node(r, Tree!expr_stmt(r.e)), p, at, n)
  BY <1>5, NodeOutcome
<1> QED BY <1>6 DEF resolve_expr_stmt, r

LEMMA ReturnOutcome ==
  ASSUME NEW p, NEW at, NEW n, Located(p, scopes, at, n), NEW s, s = Stmts(p, at)[n], s.k = "return"
  PROVE  Outcome(resolve_return_stmt(s, p[at[1][1]].type.kind = "void"), p, at, n)
<1> DEFINE void == p[at[1][1]].type.kind = "void"
           e == s.expr[1]
           root == Root(ResolveExpr(scopes, e))
           es == [i \in DOMAIN s.expr |-> SetValue(Meant(p, at, n, s.expr[i]))]
           r == resolve_return_stmt(s, void)
<1>1. \/ s.expr = <<>> /\ ToSet(s.expr) = {} /\ DOMAIN s.expr = {}
      \/ s.expr # <<>> /\ ToSet(s.expr) = {e} /\ DOMAIN s.expr = {1}
  BY StmtKinds, OptionalSet
<1>2. WellTypedStmt(p, at, n) <=> Number(p, at, n, ToSet(s.expr)) /\ (void <=> s.expr = <<>>)
  BY DEF WellTypedStmt
<1>3. ElaboratedStmt(p, at, n) = Tree!return_stmt(es)
  BY DEF ElaboratedStmt, Form
<1>4. r = IF void <=> s.expr # <<>> THEN nullptr
          ELSE IF s.expr = <<>> THEN Ok(Tree!return_stmt(<<>>), FALSE)
          ELSE Node(root, Tree!return_stmt(<<root.e>>))
  BY DEF resolve_return_stmt
<1>5. CASE void <=> s.expr # <<>>
  BY <1>2, <1>4, <1>5, NullOutcome
<1>6. CASE ~(void <=> s.expr # <<>>) /\ s.expr = <<>>
  <2>1. r = Ok(Tree!return_stmt(<<>>), FALSE)
    BY <1>4, <1>6
  <2>2. WellTypedStmt(p, at, n)
    BY <1>1, <1>2, <1>6 DEF Number
  <2>3. es = <<>>
    BY <1>1, <1>6
  <2> DEFINE nothing == <<>>
  <2>4. r = Ok(Tree!return_stmt(nothing), FALSE) /\ ElaboratedStmt(p, at, n) = Tree!return_stmt(nothing)
    BY <2>1, <2>3, <1>3
  <2> HIDE DEF nothing, r
  <2>6. ~OverflowsAt(p, at, n)
    BY <1>1, <1>6, Expressions, OverflowsHere
  <2>5. Outcome(r, p, at, n)
    BY <2>2, <2>4, <2>6 DEF Outcome, Ok
  <2> QED BY <2>5 DEF r
<1>7. CASE ~(void <=> s.expr # <<>>) /\ s.expr # <<>>
  <2>1. r = Node(root, Tree!return_stmt(<<root.e>>))
    BY <1>4, <1>7
  <2>2. e \in ExprsOf(s)
    BY <1>1, <1>7, Expressions
  <2>3. \/ root.is = "ok" /\ root.e = SetValue(Meant(p, at, n, e)) /\ Type(p, at, n, e) = "number" /\ ~Overflows(e)
        \/ root.is = "null" /\ Type(p, at, n, e) # "number"
        \/ root.is = "crash" /\ (Type(p, at, n, e) # "number" \/ Overflows(e))
    BY <2>2, RootAgrees
  <2>8. OverflowsAt(p, at, n) <=> Overflows(e)
    BY <1>1, <1>7, Expressions, OverflowsHere
  <2>4. WellTypedStmt(p, at, n) <=> Type(p, at, n, e) = "number"
    BY <1>1, <1>2, <1>7 DEF Number
  <2>5. es = <<SetValue(Meant(p, at, n, e))>>
    <3> DEFINE x == SetValue(Meant(p, at, n, e))
    <3>1. DOMAIN es = {1} /\ es[1] = x /\ es \in [{1} -> {x}]
      BY <1>1, <1>7
    <3> HIDE DEF es, x
    <3>2. es = <<x>>
      BY <3>1
    <3> QED BY <3>2 DEF x
  <2> HIDE DEF root, r, es
  <2>6. /\ root.is = "ok" => /\ WellTypedStmt(p, at, n) /\ ~OverflowsAt(p, at, n)
                             /\ Tree!return_stmt(<<root.e>>) = ElaboratedStmt(p, at, n)
        /\ root.is = "null" => ~WellTypedStmt(p, at, n)
        /\ root.is = "crash" => ~WellTypedStmt(p, at, n) \/ OverflowsAt(p, at, n)
        /\ root.is \in {"ok", "null", "crash"}
    BY <2>3, <2>4, <2>5, <2>8, <1>3
  <2>7. Outcome(Node(root, Tree!return_stmt(<<root.e>>)), p, at, n)
    BY <2>6, NodeOutcome
  <2> QED BY <2>1, <2>7 DEF r
<1> QED BY <1>5, <1>6, <1>7

LEMMA AssignmentOutcome ==
  ASSUME NEW p, NEW at, NEW n, Located(p, scopes, at, n), NEW s, s = Stmts(p, at)[n], s.k = "assign"
  PROVE  Outcome(resolve_assignment(s), p, at, n)
<1> DEFINE id == s.variable.identifier
           found == lookupDecl(scopes, id)
           m == Meaning(p, at, n, id)
           rhs == ResolveExpr(scopes, s.e)
           root == Root(rhs)
           r == resolve_assignment(s)
<1>1. \/ found = <<>> /\ m = {}
      \/ \E d : found = <<d>> /\ m = {d}
  BY LookupMeans DEF Located
<1>2. WellTypedStmt(p, at, n) <=> (\E d \in m : d.k = "var") /\ Number(p, at, n, {s.e})
  BY DEF WellTypedStmt
<1>3. ElaboratedStmt(p, at, n) = Tree!assignment(The(m).decl, SetValue(Meant(p, at, n, s.e)))
  BY DEF ElaboratedStmt, Form
<1>4. s.e \in ExprsOf(s)
  BY Expressions
<1>5. \/ /\ root.is = "ok" /\ root.e = SetValue(Meant(p, at, n, s.e)) /\ Type(p, at, n, s.e) = "number"
         /\ ~Overflows(s.e)
      \/ root.is = "null" /\ Type(p, at, n, s.e) # "number"
      \/ root.is = "crash" /\ (Type(p, at, n, s.e) # "number" \/ Overflows(s.e))
  BY <1>4, RootAgrees
<1>10. OverflowsAt(p, at, n) <=> Overflows(s.e)
  BY Expressions, OverflowsHere
<1>6. r = IF found = <<>> \/ found[1].k = "fn" THEN nullptr
          ELSE IF rhs.is = "ok" /\ found[1].k = "param" THEN nullptr
          ELSE Node(root, Tree!assignment(found[1].decl, root.e))
  BY DEF resolve_assignment
<1>7. \A d \in m : d.k \in {"fn", "param", "var"}
  BY MeaningKinds
<1> HIDE DEF found, m, rhs, root, r
<1>8. CASE ~\E d : found = <<d>> /\ m = {d}
  <2>1. found = <<>> /\ m = {}
    BY <1>1, <1>8
  <2>2. r = nullptr /\ ~WellTypedStmt(p, at, n)
    BY <2>1, <1>2, <1>6
  <2> QED BY <2>2, NullOutcome DEF r
<1>9. ASSUME NEW d, found = <<d>>, m = {d} PROVE Outcome(r, p, at, n)
  <2>1. found # <<>> /\ found[1] = d /\ The(m) = d /\ d.k \in {"fn", "param", "var"}
    BY <1>7, <1>9 DEF The
  <2>2. WellTypedStmt(p, at, n) <=> d.k = "var" /\ Type(p, at, n, s.e) = "number"
    BY <1>2, <1>9 DEF Number
  <2>3. CASE d.k = "fn" \/ (rhs.is = "ok" /\ d.k = "param")
    <3>1. r = nullptr /\ ~WellTypedStmt(p, at, n)
      BY <2>1, <2>2, <2>3, <1>6
    <3> QED BY <3>1, NullOutcome
  <2>4. CASE ~(d.k = "fn" \/ (rhs.is = "ok" /\ d.k = "param"))
    <3>1. r = Node(root, Tree!assignment(d.decl, root.e))
      BY <2>1, <2>4, <1>6
    <3>2. root.is = "ok" => rhs.is = "ok"
      BY DEF root, Root
    <3>3. /\ root.is = "ok" => /\ WellTypedStmt(p, at, n) /\ ~OverflowsAt(p, at, n)
                               /\ Tree!assignment(d.decl, root.e) = ElaboratedStmt(p, at, n)
          /\ root.is = "null" => ~WellTypedStmt(p, at, n)
          /\ root.is = "crash" => ~WellTypedStmt(p, at, n) \/ OverflowsAt(p, at, n)
          /\ root.is \in {"ok", "null", "crash"}
      BY <2>1, <2>2, <2>4, <3>2, <1>3, <1>5, <1>10
    <3>4. Outcome(Node(root, Tree!assignment(d.decl, root.e)), p, at, n)
      BY <3>3, NodeOutcome
    <3> QED BY <3>1, <3>4
  <2> QED BY <2>3, <2>4
<1> QED BY <1>8, <1>9 DEF r

LEMMA ConditionOutcome ==
  ASSUME NEW p, NEW at, NEW n, Located(p, scopes, at, n), NEW s, s = Stmts(p, at)[n], s.k \in {"if", "while"},
         NEW c, c = resolve_condition(s.condition)
  PROVE  /\ c.is \in {"ok", "null", "crash"}
         /\ c.is = "ok" => /\ WellTypedStmt(p, at, n) /\ ~OverflowsAt(p, at, n)
                           /\ c.e = SetValue(Meant(p, at, n, s.condition))
         /\ c.is = "null" => ~WellTypedStmt(p, at, n)
         /\ c.is = "crash" => ~WellTypedStmt(p, at, n) \/ OverflowsAt(p, at, n)
<1>1. WellTypedStmt(p, at, n) <=> Type(p, at, n, s.condition) = "number"
  BY DEF WellTypedStmt, Number
<1>2. s.condition \in ExprsOf(s)
  BY Expressions
<1>3. c = Root(ResolveExpr(scopes, s.condition))
  BY DEF resolve_condition
<1>4. \/ /\ c.is = "ok" /\ c.e = SetValue(Meant(p, at, n, s.condition)) /\ Type(p, at, n, s.condition) = "number"
         /\ ~Overflows(s.condition)
      \/ c.is = "null" /\ Type(p, at, n, s.condition) # "number"
      \/ c.is = "crash" /\ (Type(p, at, n, s.condition) # "number" \/ Overflows(s.condition))
  BY <1>2, <1>3, RootAgrees
<1>5. OverflowsAt(p, at, n) <=> Overflows(s.condition)
  BY Expressions, OverflowsHere
<1> QED BY <1>1, <1>4, <1>5

LEMMA RedeclaredHere ==
  ASSUME NEW p, NEW scps, NEW at, NEW n, Located(p, scps, at, n), NEW id
  PROVE  Redeclared(scps, id) <=> Declaring(p, at, n, id) # {}
<1> DEFINE len == Len(at)
<1>1. len \in Nat \ {0} /\ DOMAIN at = 1 .. len /\ Around(at, len) = at
  BY PlaceLength DEF Located
<1>2. Len(scps) = len + 2 /\ scps[len + 2] \in Listings(Locals(p, Around(at, len), Index(at, n, len)))
  BY <1>1 DEF Located, In
<1>3. Index(at, n, len) = n
  BY IndexHere
<1>4. \A m \in Declarations(p, at, n) : WellTypedStmt(p, at, m)
  <2>1. len \in DOMAIN at
    BY <1>1
  <2> QED BY <2>1, <1>1, <1>3 DEF Located, SoundAt
<1>5. n \in Nat
  BY DEF Located
<1> DEFINE s == scps[len + 2]
<1>6. s \in Listings(Locals(p, at, n))
  BY <1>1, <1>2, <1>3
<1> HIDE DEF s
<1>7. Named(s, id) # {} <=> Declaring(p, at, n, id) # {}
  BY <1>4, <1>5, <1>6, LocalNames
<1> QED BY <1>2, <1>7 DEF Redeclared, Last, s

LEMMA DeclOutcome ==
  ASSUME NEW p, NEW at, NEW n, Located(p, scopes, at, n), NEW s, s = Stmts(p, at)[n], s.k = "decl",
         NEW r, r = resolve_decl_stmt(s, resolve_var_decl(s.var, <<at, n>>))
  PROVE  /\ Outcome(r, p, at, n)
         /\ r.is = "ok" => DeclName(s.var.identifier, r.e.var) = Variable(p, at, n)
<1> DEFINE v == s.var
           e == v.initializer[1]
           init == ResolveExpr(scopes, e)
           root == Root(init)
           es == [i \in DOMAIN v.initializer |-> SetValue(Meant(p, at, n, v.initializer[i]))]
           vd == Tree!var_decl(<<at, n>>, v.is_mutable, es)
           q == resolve_var_decl(v, <<at, n>>)
           good == /\ Number(p, at, n, ToSet(v.initializer)) /\ \A t \in ToSet(v.type) : t.kind = "number"
                   /\ v.type # <<>> \/ v.initializer # <<>>
           fresh == Declaring(p, at, n, v.identifier) = {}
           over == OverflowsAt(p, at, n)
<1>1. /\ \/ v.initializer = <<>> /\ ToSet(v.initializer) = {} /\ DOMAIN v.initializer = {}
         \/ v.initializer # <<>> /\ ToSet(v.initializer) = {e} /\ DOMAIN v.initializer = {1}
      /\ \/ v.type = <<>> /\ ToSet(v.type) = {}
         \/ v.type # <<>> /\ ToSet(v.type) = {v.type[1]}
  BY StmtKinds, OptionalSet
<1>2. WellTypedStmt(p, at, n) <=> good /\ fresh
  BY WellTypedDecl
<1>3. Variable(p, at, n) = DeclName(v.identifier, vd) /\ ElaboratedStmt(p, at, n) = Tree!decl_stmt(vd)
  <2>1. Variable(p, at, n) = DeclName(v.identifier, vd)
    BY DEF Variable
  <2>2. ElaboratedStmt(p, at, n) = Tree!decl_stmt(Variable(p, at, n).decl)
    BY DEF ElaboratedStmt, Form
  <2>3. DeclName(v.identifier, vd).decl = vd
    BY DEF DeclName
  <2> QED BY <2>1, <2>2, <2>3
<1>4. Redeclared(scopes, v.identifier) <=> ~fresh
  BY RedeclaredHere
<1>5. q = IF v.type = <<>> /\ v.initializer = <<>> THEN nullptr
          ELSE IF v.initializer = <<>> THEN
            IF v.type[1].kind # "number" THEN nullptr
            ELSE Ok(Tree!var_decl(<<at, n>>, v.is_mutable, <<>>), FALSE)
          ELSE IF init.is = "ok" /\ v.type # <<>> /\ v.type[1].kind # "number" THEN nullptr
          ELSE Node(root, Tree!var_decl(<<at, n>>, v.is_mutable, <<root.e>>))
  BY DEF resolve_var_decl
<1>6. /\ q.is \in {"ok", "null", "crash"}
      /\ q.is = "ok" => good /\ ~over /\ q.e = vd
      /\ q.is = "null" => ~good
      /\ q.is = "crash" => ~good \/ over
  <2>1. CASE v.initializer = <<>> /\ (v.type = <<>> \/ v.type[1].kind # "number")
    <3>1. q = nullptr /\ ~good
      BY <2>1, <1>1, <1>5
    <3> QED BY <3>1 DEF nullptr
  <2>2. CASE v.initializer = <<>> /\ v.type # <<>> /\ v.type[1].kind = "number"
    <3> DEFINE nothing == <<>>
    <3>1. q = Ok(Tree!var_decl(<<at, n>>, v.is_mutable, nothing), FALSE)
      BY <2>2, <1>5
    <3>2. good
      BY <2>2, <1>1 DEF Number
    <3>3. es = nothing
      BY <2>2, <1>1
    <3>5. ~over
      BY <2>2, <1>1, Expressions, OverflowsHere
    <3> HIDE DEF nothing, es, q, good, over
    <3>4. q.is = "ok" /\ q.e = Tree!var_decl(<<at, n>>, v.is_mutable, nothing)
      BY <3>1 DEF Ok
    <3> QED BY <3>2, <3>3, <3>4, <3>5
  <2>3. CASE v.initializer # <<>>
    <3>1. e \in ExprsOf(s)
      BY <2>3, <1>1, Expressions
    <3>2. \/ root.is = "ok" /\ root.e = SetValue(Meant(p, at, n, e)) /\ Type(p, at, n, e) = "number" /\ ~Overflows(e)
          \/ root.is = "null" /\ Type(p, at, n, e) # "number"
          \/ root.is = "crash" /\ (Type(p, at, n, e) # "number" \/ Overflows(e))
      BY <3>1, RootAgrees
    <3>8. over <=> Overflows(e)
      BY <2>3, <1>1, Expressions, OverflowsHere
    <3>3. good <=> Type(p, at, n, e) = "number" /\ (v.type # <<>> => v.type[1].kind = "number")
      BY <2>3, <1>1 DEF Number
    <3>4. es = <<SetValue(Meant(p, at, n, e))>>
      <4> DEFINE x == SetValue(Meant(p, at, n, e))
      <4>1. DOMAIN es = {1} /\ es[1] = x /\ es \in [{1} -> {x}]
        BY <2>3, <1>1
      <4> HIDE DEF es, x
      <4>2. es = <<x>>
        BY <4>1
      <4> QED BY <4>2 DEF x
    <3>5. root.is = "ok" => init.is = "ok"
      <4> HIDE DEF init
      <4> QED BY DEF Root
    <3> HIDE DEF root, init, es, good, over, q
    <3>6. CASE init.is = "ok" /\ v.type # <<>> /\ v.type[1].kind # "number"
      <4>1. q = nullptr /\ ~good
        BY <2>3, <3>3, <3>6, <1>5
      <4> QED BY <4>1 DEF nullptr
    <3>7. CASE ~(init.is = "ok" /\ v.type # <<>> /\ v.type[1].kind # "number")
      <4>1. q = Node(root, Tree!var_decl(<<at, n>>, v.is_mutable, <<root.e>>))
        BY <2>3, <3>7, <1>5
      <4>2. root.is = "ok" => q = Ok(vd, FALSE) /\ good /\ ~over
        BY <4>1, <3>2, <3>3, <3>4, <3>5, <3>7, <3>8 DEF Node
      <4>3. root.is # "ok" => q = root
        BY <4>1 DEF Node
      <4> HIDE DEF vd
      <4>4. Ok(vd, FALSE).is = "ok" /\ Ok(vd, FALSE).e = vd
        BY DEF Ok
      <4>5. (root.is = "null" => ~good) /\ (root.is = "crash" => ~good \/ over)
        BY <3>2, <3>3, <3>8
      <4> QED BY <4>2, <4>3, <4>4, <4>5, <3>2
    <3> QED BY <3>6, <3>7
  <2> QED BY <2>1, <2>2, <2>3
<1> HIDE DEF q, good, fresh, over, vd
<1>7. r = IF q.is # "ok" THEN q ELSE IF Redeclared(scopes, v.identifier) THEN nullptr
          ELSE Ok(Tree!decl_stmt(q.e), FALSE)
  BY DEF resolve_decl_stmt, q
<1>8. CASE q.is # "ok"
  BY <1>2, <1>6, <1>7, <1>8 DEF Outcome, over
<1>9. CASE q.is = "ok" /\ ~fresh
  <2>1. r = nullptr
    BY <1>4, <1>7, <1>9
  <2>2. nullptr.is = "null"
    BY DEF nullptr
  <2> QED BY <2>1, <2>2, <1>2, <1>9 DEF Outcome
<1>10. CASE q.is = "ok" /\ fresh
  <2>1. r = Ok(Tree!decl_stmt(vd), FALSE)
    BY <1>4, <1>6, <1>7, <1>10
  <2>2. r.is = "ok" /\ r.e = Tree!decl_stmt(vd) /\ r.e.var = vd
    BY <2>1 DEF Ok, Tree!decl_stmt
  <2> QED BY <2>2, <1>2, <1>3, <1>6, <1>10 DEF Outcome, over
<1> QED BY <1>8, <1>9, <1>10

-----------------------------------------------------------------------------
(* The inductive invariant.  As long as there is no error, the signatures   *)
(* so far are right, and then there is a set P of blocks all done, so that  *)
(* the stack fits to it and the scopes to the place reached; an error is    *)
(* never taken back, and there is a reason for it.                          *)
Here(p, scps, b) == In(p, scps, b.at, b.n) /\ SoundAt(p, b.at, b.n)

Position(p, fun, scps, s, r, P) ==
  /\ s = <<>> /\ r = <<>> => scps = <<Globals(p)>>
  /\ s = <<>> /\ r # <<>> => /\ <<<<fun, 1>>>> \in P /\ scps[1] = Globals(p)
                             /\ WellTyped(p) => r[1].e = Elaborated(p, <<<<fun, 1>>>>)
  /\ AtBlock(s) => Here(p, scps, s[Len(s)])
  /\ s # <<>> /\ ~AtBlock(s) =>
       /\ Here(p, scps, s[Len(s) - 1]) /\ Into(s[Len(s) - 1], s[Len(s)]) \in P
       /\ WellTyped(p) => r[1].e = Elaborated(p, Into(s[Len(s) - 1], s[Len(s)]))

Done(p, w, fun, tree, P) ==
  /\ WellTypedSignatures(p)
  /\ FinishedOK(p, w, P) /\ WarningsOK(p, w)
  /\ \A i \in 1 .. fun - 1 : <<<<i, 1>>>> \in P
  /\ Len(tree) = fun - 1 /\ \A i \in 1 .. fun - 1 : ~FlowErrors(tree[i])
  /\ WellTyped(p) => \A i \in 1 .. fun - 1 : tree[i] = ElaboratedFunction(p, i)

Resolves(P) ==
  /\ Done(ast, warned, fn, resolved_tree, P)
  /\ Chain(ast, warned, fn, stack, P)
  /\ Position(ast, fn, scopes, stack, ret, P)

Signed ==
  /\ \A i \in 1 .. fn - 1 : ~BadSignature(ast[i])
  /\ DOMAIN scopes[1] = 1 .. fn /\ scopes[1][1] = println
  /\ \A i \in 1 .. fn - 1 : scopes[1][i + 1] = Function(ast[i])
  /\ resolved_tree = <<>> /\ warned = {}

Faulty == ~WellTyped(ast) \/ \E i \in DOMAIN resolved_tree : FlowErrors(resolved_tree[i])

Ended ==
  /\ phase = "declare" => result = "none"
  /\ result = "ok" => phase = "done" /\ fn = Len(ast) + 1 /\ Clean
  /\ result = "failed" => ~Clean
  /\ ret # <<>> => ret[1].is \in {"ok", "null"}
  /\ \E S : resolved_tree \in Seq(S)

Going == IF phase = "declare" THEN Signed ELSE \E P : Resolves(P)

LInv == Ended /\ (Clean => Going) /\ (~Clean => Faulty)

(* Errors of the blocks on the stack.                                       *)
HasError(s) == \E i \in DOMAIN s : s[i].k = "block" /\ s[i].error

LEMMA CleanMeans == Clean <=> ~error /\ ~HasError(stack) /\ (ret # <<>> => ret[1].is = "ok")
  BY DEF Clean, HasError

LEMMA ErrorPush ==
  ASSUME NEW b, NEW S, b \in Seq(S), NEW f
  PROVE  HasError(Append(b, f)) <=> HasError(b) \/ (f.k = "block" /\ f.error)
<1> DEFINE s == Append(b, f)
           len == Len(b)
<1>1. /\ DOMAIN s = 1 .. len + 1 /\ \A i \in 1 .. len : s[i] = b[i]
      /\ s[len + 1] = f /\ len \in Nat /\ DOMAIN b = 1 .. len
  BY AppendKeeps, LenProperties
<1> HIDE DEF s, len
<1>2. ASSUME HasError(s) PROVE HasError(b) \/ (f.k = "block" /\ f.error)
  <2>1. PICK i \in 1 .. len + 1 : s[i].k = "block" /\ s[i].error
    BY <1>1, <1>2 DEF HasError
  <2>2. CASE i = len + 1
    BY <2>1, <2>2, <1>1
  <2>3. CASE i # len + 1
    <3>1. i \in 1 .. len
      BY <2>3, <1>1
    <3> QED BY <2>1, <3>1, <1>1 DEF HasError
  <2> QED BY <2>2, <2>3
<1>3. ASSUME HasError(b) PROVE HasError(s)
  <2>1. PICK i \in 1 .. len : b[i].k = "block" /\ b[i].error
    BY <1>1, <1>3 DEF HasError
  <2>2. i \in 1 .. len + 1
    BY <1>1
  <2> QED BY <2>1, <2>2, <1>1 DEF HasError
<1>4. ASSUME f.k = "block", f.error PROVE HasError(s)
  <2>1. len + 1 \in 1 .. len + 1
    BY <1>1
  <2> QED BY <2>1, <1>1, <1>4 DEF HasError
<1> QED BY <1>2, <1>3, <1>4 DEF s

LEMMA ErrorPop ==
  ASSUME NEW s, Nested(s), s # <<>>
  PROVE  /\ HasError(s) <=> HasError(SubSeq(s, 1, Len(s) - 1)) \/ (s[Len(s)].k = "block" /\ s[Len(s)].error)
         /\ \E S : SubSeq(s, 1, Len(s) - 1) \in Seq(S)
<1> DEFINE b == SubSeq(s, 1, Len(s) - 1)
           f == s[Len(s)]
<1>1. PICK S : s \in Seq(S)
  BY DEF Nested
<1>2. b \in Seq(S) /\ s = Append(b, f)
  BY <1>1, FrontKeeps
<1> HIDE DEF b, f
<1>3. HasError(Append(b, f)) <=> HasError(b) \/ (f.k = "block" /\ f.error)
  BY <1>2, ErrorPush
<1> QED BY <1>2, <1>3 DEF b, f

(* A chain has no error.                                                    *)
LEMMA ChainClean ==
  ASSUME NEW p, NEW w, NEW fun, NEW s, NEW P, Nested(s), Chain(p, w, fun, s, P)
  PROVE  ~HasError(s)
<1>1. DOMAIN s = 1 .. Len(s)
  BY LenProperties DEF Nested
<1> QED BY <1>1 DEF HasError, Chain, BlockOK

(* After a statement the block has an error if it had one, or the statement.*)
LEMMA ErrorAfter ==
  ASSUME NEW s, Nested(s), AtBlock(s), NEW r, NEW is_return, Resolved(s, r, is_return), r.is # "crash",
         HasError(s) \/ r.is # "ok"
  PROVE  HasError(stack')
<1> DEFINE b == SubSeq(s, 1, Len(s) - 1)
           f == s[Len(s)]
           g == After(f, r, is_return)
<1>1. s # <<>> /\ f.k = "block"
  BY DEF AtBlock
<1>2. stack' = Append(b, g)
  BY DEF Resolved, Front, Last
<1>3. /\ HasError(s) <=> HasError(b) \/ (f.k = "block" /\ f.error)
      /\ \E S : b \in Seq(S)
  BY <1>1, ErrorPop
<1>4. g.k = "block" /\ (f.error \/ r.is # "ok" => g.error)
  <2>1. "k" \in DOMAIN f /\ "error" \in DOMAIN f
    BY <1>1, NestedPop DEF FrameOK
  <2>2. g.k = "block"
    BY <1>1, <2>1 DEF After
  <2>3. f.error \/ r.is # "ok" => g.error
    BY <2>1 DEF After
  <2> QED BY <2>2, <2>3
<1> HIDE DEF g, b, f
<1>5. HasError(Append(b, g)) <=> HasError(b) \/ (g.k = "block" /\ g.error)
  BY <1>3, ErrorPush
<1> QED BY <1>2, <1>3, <1>4, <1>5

LEMMA ErrorPushTwo ==
  ASSUME NEW s, Nested(s), HasError(s), NEW f, NEW b
  PROVE  HasError(s \o <<f, b>>)
<1>1. PICK S : s \in Seq(S)
  BY DEF Nested
<1>2. s \o <<f, b>> = Append(Append(s, f), b)
  BY <1>1, AppendTwice
<1>3. HasError(Append(s, f)) /\ Append(s, f) \in Seq(S \cup {f})
  BY <1>1, ErrorPush, AppendKeeps
<1>4. HasError(Append(Append(s, f), b))
  BY <1>3, ErrorPush
<1> QED BY <1>2, <1>4

LEMMA StatementError ==
  ASSUME IInv, stack # <<>>, ret = <<>>, NEW r, NEW is_return, Resolved(stack, r, is_return),
         error \/ HasError(stack), UNCHANGED error
  PROVE  error' \/ HasError(stack')
<1>1. Nested(stack) /\ AtBlock(stack)
  BY DEF IInv, Balanced
<1>2. CASE r.is = "crash"
  BY <1>2 DEF Resolved
<1>3. CASE r.is # "crash"
  BY <1>1, <1>3, ErrorAfter
<1> QED BY <1>2, <1>3

(* An error is not taken back.                                              *)
LEMMA ErrorStays ==
  ASSUME IInv, Ended, [Next]_vars, ~Clean
  PROVE  ~Clean'
<1>1. error \/ HasError(stack) \/ (ret # <<>> /\ ret[1].is = "null")
  BY CleanMeans DEF Ended
<1>2. Clean' <=> ~error' /\ ~HasError(stack)' /\ (ret' # <<>> => ret'[1].is = "ok")
  BY DEF Clean, HasError
<1>3. Nested(stack)
  BY DEF IInv, Balanced
<1>4. ~HasError(<<>>)
  BY DEF HasError
<1>5. SUFFICES error' \/ HasError(stack)' \/ (ret' # <<>> /\ ret'[1].is # "ok")
  BY <1>2
<1>6. nullptr.is = "null"
  BY DEF nullptr
<1>7. CASE DeclareFunction \/ EndDeclarations \/ EndProgram
  <2>1. UNCHANGED <<stack, ret>> /\ (error => error')
    <3>1. CASE DeclareFunction
      <4> DEFINE bad == BadSignature(ast[fn]) \/ Redeclared(scopes, ast[fn].identifier)
      <4>1. UNCHANGED <<stack, ret>> /\ error' = (error \/ bad)
        BY <3>1 DEF DeclareFunction
      <4> HIDE DEF bad
      <4> QED BY <4>1
    <3>2. CASE EndDeclarations \/ EndProgram
      BY <3>2 DEF EndDeclarations, EndProgram
    <3> QED BY <3>1, <3>2, <1>7
  <2> QED BY <2>1, <1>1
<1>8. CASE BeginBody
  <2>1. UNCHANGED error /\ stack = <<>> /\ ret = <<>>
    BY <1>8 DEF BeginBody
  <2> QED BY <2>1, <1>1, <1>4
<1>9. CASE EndBody
  <2>1. stack = <<>> /\ (error => error') /\ (ret[1].is = "null" => error')
    BY <1>9 DEF EndBody
  <2> QED BY <2>1, <1>1, <1>4
<1>10. CASE ResolveExprStmt \/ ResolveReturn \/ ResolveAssignment \/ ResolveDecl
  <2>1. /\ stack # <<>> /\ ret = <<>> /\ UNCHANGED error
        /\ \E r, is_return : Resolved(stack, r, is_return)
    BY <1>10 DEF ResolveExprStmt, ResolveReturn, ResolveAssignment, ResolveDecl, AtStmt
  <2> QED BY <2>1, <1>1, StatementError
<1>11. CASE BeginIf \/ BeginWhile
  <2>1. PICK c, node, stmts : BeginBlock(c, node, stmts)
    BY <1>11 DEF BeginIf, BeginWhile
  <2>2. stack # <<>> /\ ret = <<>> /\ UNCHANGED error
    BY <1>11 DEF BeginIf, BeginWhile, AtStmt
  <2>3. CASE c.is # "ok"
    BY <2>1, <2>2, <2>3, <1>1, StatementError DEF BeginBlock
  <2>4. CASE c.is = "ok"
    <3>1. \E f, b : stack' = stack \o <<f, b>>
      BY <2>1, <2>4 DEF BeginBlock
    <3> QED BY <3>1, <2>2, <1>1, <1>3, ErrorPushTwo
  <2> QED BY <2>3, <2>4
<1>12. CASE EndBlock
  <2>1. /\ stack # <<>> /\ ret = <<>> /\ UNCHANGED error /\ stack' = SubSeq(stack, 1, Len(stack) - 1)
        /\ ret' = <<IF stack[Len(stack)].error THEN nullptr ELSE Ok(stack[Len(stack)].done, FALSE)>>
    BY <1>12 DEF EndBlock, Below, Top
  <2>2. HasError(stack) <=> HasError(stack') \/ (stack[Len(stack)].k = "block" /\ stack[Len(stack)].error)
    BY <2>1, <1>3, ErrorPop
  <2>3. stack[Len(stack)].error => ret' = <<nullptr>>
    BY <2>1
  <2>4. ret' = <<nullptr>> => ret' # <<>> /\ ret'[1].is # "ok"
    BY <1>6
  <2> QED BY <2>1, <2>2, <2>3, <2>4, <1>1
<1>13. CASE EndWhile \/ EndIf \/ EndElse \/ BeginElse
  <2>1. PICK k : Returned(k)
    BY <1>13 DEF EndWhile, EndIf, EndElse, BeginElse
  <2>2. /\ ret # <<>> /\ stack # <<>> /\ Nested(Below) /\ AtBlock(Below)
    BY <2>1, OuterBlock
  <2>3. ~AtBlock(stack)
    BY <2>2 DEF IInv, Balanced
  <2>4. HasError(stack) <=> HasError(Below)
    BY <2>2, <2>3, <1>3, ErrorPop DEF Below, AtBlock
  <2>5. UNCHANGED error
    BY <1>13 DEF EndWhile, EndIf, EndElse, EndStmt, BeginElse
  <2>6. CASE BeginElse
    <3>1. ret[1].is = "ok" /\ \E f, b : stack' = Below \o <<f, b>>
      BY <2>6 DEF BeginElse
    <3> QED BY <3>1, <2>2, <2>4, <2>5, <1>1, ErrorPushTwo
  <2>7. CASE EndWhile \/ EndIf \/ EndElse
    <3>1. PICK node : EndStmt(node)
      BY <2>7 DEF EndWhile, EndIf, EndElse
    <3> DEFINE r == IF ret[1].is = "null" THEN nullptr ELSE Ok(node, FALSE)
    <3>2. Resolved(Below, r, FALSE)
      BY <3>1 DEF EndStmt
    <3>3. r.is # "crash" /\ (ret[1].is = "null" => r.is # "ok")
      BY <1>6 DEF Ok
    <3> HIDE DEF r
    <3>4. HasError(Below) \/ r.is # "ok" => HasError(stack')
      BY <2>2, <3>2, <3>3, ErrorAfter
    <3> QED BY <3>3, <3>4, <2>4, <2>5, <1>1
  <2> QED BY <2>6, <2>7, <1>13
<1>14. CASE UNCHANGED vars
  BY <1>1, <1>14 DEF vars
<1> QED BY <1>7, <1>8, <1>9, <1>10, <1>11, <1>12, <1>13, <1>14 DEF Next

LEMMA FaultyStays ==
  ASSUME Ended, [Next]_vars, Faulty
  PROVE  Faulty'
<1>1. UNCHANGED ast /\ (UNCHANGED resolved_tree \/ \E f : resolved_tree' = Append(resolved_tree, f))
  <2>1. CASE DeclareFunction \/ EndDeclarations \/ BeginBody \/ EndProgram
    BY <2>1 DEF DeclareFunction, EndDeclarations, BeginBody, EndProgram
  <2>2. CASE EndBody
    BY <2>2, Zenon DEF EndBody
  <2>3. CASE ResolveExprStmt \/ ResolveReturn \/ ResolveAssignment \/ ResolveDecl \/ BeginIf \/ BeginWhile
    BY <2>3 DEF ResolveExprStmt, ResolveReturn, ResolveAssignment, ResolveDecl, BeginIf, BeginWhile
  <2>4. CASE EndBlock \/ EndWhile \/ BeginElse \/ EndIf \/ EndElse
    BY <2>4 DEF EndBlock, EndWhile, BeginElse, EndIf, EndElse, EndStmt
  <2>5. CASE UNCHANGED vars
    BY <2>5 DEF vars
  <2> QED BY <2>1, <2>2, <2>3, <2>4, <2>5 DEF Next
<1>2. CASE UNCHANGED resolved_tree
  BY <1>1, <1>2 DEF Faulty
<1>3. ASSUME NEW f, resolved_tree' = Append(resolved_tree, f) PROVE Faulty'
  <2>1. PICK S : resolved_tree \in Seq(S)
    BY DEF Ended
  <2>2. /\ DOMAIN resolved_tree' = 1 .. Len(resolved_tree) + 1 /\ DOMAIN resolved_tree = 1 .. Len(resolved_tree)
        /\ \A i \in 1 .. Len(resolved_tree) : resolved_tree'[i] = resolved_tree[i]
        /\ Len(resolved_tree) \in Nat
    BY <2>1, <1>3, AppendKeeps, LenProperties
  <2>3. \A i \in DOMAIN resolved_tree : i \in DOMAIN resolved_tree' /\ resolved_tree'[i] = resolved_tree[i]
    <3> DEFINE len == Len(resolved_tree)
    <3> HIDE DEF len
    <3>1. \A i \in 1 .. len : i \in 1 .. len + 1
      BY <2>2 DEF len
    <3> QED BY <3>1, <2>2 DEF len
  <2> QED BY <2>3, <1>1 DEF Faulty
<1> QED BY <1>1, <1>2, <1>3

LEMMA EndedStays ==
  ASSUME IInv, Ended, [Next]_vars
  PROVE  Ended'
<1> USE DEF Ended
<1>1. (~Clean => ~Clean')
  BY ErrorStays
<1>2. nullptr.is = "null" /\ \A e : Ok(e, FALSE).is = "ok"
  BY DEF nullptr, Ok
<1>3. CASE DeclareFunction
  BY <1>3 DEF DeclareFunction
<1>4. CASE EndDeclarations
  <2>1. /\ result = "none" /\ UNCHANGED <<ret, resolved_tree, error>>
        /\ phase' \in {"done", "resolve"} /\ (result' = result \/ (result' = "failed" /\ error'))
    BY <1>4 DEF EndDeclarations
  <2>2. error' => ~Clean'
    BY DEF Clean
  <2> QED BY <2>1, <2>2
<1>5. CASE EndProgram
  <2>1. /\ UNCHANGED <<ast, fn, ret, resolved_tree, error, stack>> /\ stack = <<>> /\ ret = <<>> /\ fn = Len(ast) + 1
        /\ phase' = "done" /\ result' = IF error THEN "failed" ELSE "ok"
    BY <1>5 DEF EndProgram
  <2>2. ~HasError(<<>>)
    BY DEF HasError
  <2>3. Clean' <=> ~error'
    BY <2>1 DEF Clean
  <2> QED BY <2>1, <2>3
<1>6. CASE BeginBody
  BY <1>6 DEF BeginBody, Resolving
<1>7. CASE EndBody
  <2>1. /\ phase' = "resolve" /\ result' = "none" /\ ret' = <<>>
        /\ UNCHANGED resolved_tree \/ \E f : resolved_tree' = Append(resolved_tree, f)
    BY <1>7, Zenon DEF EndBody, Resolving
  <2>2. PICK S : resolved_tree \in Seq(S)
    OBVIOUS
  <2>3. \A f : Append(resolved_tree, f) \in Seq(S \cup {f})
    BY <2>2, AppendKeeps
  <2> QED BY <2>1, <2>2, <2>3
<1>8. ASSUME Resolving, NEW s, NEW r, NEW is_return, Resolved(s, r, is_return)
      PROVE  result' \in {"none", "crashed"}
  BY <1>8 DEF Resolving, Resolved
<1>9. CASE ResolveExprStmt \/ ResolveReturn \/ ResolveAssignment \/ ResolveDecl
  <2>1. UNCHANGED <<phase, ret, resolved_tree>> /\ Resolving /\ \E s, r, is_return : Resolved(s, r, is_return)
    BY <1>9 DEF ResolveExprStmt, ResolveReturn, ResolveAssignment, ResolveDecl, AtStmt
  <2>2. result' \in {"none", "crashed"}
    BY <2>1, <1>8
  <2> QED BY <2>1, <2>2 DEF Resolving
<1>10. CASE BeginIf \/ BeginWhile
  <2>1. UNCHANGED <<phase, ret, resolved_tree>> /\ Resolving /\ \E c, node, stmts : BeginBlock(c, node, stmts)
    BY <1>10 DEF BeginIf, BeginWhile, AtStmt
  <2>2. result' \in {"none", "crashed"}
    BY <2>1, <1>8 DEF BeginBlock, Resolving
  <2> QED BY <2>1, <2>2 DEF Resolving
<1>11. CASE EndBlock
  <2>1. UNCHANGED <<phase, resolved_tree, result>> /\ Resolving
        /\ ret' = <<IF Top.error THEN nullptr ELSE Ok(Top.done, FALSE)>>
    BY <1>11 DEF EndBlock
  <2> DEFINE r == IF Top.error THEN nullptr ELSE Ok(Top.done, FALSE)
  <2>2. ret' = <<r>> /\ r.is \in {"ok", "null"}
    BY <2>1, <1>2
  <2> HIDE DEF r
  <2>3. ret'[1].is \in {"ok", "null"}
    BY <2>2
  <2> QED BY <2>1, <2>3 DEF Resolving
<1>12. CASE BeginElse
  BY <1>12 DEF BeginElse, Returned, Resolving
<1>13. CASE EndWhile \/ EndIf \/ EndElse
  <2>1. Resolving /\ \E node : EndStmt(node)
    BY <1>13 DEF EndWhile, EndIf, EndElse, Returned
  <2>2. UNCHANGED <<phase, resolved_tree>> /\ ret' = <<>> /\ \E s, r, is_return : Resolved(s, r, is_return)
    BY <2>1 DEF EndStmt
  <2>3. result' \in {"none", "crashed"}
    BY <2>1, <2>2, <1>8
  <2> QED BY <2>1, <2>2, <2>3 DEF Resolving
<1>14. CASE UNCHANGED vars
  BY <1>1, <1>14 DEF vars, Clean
<1> QED BY <1>3, <1>4, <1>5, <1>6, <1>7, <1>9, <1>10, <1>11, <1>12, <1>13, <1>14 DEF Next

-----------------------------------------------------------------------------
(* The signatures.                                                          *)
LEMMA InitLInv == Init => LInv
<1> SUFFICES ASSUME Init PROVE LInv
  OBVIOUS
<1>1. /\ ast \in Programs /\ fn = 1 /\ phase = "declare" /\ scopes = <<<<println>>>> /\ error = FALSE
      /\ resolved_tree = <<>> /\ stack = <<>> /\ ret = <<>> /\ warned = {} /\ result = "none"
  BY DEF Init
<1>2. ~HasError(<<>>)
  BY DEF HasError
<1>3. Clean
  BY <1>1, <1>2, CleanMeans
<1>4. Ended
  <2>1. <<>> \in Seq({})
    OBVIOUS
  <2>2. \E S : resolved_tree \in Seq(S)
    BY <2>1, <1>1
  <2> QED BY <2>2, <1>1 DEF Ended
<1>5. Signed
  <2> DEFINE p == println
  <2>1. scopes = <<<<p>>>>
    BY <1>1
  <2> HIDE DEF p
  <2>2. DOMAIN scopes[1] = 1 .. 1 /\ scopes[1][1] = p
    BY <2>1
  <2> QED BY <2>2, <1>1 DEF Signed, p
<1> QED BY <1>1, <1>3, <1>4, <1>5 DEF LInv, Going

LEMMA OneScope ==
  ASSUME IInv, phase = "declare"
  PROVE  /\ stack = <<>> /\ ret = <<>> /\ Len(scopes) = 1 /\ scopes = <<scopes[1]>>
         /\ IsScope(scopes[1]) /\ Last(scopes) = scopes[1]
<1>1. stack = <<>> /\ ret = <<>>
  BY DEF IInv, Typed, InBody
<1>2. Len(scopes) = 1
  BY <1>1, NestedNothing DEF IInv, Balanced, InBody
<1>3. PICK S : scopes \in Seq(S) /\ \A scope \in S : IsScope(scope)
  BY DEF IInv, Balanced, Scoped
<1>4. scopes[1] \in S /\ scopes \in [1 .. 1 -> S]
  <2>1. scopes \in [1 .. Len(scopes) -> S]
    BY <1>3, LenProperties
  <2>2. scopes \in [1 .. 1 -> S]
    BY <2>1, <1>2
  <2> QED BY <2>2
<1>5. scopes = <<scopes[1]>>
  <2> DEFINE e == scopes[1]
  <2>1. DOMAIN scopes = 1 .. 1 /\ scopes[1] = e
    BY <1>4
  <2> HIDE DEF e
  <2>2. scopes = <<e>>
    BY <2>1, <1>2, <1>3
  <2> QED BY <2>2 DEF e
<1>6. Last(scopes) = scopes[1]
  BY <1>2 DEF Last
<1> QED BY <1>1, <1>2, <1>3, <1>4, <1>5, <1>6

LEMMA BadIsIllTyped ==
  ASSUME NEW p \in Programs, NEW i \in DOMAIN p, BadSignature(p[i])
  PROVE  ~WellTypedSignature(p, i)
<1> DEFINE f == p[i]
<1>1. SUFFICES ASSUME WellTypedSignature(p, i) PROVE FALSE
  OBVIOUS
<1>2. /\ f.type.kind # "custom" /\ (f.identifier = "main" => f.type.kind = "void" /\ f.params = <<>>)
      /\ \A k \in DOMAIN f.params : /\ f.params[k].type.kind \notin {"void", "custom"}
                                    /\ ParamsNamed(p, i, f.params[k].identifier) = {k}
  BY <1>1 DEF WellTypedSignature
<1>3. BadParams(f.params)
  BY <1>2 DEF BadSignature, BadMain, Invalid
<1>4. PICK k \in DOMAIN f.params :
        \/ Invalid(f.params[k].type) \/ f.params[k].type.kind = "void"
        \/ \E j \in 1 .. (k - 1) : f.params[j].identifier = f.params[k].identifier
  BY <1>3 DEF BadParams
<1>5. PICK j \in 1 .. (k - 1) : f.params[j].identifier = f.params[k].identifier
  BY <1>2, <1>4 DEF Invalid
<1>6. k \in 1 .. Len(f.params) /\ DOMAIN f.params = 1 .. Len(f.params) /\ Len(f.params) \in Nat
  BY ProgramsAssumption DEF Listed
<1>7. j \in DOMAIN f.params /\ j # k
  BY <1>6
<1>8. j \in ParamsNamed(p, i, f.params[k].identifier)
  BY <1>5, <1>7 DEF ParamsNamed
<1> QED BY <1>2, <1>7, <1>8

LEMMA GoodIsWellTyped ==
  ASSUME NEW p \in Programs, NEW i \in DOMAIN p, ~BadSignature(p[i]),
         p[i].identifier # "println", FunctionsNamed(p, p[i].identifier) = {i}
  PROVE  WellTypedSignature(p, i)
<1> DEFINE f == p[i]
<1>1. /\ f.type.kind # "custom" /\ (f.identifier = "main" => f.type.kind = "void" /\ f.params = <<>>)
      /\ ~BadParams(f.params)
  BY DEF BadSignature, BadMain, Invalid
<1>2. ASSUME NEW k \in DOMAIN f.params
      PROVE  f.params[k].type.kind \notin {"void", "custom"} /\ ParamsNamed(p, i, f.params[k].identifier) = {k}
  <2>1. /\ f.params[k].type.kind \notin {"void", "custom"}
        /\ \A m \in DOMAIN f.params : \A j \in 1 .. (m - 1) : f.params[j].identifier # f.params[m].identifier
    BY <1>1 DEF BadParams, Invalid
  <2>2. DOMAIN f.params = 1 .. Len(f.params) /\ Len(f.params) \in Nat
    BY ProgramsAssumption DEF Listed
  <2>3. ASSUME NEW m \in DOMAIN f.params, f.params[m].identifier = f.params[k].identifier PROVE m = k
    <3>1. m \notin 1 .. (k - 1) /\ k \notin 1 .. (m - 1)
      BY <2>1, <2>3
    <3> HIDE DEF f
    <3>2. m \in Nat \ {0} /\ k \in Nat \ {0}
      BY <2>2
    <3> QED BY <3>1, <3>2
  <2> QED BY <2>1, <2>3 DEF ParamsNamed
<1> QED BY <1>1, <1>2 DEF WellTypedSignature

LEMMA DeclareFunctionGoes ==
  ASSUME IInv, LInv, Clean, DeclareFunction
  PROVE  (Clean' => Going') /\ (~Clean' => Faulty')
<1> DEFINE f == ast[fn]
           d == FnName(f.identifier, f.type.kind = "void", Len(f.params))
           s == scopes[1]
           c == Append(s, d)
           bad == BadSignature(f) \/ Redeclared(scopes, f.identifier)
<1>1. /\ phase = "declare" /\ fn \in 1 .. Len(ast) /\ fn' = fn + 1
      /\ UNCHANGED <<ast, phase, stack, ret, resolved_tree, warned>>
      /\ error' = (error \/ bad) /\ scopes' = IF bad THEN scopes ELSE Insert(scopes, d)
      /\ fn \in DOMAIN ast /\ fn \in Nat \ {0} /\ DOMAIN ast = 1 .. Len(ast) /\ ast \in Programs
  <2>1. fn \in 1 .. Len(ast) + 1 /\ Len(ast) \in Nat /\ DOMAIN ast = 1 .. Len(ast) /\ ast \in Programs
    BY Lengths DEF IInv, Typed
  <2>2. phase = "declare" /\ fn <= Len(ast)
    BY DEF DeclareFunction
  <2> QED BY <2>1, <2>2 DEF DeclareFunction
<1>2. /\ stack = <<>> /\ ret = <<>> /\ Len(scopes) = 1 /\ scopes = <<s>> /\ IsScope(s) /\ Last(scopes) = s
  BY <1>1, OneScope
<1>3. Signed
  BY <1>1 DEF LInv, Going
<1>4. Clean' <=> ~bad
  <2>1. ~error
    BY CleanMeans
  <2>2. ~HasError(<<>>)
    BY DEF HasError
  <2>3. Clean' <=> ~error'
    BY <1>1, <1>2 DEF Clean
  <2> HIDE DEF bad
  <2> QED BY <2>1, <2>3, <1>1
<1>5. ASSUME bad PROVE Faulty'
  <2>1. ~WellTypedSignature(ast, fn)
    <3>1. CASE BadSignature(f)
      BY <3>1, <1>1, BadIsIllTyped
    <3>2. CASE Redeclared(scopes, f.identifier)
      <4>1. PICK j \in 1 .. fn : s[j].identifier = f.identifier
        BY <3>2, <1>2, <1>3 DEF Redeclared, Named, Signed
      <4>2. CASE j = 1
        <5>1. f.identifier = "println"
          BY <4>1, <4>2, <1>3 DEF Signed, println, FnName
        <5> QED BY <5>1 DEF WellTypedSignature
      <4>3. CASE j # 1
        <5>1. j - 1 \in 1 .. fn - 1 /\ (j - 1) + 1 = j
          BY <4>3, <1>1
        <5>2. s[j] = Function(ast[j - 1])
          BY <5>1, <1>3 DEF Signed
        <5>3. ast[j - 1].identifier = f.identifier
          BY <4>1, <5>2 DEF Function, FnName
        <5>4. j - 1 \in DOMAIN ast /\ j - 1 # fn
          BY <5>1, <1>1
        <5>5. j - 1 \in FunctionsNamed(ast, f.identifier)
          BY <5>3, <5>4 DEF FunctionsNamed
        <5> QED BY <5>4, <5>5 DEF WellTypedSignature
      <4> QED BY <4>2, <4>3
    <3> QED BY <3>1, <3>2, <1>5
  <2> QED BY <2>1, <1>1 DEF Faulty, WellTyped, WellTypedSignatures
<1>6. ASSUME ~bad PROVE Signed'
  <2>1. scopes' = Insert(scopes, d) /\ ~BadSignature(f)
    BY <1>1, <1>6
  <2>2. PICK D : s \in Seq(D)
    BY <1>2 DEF IsScope
  <2>3. Len(s) = fn
    <3>1. DOMAIN s = 1 .. Len(s) /\ DOMAIN s = 1 .. fn /\ Len(s) \in Nat /\ fn \in Nat
      BY <2>2, <1>1, <1>3, LenProperties DEF Signed
    <3> DEFINE k == Len(s)
    <3> HIDE DEF k, s
    <3>2. 1 .. k = 1 .. fn /\ k \in Nat /\ fn \in Nat
      BY <3>1 DEF k
    <3>3. k <= fn
      <4>1. k # 0 => k \in 1 .. fn
        BY <3>2
      <4> QED BY <4>1, <3>2
    <3>4. fn <= k
      <4>1. fn # 0 => fn \in 1 .. k
        BY <3>2
      <4> QED BY <4>1, <3>2
    <3> QED BY <3>2, <3>3, <3>4 DEF k
  <2>4. /\ DOMAIN c = 1 .. fn + 1 /\ c[fn + 1] = d
        /\ \A n \in 1 .. fn : c[n] = s[n]
    BY <2>2, <2>3, AppendKeeps
  <2>5. scopes'[1] = c
    <3> HIDE DEF c
    <3>1. Front(scopes) = <<>>
      BY <1>2 DEF Front
    <3>2. scopes' = <<>> \o <<c>>
      BY <2>1, <3>1, <1>2 DEF Insert, c
    <3> QED BY <3>2
  <2>6. d = Function(f)
    BY DEF Function
  <2> HIDE DEF c, d, s
  <2>7. ASSUME NEW i \in 1 .. fn' - 1 PROVE ~BadSignature(ast'[i]) /\ scopes'[1][i + 1] = Function(ast'[i])
    <3>1. CASE i = fn
      BY <3>1, <2>1, <2>4, <2>5, <2>6, <1>1
    <3>2. CASE i # fn
      <4>1. i \in 1 .. fn - 1 /\ i + 1 \in 1 .. fn
        BY <3>2, <1>1
      <4> QED BY <4>1, <2>4, <2>5, <1>1, <1>3 DEF Signed, s
    <3> QED BY <3>1, <3>2
  <2>8. DOMAIN scopes'[1] = 1 .. fn' /\ scopes'[1][1] = println
    <3>1. 1 \in 1 .. fn
      BY <1>1
    <3> QED BY <3>1, <2>4, <2>5, <1>1, <1>3 DEF Signed, s
  <2> QED BY <2>7, <2>8, <1>1, <1>3 DEF Signed
<1> QED BY <1>1, <1>4, <1>5, <1>6 DEF Going

LEMMA GlobalsDeclared ==
  ASSUME NEW p \in Programs, NEW s, IsScope(s), NEW D, s \in Seq(D),
         DOMAIN s = 1 .. Len(p) + 1, s[1] = println,
         \A i \in DOMAIN p : s[i + 1] = Function(p[i]) /\ ~BadSignature(p[i])
  PROVE  s = Globals(p) /\ WellTypedSignatures(p)
<1>1. Listed(p)
  BY ProgramsAssumption
<1>2. Len(p) \in Nat /\ DOMAIN p = 1 .. Len(p)
  BY <1>1 DEF Listed
<1>3. /\ \E S : Globals(p) \in Seq(S)
      /\ DOMAIN Globals(p) = 1 .. Len(p) + 1 /\ Globals(p)[1] = println
      /\ \A i \in DOMAIN p : Globals(p)[i + 1] = Function(p[i])
  BY <1>1, GlobalList
<1>4. s = Globals(p)
  <2> DEFINE g == Globals(p)
             len == Len(p)
  <2>1. \A i \in 1 .. len + 1 : s[i] = g[i]
    <3> SUFFICES ASSUME NEW i \in 1 .. len + 1 PROVE s[i] = g[i]
      OBVIOUS
    <3>1. CASE i = 1
      BY <3>1, <1>3
    <3>2. CASE i # 1
      <4>1. i - 1 \in 1 .. len /\ (i - 1) + 1 = i
        BY <3>2, <1>2
      <4>2. i - 1 \in DOMAIN p
        BY <4>1, <1>2
      <4>3. s[(i - 1) + 1] = g[(i - 1) + 1]
        BY <4>2, <1>3
      <4> QED BY <4>1, <4>3
    <3> QED BY <3>1, <3>2
  <2>2. PICK S : g \in Seq(S)
    BY <1>3
  <2>3. Len(s) = Len(g) /\ 1 .. Len(s) = 1 .. len + 1
    <3>1. DOMAIN s = 1 .. Len(s) /\ DOMAIN g = 1 .. Len(g) /\ Len(s) \in Nat /\ Len(g) \in Nat
      BY <2>2, LenProperties
    <3> DEFINE m == Len(s)
               k == Len(g)
    <3>2. 1 .. m = 1 .. k /\ m \in Nat /\ k \in Nat /\ 1 .. m = 1 .. len + 1
      BY <3>1, <1>3
    <3> HIDE DEF m, k, len, g
    <3>3. m = k
      BY <3>2
    <3> QED BY <3>2, <3>3 DEF m, k
  <2> HIDE DEF g, len
  <2>4. s \in Seq(D \cup S) /\ g \in Seq(D \cup S)
    BY <2>2, SeqMonotonic
  <2>5. s = g
    BY <2>1, <2>3, <2>4, SeqEqual
  <2> QED BY <2>5 DEF g
<1>5. ASSUME NEW i \in DOMAIN p PROVE WellTypedSignature(p, i)
  <2>0. ASSUME NEW j \in DOMAIN p PROVE s[j + 1].identifier = p[j].identifier
    <3> DEFINE f == p[j]
    <3>1. s[j + 1] = Function(f)
      OBVIOUS
    <3> HIDE DEF f
    <3>2. Function(f).identifier = f.identifier
      BY DEF Function, FnName
    <3> QED BY <3>1, <3>2 DEF f
  <2>1. s[i + 1].identifier = p[i].identifier /\ s[1].identifier = "println"
    <3>1. println.identifier = "println"
      BY DEF println, FnName
    <3> QED BY <3>1, <2>0
  <2>2. i + 1 \in DOMAIN s /\ 1 \in DOMAIN s /\ i + 1 # 1
    BY <1>2
  <2>3. p[i].identifier # "println"
    BY <2>1, <2>2 DEF IsScope, Distinct
  <2>4. ASSUME NEW j \in FunctionsNamed(p, p[i].identifier) PROVE j = i
    <3>1. j \in DOMAIN p /\ p[j].identifier = p[i].identifier
      BY DEF FunctionsNamed
    <3>2. s[j + 1].identifier = p[j].identifier
      BY <3>1, <2>0
    <3>3. j + 1 \in DOMAIN s
      BY <3>1, <1>2
    <3>4. j + 1 = i + 1
      BY <3>1, <3>2, <3>3, <2>1, <2>2 DEF IsScope, Distinct
    <3>5. i \in Nat /\ j \in Nat
      BY <3>1, <1>2
    <3> QED BY <3>4, <3>5
  <2>5. FunctionsNamed(p, p[i].identifier) = {i}
    BY <2>4 DEF FunctionsNamed
  <2> QED BY <2>3, <2>5, GoodIsWellTyped
<1> QED BY <1>4, <1>5 DEF WellTypedSignatures

LEMMA EmptyChain ==
  ASSUME NEW p, NEW w, NEW fun, NEW P
  PROVE  Chain(p, w, fun, <<>>, P)
<1>1. Len(<<>>) = 0
  OBVIOUS
<1> DEFINE s == <<>>
<1>2. Len(s) = 0 /\ s = <<>>
  OBVIOUS
<1> HIDE DEF s
<1>3. 1 .. Len(s) = {} /\ 1 .. Len(s) - 1 = {} /\ 1 .. Len(s) - 2 = {}
  BY <1>2
<1>4. Chain(p, w, fun, s, P)
  BY <1>2, <1>3 DEF Chain
<1> QED BY <1>4 DEF s

LEMMA EndDeclarationsGoes ==
  ASSUME IInv, LInv, Clean, EndDeclarations
  PROVE  (Clean' => Going') /\ (~Clean' => Faulty')
<1>1. ~error
  BY CleanMeans
<1>2. /\ phase = "declare" /\ fn = Len(ast) + 1 /\ fn' = 1 /\ phase' = "resolve" /\ result' = result
      /\ UNCHANGED <<ast, scopes, error, resolved_tree, stack, ret, warned>>
  BY <1>1 DEF EndDeclarations
<1>3. Signed /\ ast \in Programs /\ Len(ast) \in Nat /\ DOMAIN ast = 1 .. Len(ast)
  BY <1>2, Lengths DEF LInv, Going, IInv, Typed
<1>4. /\ stack = <<>> /\ ret = <<>> /\ scopes = <<scopes[1]>> /\ IsScope(scopes[1])
  BY <1>2, OneScope
<1>5. Clean'
  BY <1>2 DEF Clean
<1>6. scopes[1] = Globals(ast) /\ WellTypedSignatures(ast)
  <2>1. PICK D : scopes[1] \in Seq(D)
    BY <1>4 DEF IsScope
  <2>2. 1 .. fn - 1 = DOMAIN ast
    BY <1>2, <1>3
  <2> QED BY <2>1, <2>2, <1>2, <1>3, <1>4, GlobalsDeclared DEF Signed
<1>7. Done(ast', warned', fn', resolved_tree', {})
  <2>1. 1 .. fn' - 1 = {} /\ Len(resolved_tree') = fn' - 1
    BY <1>2, <1>3 DEF Signed
  <2> QED BY <2>1, <1>2, <1>3, <1>6 DEF Done, FinishedOK, WarningsOK, Signed
<1>8. Chain(ast', warned', fn', stack', {})
  BY <1>2, <1>4, EmptyChain
<1>9. Position(ast', fn', scopes', stack', ret', {})
  <2>1. scopes' = <<Globals(ast')>>
    BY <1>2, <1>4, <1>6
  <2> QED BY <2>1, <1>2, <1>4 DEF Position, AtBlock
<1>10. Going'
  BY <1>2, <1>7, <1>8, <1>9 DEF Going, Resolves
<1> QED BY <1>5, <1>10

LEMMA EndProgramGoes ==
  ASSUME IInv, LInv, Clean, EndProgram
  PROVE  (Clean' => Going') /\ (~Clean' => Faulty')
<1>1. /\ phase = "resolve" /\ phase' = "done"
      /\ UNCHANGED <<ast, fn, scopes, error, resolved_tree, stack, ret, warned>>
  BY DEF EndProgram, Resolving
<1>2. Clean'
  BY <1>1 DEF Clean
<1>3. PICK P : Resolves(P)
  BY <1>1 DEF LInv, Going
<1>4. Resolves(P)'
  BY <1>1, <1>3 DEF Resolves
<1> QED BY <1>1, <1>2, <1>4 DEF Going

-----------------------------------------------------------------------------
(* The bodies.                                                              *)
LEMMA FirstPlace ==
  ASSUME NEW f \in Nat, NEW at, at = <<<<f, 1>>>>
  PROVE  IsPlace(at) /\ Len(at) = 1 /\ at[1][1] = f /\ DOMAIN at = 1 .. 1
<1> DEFINE b == <<f, 1>>
           S == Nat \X Nat
<1>1. b \in S /\ b[1] = f /\ at = <<b>>
  OBVIOUS
<1> HIDE DEF b, S
<1>2. at \in Seq(S) /\ at # <<>> /\ Len(at) = 1 /\ at[1] = b /\ DOMAIN at = 1 .. 1
  BY <1>1
<1> QED BY <1>1, <1>2 DEF IsPlace, S

LEMMA FreshBlock ==
  ASSUME NEW p \in Programs, NEW w, NEW fun, NEW P, NEW at \in Blocks(p), IsPlace(at), at[1][1] = fun,
         NEW f, f = Block(at, Stmts(p, at))
  PROVE  BlockOK(p, w, fun, f, P) /\ f.k = "block" /\ f.at = at /\ f.n = 1 /\ f.error = FALSE
<1>1. /\ f.k = "block" /\ f.at = at /\ f.n = 1 /\ f.error = FALSE /\ f.unreachable_count = 0
      /\ f.stmts = Stmts(p, at) /\ f.done = <<>>
      /\ DOMAIN f = {"k", "at", "stmts", "n", "done", "error", "unreachable_count"}
  BY DEF Block
<1>2. Len(f.stmts) \in Nat
  BY <1>1, BlocksAssumption DEF Listed
<1>3. 1 \in 1 .. Len(f.stmts) + 1
  <2> DEFINE len == Len(f.stmts)
  <2>1. len \in Nat
    BY <1>2
  <2> HIDE DEF len
  <2>2. 1 \in 1 .. len + 1
    BY <2>1
  <2> QED BY <2>2 DEF len
<1>4. 1 .. f.n - 1 = {}
  BY <1>1
<1>5. ~Behind(p, at, f.n)
  BY <1>1 DEF Behind
<1>6. f.done = [n \in 1 .. f.n - 1 |-> ElaboratedStmt(p, at, n)]
  BY <1>1, <1>4
<1> QED BY <1>1, <1>3, <1>4, <1>5, <1>6 DEF BlockOK

LEMMA InBegins ==
  ASSUME NEW p, NEW f \in Nat, NEW at, at = <<<<f, 1>>>>,
         NEW scps, scps = <<Globals(p)>> \o <<Parameters(p, f), <<>>>>
  PROVE  In(p, scps, at, 1) /\ SoundAt(p, at, 1)
<1> DEFINE g == Globals(p)
           a == Parameters(p, f)
           e == <<>>
<1>1. IsPlace(at) /\ Len(at) = 1 /\ at[1][1] = f /\ DOMAIN at = 1 .. 1
  BY FirstPlace
<1>2. Index(at, 1, 1) = 1
  BY <1>1 DEF Index
<1>3. \A b : Declarations(p, b, 1) = {} /\ Locals(p, b, 1) = {}
  BY DEF Declarations, Locals
<1>4. e \in Listings({})
  BY EmptyListing
<1>5. scps = <<g>> \o <<a, e>>
  OBVIOUS
<1> HIDE DEF g, a, e
<1>6. /\ scps \in Seq({g, a, e}) /\ Len(scps) = 3
      /\ scps[1] = g /\ scps[2] = a /\ scps[3] = e
  BY <1>5
<1>7. In(p, scps, at, 1)
  <2>1. \A d \in 1 .. Len(at) : scps[d + 2] \in Listings(Locals(p, Around(at, d), Index(at, 1, d)))
    <3>1. \A d \in 1 .. Len(at) : d = 1 /\ d + 2 = 3
      BY <1>1
    <3> QED BY <3>1, <1>2, <1>3, <1>4, <1>6
  <2>2. scps[1] = Globals(p) /\ scps[2] = Parameters(p, at[1][1]) /\ Len(scps) = Len(at) + 2
    BY <1>1, <1>6 DEF g, a
  <2>3. \E S : scps \in Seq(S)
    BY <1>6
  <2> QED BY <2>1, <2>2, <2>3 DEF In
<1>8. SoundAt(p, at, 1)
  BY <1>1, <1>2, <1>3 DEF SoundAt
<1> QED BY <1>7, <1>8

LEMMA BeginBodyGoes ==
  ASSUME IInv, LInv, Clean, BeginBody
  PROVE  (Clean' => Going') /\ (~Clean' => Faulty')
<1> DEFINE at == <<<<fn, 1>>>>
           b == Block(at, cur.body)
           params == [n \in DOMAIN cur.params |-> DeclName(cur.params[n].identifier, Params(fn)[n])]
<1>1. /\ phase = "resolve" /\ stack = <<>> /\ ret = <<>> /\ fn <= Len(ast)
      /\ scopes' = scopes \o <<params, <<>>>> /\ stack' = <<b>>
      /\ UNCHANGED <<ast, fn, phase, error, resolved_tree, ret, warned>>
  BY DEF BeginBody, Resolving
<1>2. ast \in Programs /\ fn \in Nat /\ fn \in DOMAIN ast
  BY <1>1, Lengths DEF IInv, Typed
<1>3. PICK P : Resolves(P)
  BY <1>1 DEF LInv, Going
<1>4. scopes = <<Globals(ast)>>
  BY <1>1, <1>3 DEF Resolves, Position
<1>5. params = Parameters(ast, fn)
  BY DEF Parameters, Parameter, Params, cur
<1>6. In(ast, scopes', at, 1) /\ SoundAt(ast, at, 1)
  BY <1>1, <1>2, <1>4, <1>5, InBegins
<1>7. at \in Blocks(ast) /\ cur.body = Stmts(ast, at)
  BY <1>2, BlocksAssumption DEF cur
<1>8. IsPlace(at) /\ at[1][1] = fn
  BY <1>2, FirstPlace
<1>9. BlockOK(ast, warned, fn, b, P) /\ b.k = "block" /\ b.at = at /\ b.n = 1 /\ b.error = FALSE
  <2>1. b = Block(at, Stmts(ast, at))
    BY <1>7
  <2> HIDE DEF b, at
  <2>2. ast \in Programs /\ at \in Blocks(ast) /\ IsPlace(at) /\ at[1][1] = fn
    BY <1>2, <1>7, <1>8
  <2>3. BlockOK(ast, warned, fn, b, P)
    BY <2>1, <2>2, FreshBlock
  <2>4. b.k = "block" /\ b.at = at /\ b.n = 1 /\ b.error = FALSE
    BY <2>1 DEF Block
  <2> QED BY <2>3, <2>4
<1> DEFINE e == <<>>
<1>10. e = <<>> /\ Nested(e) /\ ~AtBlock(e) /\ Chain(ast, warned, fn, e, P) /\ e \in Seq({})
  BY NestedNothing, EmptyChain
<1>11. stack' = Append(e, b) /\ Len(stack') = 1 /\ stack'[1] = b /\ AtBlock(stack') /\ stack' # <<>>
  BY <1>1, <1>9 DEF AtBlock
<1>12. at = <<<<fn, 1>>>>
  OBVIOUS
<1> HIDE DEF b, e, at
<1>13. Chain(ast, warned, fn, Append(e, b), P)
  <2>1. Fits(ast, warned, fn, e, b, P)
    BY <1>9, <1>10, <1>12 DEF Fits
  <2> QED BY <2>1, <1>9, <1>10, ChainPush
<1>14. Position(ast, fn, scopes', stack', ret, P)
  BY <1>6, <1>9, <1>11 DEF Position, Here
<1>15. Resolves(P)'
  BY <1>1, <1>3, <1>11, <1>13, <1>14 DEF Resolves
<1>16. ~HasError(Append(e, b))
  <2>1. ~HasError(e)
    BY <1>10 DEF HasError
  <2> QED BY <2>1, <1>9, <1>10, ErrorPush
<1>17. Clean'
  <2>1. ~HasError(stack)'
    BY <1>11, <1>16 DEF HasError
  <2> QED BY <2>1, <1>1, CleanMeans DEF Clean, HasError
<1> QED BY <1>1, <1>15, <1>17 DEF Going

LEMMA EndBodyGoes ==
  ASSUME IInv, LInv, Clean, EndBody
  PROVE  (Clean' => Going') /\ (~Clean' => Faulty')
<1> DEFINE f == Tree!function_decl(cur.identifier, cur.type.kind = "void",
                              [n \in DOMAIN cur.params |-> Params(fn)[n].name], ret[1].e)
           at == <<<<fn, 1>>>>
           len == Len(resolved_tree)
           bad == FlowErrors(f)
<1>1. /\ phase = "resolve" /\ stack = <<>> /\ ret # <<>> /\ ret[1].is = "ok"
      /\ scopes' = Front(scopes) /\ ret' = <<>> /\ fn' = fn + 1
      /\ UNCHANGED <<ast, phase, stack, warned>>
  BY CleanMeans DEF EndBody, Resolving
<1>2. error' = (error \/ bad) /\ resolved_tree' = Append(resolved_tree, f)
  BY <1>1 DEF EndBody
<1>3. ast \in Programs /\ fn \in Nat /\ fn \in DOMAIN ast
  BY <1>1, Lengths DEF IInv, Typed, InBody
<1>4. PICK P : Resolves(P)
  BY <1>1 DEF LInv, Going
<1>5. /\ at \in P /\ scopes[1] = Globals(ast) /\ (WellTyped(ast) => ret[1].e = Elaborated(ast, at))
  BY <1>1, <1>4 DEF Resolves, Position
<1>6. WellTyped(ast) => f = ElaboratedFunction(ast, fn)
  <2>1. \A n \in DOMAIN cur.params : Params(fn)[n].name = <<fn, 0, n>>
    BY DEF Params, Tree!param_decl, cur
  <2> QED BY <2>1, <1>5 DEF ElaboratedFunction, cur
<1> HIDE DEF f, at
<1>7. PICK S : resolved_tree \in Seq(S)
  BY DEF LInv, Ended
<1>8. /\ len = fn - 1 /\ DOMAIN resolved_tree' = 1 .. len + 1 /\ resolved_tree'[len + 1] = f
      /\ \A i \in 1 .. len : resolved_tree'[i] = resolved_tree[i]
      /\ Len(resolved_tree') = len + 1
  BY <1>2, <1>4, <1>7, AppendKeeps DEF Resolves, Done
<1>9. len + 1 = fn /\ fn' - 1 = fn /\ Len(resolved_tree') = fn
  BY <1>1, <1>3, <1>8
<1>10. ~error
  BY CleanMeans
<1>11. CASE ~bad
  <2>1. Done(ast, warned, fn', resolved_tree', P)
    <3>1. /\ WellTypedSignatures(ast) /\ FinishedOK(ast, warned, P) /\ WarningsOK(ast, warned)
          /\ \A i \in 1 .. fn - 1 : <<<<i, 1>>>> \in P /\ ~FlowErrors(resolved_tree[i])
          /\ WellTyped(ast) => \A i \in 1 .. fn - 1 : resolved_tree[i] = ElaboratedFunction(ast, i)
      BY <1>4 DEF Resolves, Done
    <3> HIDE DEF len
    <3>2. ASSUME NEW i \in 1 .. fn' - 1 PROVE i = fn \/ i \in 1 .. fn - 1
      BY <1>3, <1>9
    <3>3. \A i \in 1 .. fn - 1 : resolved_tree'[i] = resolved_tree[i]
      BY <1>8
    <3>4. resolved_tree'[fn] = f
      BY <1>8, <1>9
    <3>5. \A i \in 1 .. fn' - 1 : <<<<i, 1>>>> \in P /\ ~FlowErrors(resolved_tree'[i])
      BY <3>1, <3>2, <3>3, <3>4, <1>5, <1>11 DEF at
    <3>6. WellTyped(ast) => \A i \in 1 .. fn' - 1 : resolved_tree'[i] = ElaboratedFunction(ast, i)
      BY <3>1, <3>2, <3>3, <3>4, <1>6
    <3> QED BY <3>1, <3>5, <3>6, <1>9 DEF Done
  <2>2. Chain(ast, warned, fn', stack', P)
    BY <1>1, EmptyChain
  <2>3. scopes' = <<Globals(ast)>>
    <3>1. Len(scopes) = 2
      BY <1>1, NestedNothing DEF IInv, Balanced, InBody
    <3>2. PICK T : scopes \in Seq(T)
      BY DEF IInv, Balanced, Scoped
    <3>3. /\ scopes' \in Seq(T) /\ Len(scopes') = 1 /\ scopes'[1] = scopes[1]
      <4>1. scopes # <<>> /\ scopes' = SubSeq(scopes, 1, Len(scopes) - 1)
        BY <3>1, <1>1 DEF Front
      <4> QED BY <3>1, <3>2, <4>1, FrontKeeps
    <3> DEFINE g == Globals(ast)
    <3>4. scopes'[1] = g
      BY <3>3, <1>5
    <3> HIDE DEF g
    <3>5. scopes' = <<g>>
      BY <3>3, <3>4
    <3> QED BY <3>5 DEF g
  <2>4. Position(ast, fn', scopes', stack', ret', P)
    BY <2>3, <1>1 DEF Position, AtBlock
  <2>5. Resolves(P)'
    BY <2>1, <2>2, <2>4, <1>1 DEF Resolves
  <2>6. Clean'
    <3> HIDE DEF bad
    <3>1. ~error'
      BY <1>2, <1>10, <1>11
    <3> QED BY <3>1, <1>1 DEF Clean
  <2> QED BY <2>5, <2>6, <1>1 DEF Going
<1>12. CASE bad
  <2>1. len + 1 \in DOMAIN resolved_tree'
    BY <1>3, <1>8, <1>9
  <2>2. Faulty'
    BY <2>1, <1>8, <1>12 DEF Faulty
  <2>3. error'
    <3> HIDE DEF bad
    <3> QED BY <1>2, <1>12
  <2> QED BY <2>2, <2>3 DEF Clean
<1> QED BY <1>11, <1>12

-----------------------------------------------------------------------------
(* The statements.                                                          *)
LEMMA AtStatement ==
  ASSUME IInv, NEW P, Resolves(P), NEW kinds, AtStmt(kinds), NEW f, f = Top
  PROVE  /\ phase = "resolve" /\ result = "none" /\ ret = <<>> /\ stack # <<>>
         /\ Nested(stack) /\ AtBlock(stack) /\ f = stack[Len(stack)] /\ f.k = "block"
         /\ BlockOK(ast, warned, fn, f, P) /\ f.n \in 1 .. Len(f.stmts)
         /\ Located(ast, scopes, f.at, f.n)
         /\ stmt = Stmts(ast, f.at)[f.n] /\ stmt.k \in kinds
         /\ ast[f.at[1][1]] = cur
<1>1. /\ phase = "resolve" /\ result = "none" /\ ret = <<>> /\ stack # <<>>
      /\ f.n <= Len(f.stmts) /\ stmt = f.stmts[f.n] /\ stmt.k \in kinds
  BY DEF AtStmt, Resolving, stmt
<1>2. Nested(stack) /\ AtBlock(stack) /\ f = stack[Len(stack)] /\ f.k = "block"
  BY <1>1 DEF IInv, Balanced, AtBlock, Top
<1>3. BlockOK(ast, warned, fn, f, P)
  <2>1. Len(stack) \in 1 .. Len(stack)
    <3>1. PICK S : stack \in Seq(S)
      BY <1>2 DEF Nested
    <3> DEFINE len == Len(stack)
    <3>2. len \in Nat \ {0}
      BY <1>1, <3>1, FrontKeeps
    <3> HIDE DEF len
    <3>3. len \in 1 .. len
      BY <3>2
    <3> QED BY <3>3 DEF len
  <2> QED BY <2>1, <1>2 DEF Resolves, Chain
<1>4. /\ f.at \in Blocks(ast) /\ IsPlace(f.at) /\ f.at[1][1] = fn /\ f.stmts = Stmts(ast, f.at)
      /\ f.n \in 1 .. Len(f.stmts) + 1
  BY <1>3 DEF BlockOK
<1>5. ast \in Programs /\ fn \in DOMAIN ast
  BY <1>1 DEF IInv, Typed, InBody
<1>6. Len(f.stmts) \in Nat /\ DOMAIN f.stmts = 1 .. Len(f.stmts)
  BY <1>4, <1>5, BlocksAssumption DEF Listed
<1>7. f.n \in 1 .. Len(f.stmts) /\ f.n \in Nat \ {0}
  <2> DEFINE n == f.n
             len == Len(f.stmts)
  <2>1. n \in 1 .. len + 1 /\ len \in Nat /\ n <= len
    BY <1>1, <1>4, <1>6
  <2> HIDE DEF n, len
  <2>2. n \in 1 .. len /\ n \in Nat \ {0}
    BY <2>1
  <2> QED BY <2>2 DEF n, len
<1>8. Here(ast, scopes, f)
  BY <1>2 DEF Resolves, Position
<1>9. WellTypedSignatures(ast)
  BY DEF Resolves, Done
<1>10. Located(ast, scopes, f.at, f.n)
  BY <1>4, <1>5, <1>6, <1>7, <1>8, <1>9 DEF Located, Here
<1>11. ast[f.at[1][1]] = cur
  BY <1>4 DEF cur
<1> QED BY <1>1, <1>2, <1>3, <1>4, <1>7, <1>10, <1>11

LEMMA DoneGrows ==
  ASSUME NEW p, NEW w, NEW fun, NEW tree, NEW P, Done(p, w, fun, tree, P),
         NEW v, w \subseteq v, WarningsOK(p, w) => WarningsOK(p, v)
  PROVE  Done(p, v, fun, tree, P)
<1>1. FinishedOK(p, v, P)
  BY DEF Done, FinishedOK, Warned
<1> QED BY <1>1 DEF Done

(* A chain past the statement at its top.                                   *)
Advancing(p, w, fun, P, s, f, r, is_return) ==
  /\ p \in Programs /\ Nested(s) /\ AtBlock(s) /\ Chain(p, w, fun, s, P)
  /\ f = s[Len(s)] /\ f.n \in 1 .. Len(f.stmts) /\ Passed(p, f.at, f.n, P)
  /\ r.is = "ok" /\ (WellTyped(p) => r.e = ElaboratedStmt(p, f.at, f.n))
  /\ is_return \in BOOLEAN /\ (is_return <=> f.stmts[f.n].k = "return")

LEMMA Advances ==
  ASSUME NEW p, NEW fun, NEW P, NEW s, NEW f, NEW r, NEW is_return,
         Advancing(p, warned, fun, P, s, f, r, is_return), Resolved(s, r, is_return)
  PROVE  /\ Chain(p, warned', fun, stack', P) /\ Nested(stack') /\ AtBlock(stack') /\ stack' # <<>>
         /\ warned \subseteq warned' /\ (WarningsOK(p, warned) => WarningsOK(p, warned'))
         /\ stack'[Len(stack')].at = f.at /\ stack'[Len(stack')].n = f.n + 1
         /\ UNCHANGED result
<1> DEFINE b == SubSeq(s, 1, Len(s) - 1)
           g == After(f, r, is_return)
<1>0. /\ p \in Programs /\ Nested(s) /\ AtBlock(s) /\ Chain(p, warned, fun, s, P)
      /\ f = s[Len(s)] /\ f.n \in 1 .. Len(f.stmts) /\ Passed(p, f.at, f.n, P)
      /\ r.is = "ok" /\ (WellTyped(p) => r.e = ElaboratedStmt(p, f.at, f.n))
      /\ is_return \in BOOLEAN /\ (is_return <=> f.stmts[f.n].k = "return")
  BY DEF Advancing
<1> USE <1>0
<1>1. /\ stack' = Append(b, g) /\ UNCHANGED result
      /\ warned' = IF Warns(f, r) THEN warned \cup {<<f.at, f.n>>} ELSE warned
  BY DEF Resolved, Front, Last
<1>2. s # <<>> /\ f.k = "block"
  BY DEF AtBlock
<1>3. Nested(b) /\ ~AtBlock(b) /\ Nested(stack') /\ AtBlock(stack') /\ stack' # <<>>
  BY <1>2, NestedPop, ResolvedKeeps
<1>4. Chain(p, warned, fun, b, P) /\ Fits(p, warned, fun, b, f, P)
  BY <1>2, ChainPop
<1>5. BlockOK(p, warned, fun, f, P) /\ f.at = IF b = <<>> THEN <<<<fun, 1>>>> ELSE Into(b[Len(b) - 1], b[Len(b)])
  BY <1>2, <1>4 DEF Fits
<1>6. /\ BlockOK(p, warned', fun, g, P)
      /\ g.k = "block" /\ g.at = f.at /\ g.n = f.n + 1
      /\ warned \subseteq warned' /\ (WarningsOK(p, warned) => WarningsOK(p, warned'))
  <2> DEFINE v == warned'
  <2>1. v = IF Warns(f, r) THEN warned \cup {<<f.at, f.n>>} ELSE warned
    BY <1>1
  <2> HIDE DEF v, b
  <2>2. BlockOK(p, v, fun, g, P)
    BY <2>1, <1>2, <1>5, BlockAdvances
  <2>3. g.k = "block" /\ g.at = f.at /\ g.n = f.n + 1
    <3>1. DOMAIN f = DOMAIN g /\ {"k", "at", "n"} \subseteq DOMAIN f
      BY <1>5 DEF BlockOK, After
    <3> QED BY <3>1, <1>2 DEF After
  <2>4. warned \subseteq v /\ (WarningsOK(p, warned) => WarningsOK(p, v))
    BY <2>1, <1>2, <1>5, BlockAdvances
  <2> QED BY <2>2, <2>3, <2>4 DEF v
<1>7. PICK S : b \in Seq(S)
  BY <1>3 DEF Nested
<1> HIDE DEF b, g
<1>8. Chain(p, warned', fun, b, P)
  BY <1>4, <1>6, ChainGrows
<1>9. Fits(p, warned', fun, b, g, P)
  BY <1>5, <1>6 DEF Fits
<1>10. Chain(p, warned', fun, Append(b, g), P)
  BY <1>3, <1>6, <1>8, <1>9, ChainPush
<1>11. stack'[Len(stack')] = g
  BY <1>1, <1>7, AppendKeeps
<1> QED BY <1>1, <1>3, <1>6, <1>10, <1>11

LEMMA IllTyped ==
  ASSUME NEW p, NEW scps, NEW at, NEW n, Located(p, scps, at, n), ~WellTypedStmt(p, at, n)
  PROVE  ~WellTyped(p)
  BY DEF WellTyped, Located

LEMMA CleanAgain ==
  ASSUME ~error', ~HasError(stack'), ret' # <<>> => ret'[1].is = "ok"
  PROVE  Clean'
  BY DEF Clean, HasError

LEMMA StatementFails ==
  ASSUME IInv, Clean, NEW P, Resolves(P), NEW kinds, AtStmt(kinds), NEW f, f = Top,
         NEW r, NEW is_return, Resolved(stack, r, is_return),
         r.is \in {"null", "crash"}, r.is = "null" => ~WellTypedStmt(ast, f.at, f.n),
         UNCHANGED <<ast, fn, phase, scopes, error, resolved_tree, ret>>
  PROVE  (Clean' => Going') /\ (~Clean' => Faulty')
<1>1. /\ phase = "resolve" /\ result = "none" /\ ret = <<>> /\ stack # <<>>
      /\ Nested(stack) /\ AtBlock(stack) /\ Located(ast, scopes, f.at, f.n)
  BY AtStatement
<1>2. CASE r.is = "null"
  <2>1. HasError(stack')
    BY <1>1, <1>2, ErrorAfter
  <2>2. ~Clean'
    BY <2>1 DEF Clean, HasError
  <2>3. ~WellTyped(ast)
    BY <1>1, <1>2, IllTyped
  <2> QED BY <2>2, <2>3 DEF Faulty
<1>3. CASE r.is = "crash"
  <2>1. UNCHANGED <<stack, warned, scopes>>
    BY <1>3 DEF Resolved
  <2>2. Resolves(P)'
    BY <2>1 DEF Resolves
  <2>3. Clean'
    BY <2>1 DEF Clean
  <2> QED BY <2>2, <2>3, <1>1 DEF Going
<1> QED BY <1>2, <1>3

(* A clean statement that ends: past it, in error, or at the crash.         *)
LEMMA StatementGoes ==
  ASSUME IInv, Clean, NEW P, Resolves(P), NEW kinds, AtStmt(kinds), NEW f, f = Top,
         NEW r, NEW is_return \in BOOLEAN, Resolved(stack, r, is_return), Outcome(r, ast, f.at, f.n),
         Inner(stmt) = {}, is_return <=> stmt.k = "return",
         UNCHANGED <<ast, fn, phase, error, resolved_tree, ret>>,
         r.is # "ok" => UNCHANGED scopes,
         r.is = "ok" => In(ast, scopes', f.at, f.n + 1)
  PROVE  (Clean' => Going') /\ (~Clean' => Faulty')
<1>1. /\ phase = "resolve" /\ result = "none" /\ ret = <<>> /\ stack # <<>>
      /\ Nested(stack) /\ AtBlock(stack) /\ f = stack[Len(stack)] /\ f.k = "block"
      /\ BlockOK(ast, warned, fn, f, P) /\ f.n \in 1 .. Len(f.stmts)
      /\ Located(ast, scopes, f.at, f.n)
      /\ stmt = Stmts(ast, f.at)[f.n]
  BY AtStatement
<1>2. r.is \in {"ok", "null", "crash"} /\ ast \in Programs
  BY <1>1 DEF Outcome, Located
<1>3. CASE r.is = "ok"
  <2>1. WellTypedStmt(ast, f.at, f.n) /\ ~OverflowsAt(ast, f.at, f.n) /\ r.e = ElaboratedStmt(ast, f.at, f.n)
    BY <1>3 DEF Outcome
  <2>2. Passed(ast, f.at, f.n, P)
    BY <2>1, <1>1 DEF Passed
  <2>3. is_return <=> f.stmts[f.n].k = "return"
    BY <1>1 DEF BlockOK
  <2>4. /\ Chain(ast, warned', fn, stack', P) /\ Nested(stack') /\ AtBlock(stack') /\ stack' # <<>>
        /\ warned \subseteq warned' /\ (WarningsOK(ast, warned) => WarningsOK(ast, warned'))
        /\ stack'[Len(stack')].at = f.at /\ stack'[Len(stack')].n = f.n + 1
    <3>1. Advancing(ast, warned, fn, P, stack, f, r, is_return)
      BY <1>1, <1>2, <1>3, <2>1, <2>2, <2>3 DEF Resolves, Advancing
    <3> QED BY <3>1, Advances
  <2>5. Done(ast, warned', fn, resolved_tree, P)
    BY <2>4, DoneGrows DEF Resolves
  <2>6. SoundAt(ast, f.at, f.n + 1)
    BY <1>1, <2>1, SoundPasses DEF Located
  <2>7. Here(ast, scopes', stack'[Len(stack')])
    BY <1>3, <2>4, <2>6 DEF Here
  <2>8. Position(ast, fn, scopes', stack', ret, P)
    BY <2>4, <2>7 DEF Position
  <2>9. Resolves(P)'
    BY <2>4, <2>5, <2>8 DEF Resolves
  <2>10. Clean'
    BY <2>4, <1>1, ChainClean, CleanMeans, CleanAgain
  <2> QED BY <2>9, <2>10, <1>1 DEF Going
<1>4. CASE r.is # "ok"
  BY <1>2, <1>4, StatementFails DEF Outcome
<1> QED BY <1>3, <1>4

LEMMA SimpleGoes ==
  ASSUME IInv, LInv, Clean, ResolveExprStmt \/ ResolveReturn \/ ResolveAssignment
  PROVE  (Clean' => Going') /\ (~Clean' => Faulty')
<1> DEFINE f == Top
           expr == {"num", "ref", "call", "unop", "binop", "group"}
<1>1. UNCHANGED <<ast, fn, phase, scopes, error, resolved_tree, ret>>
  BY DEF ResolveExprStmt, ResolveReturn, ResolveAssignment
<1>2. phase = "resolve"
  BY DEF ResolveExprStmt, ResolveReturn, ResolveAssignment, AtStmt, Resolving
<1>3. PICK P : Resolves(P)
  BY <1>2 DEF LInv, Going
<1>4. SUFFICES \E kinds, r : \E is_return \in BOOLEAN :
                 /\ AtStmt(kinds) /\ "decl" \notin kinds /\ Inner(stmt) = {}
                 /\ Resolved(stack, r, is_return) /\ Outcome(r, ast, f.at, f.n)
                 /\ is_return <=> stmt.k = "return"
  <2>1. PICK kinds, r : \E is_return \in BOOLEAN :
                 /\ AtStmt(kinds) /\ "decl" \notin kinds /\ Inner(stmt) = {}
                 /\ Resolved(stack, r, is_return) /\ Outcome(r, ast, f.at, f.n)
                 /\ is_return <=> stmt.k = "return"
    BY <1>4
  <2>2. PICK is_return \in BOOLEAN :
                 /\ AtStmt(kinds) /\ "decl" \notin kinds /\ Inner(stmt) = {}
                 /\ Resolved(stack, r, is_return) /\ Outcome(r, ast, f.at, f.n)
                 /\ is_return <=> stmt.k = "return"
    BY <2>1
  <2>3. /\ Located(ast, scopes, f.at, f.n) /\ stmt = Stmts(ast, f.at)[f.n] /\ stmt.k \in kinds
    BY <1>3, <2>2, AtStatement
  <2>4. In(ast, scopes', f.at, f.n + 1)
    BY <1>1, <2>2, <2>3, InPasses DEF Located
  <2> HIDE DEF f
  <2>5. f = Top
    BY DEF f
  <2> QED BY <1>1, <1>3, <2>2, <2>4, <2>5, StatementGoes
<1>5. CASE ResolveExprStmt
  <2> DEFINE r == resolve_expr_stmt(ResolveExpr(scopes, stmt))
  <2>1. AtStmt(expr) /\ Resolved(stack, r, FALSE)
    BY <1>5 DEF ResolveExprStmt
  <2>2. /\ Located(ast, scopes, f.at, f.n) /\ stmt = Stmts(ast, f.at)[f.n] /\ stmt.k \in expr
    BY <1>3, <2>1, AtStatement
  <2>3. Outcome(r, ast, f.at, f.n)
    BY <2>2, ExprStmtOutcome
  <2>4. Inner(stmt) = {} /\ stmt.k # "return"
    BY <2>2 DEF Inner
  <2> QED BY <2>1, <2>3, <2>4
<1>6. CASE ResolveReturn
  <2> DEFINE r == resolve_return_stmt(stmt, cur.type.kind = "void")
  <2>1. AtStmt({"return"}) /\ Resolved(stack, r, TRUE)
    BY <1>6 DEF ResolveReturn
  <2>2. /\ Located(ast, scopes, f.at, f.n) /\ stmt = Stmts(ast, f.at)[f.n] /\ stmt.k = "return"
        /\ ast[f.at[1][1]] = cur
    BY <1>3, <2>1, AtStatement
  <2>3. Outcome(r, ast, f.at, f.n)
    BY <2>2, ReturnOutcome
  <2>4. Inner(stmt) = {}
    BY <2>2 DEF Inner
  <2> QED BY <2>1, <2>2, <2>3, <2>4
<1>7. CASE ResolveAssignment
  <2> DEFINE r == resolve_assignment(stmt)
  <2>1. AtStmt({"assign"}) /\ Resolved(stack, r, FALSE)
    BY <1>7 DEF ResolveAssignment
  <2>2. /\ Located(ast, scopes, f.at, f.n) /\ stmt = Stmts(ast, f.at)[f.n] /\ stmt.k = "assign"
    BY <1>3, <2>1, AtStatement
  <2>3. Outcome(r, ast, f.at, f.n)
    BY <2>2, AssignmentOutcome
  <2>4. Inner(stmt) = {} /\ stmt.k # "return"
    BY <2>2 DEF Inner
  <2> QED BY <2>1, <2>3, <2>4
<1> QED BY <1>5, <1>6, <1>7

LEMMA DeclGoes ==
  ASSUME IInv, LInv, Clean, ResolveDecl
  PROVE  (Clean' => Going') /\ (~Clean' => Faulty')
<1> DEFINE f == Top
           r == resolve_decl_stmt(stmt, resolve_var_decl(stmt.var, place))
<1>1. /\ AtStmt({"decl"}) /\ Resolved(stack, r, FALSE) /\ phase = "resolve"
      /\ scopes' = IF r.is = "ok" THEN Insert(scopes, DeclName(stmt.var.identifier, r.e.var)) ELSE scopes
      /\ UNCHANGED <<ast, fn, phase, error, resolved_tree, ret>>
  BY DEF ResolveDecl, AtStmt, Resolving
<1>2. PICK P : Resolves(P)
  BY <1>1 DEF LInv, Going
<1>3. /\ Located(ast, scopes, f.at, f.n) /\ stmt = Stmts(ast, f.at)[f.n] /\ stmt.k = "decl"
  BY <1>1, <1>2, AtStatement
<1>4. /\ Outcome(r, ast, f.at, f.n)
      /\ r.is = "ok" => DeclName(stmt.var.identifier, r.e.var) = Variable(ast, f.at, f.n)
  BY <1>3, DeclOutcome DEF place
<1>5. Inner(stmt) = {} /\ stmt.k # "return"
  BY <1>3 DEF Inner
<1> DEFINE v == DeclName(stmt.var.identifier, r.e.var)
<1>6. scopes' = IF r.is = "ok" THEN Insert(scopes, v) ELSE scopes
  BY <1>1
<1>7. r.is = "ok" => v = Variable(ast, f.at, f.n)
  BY <1>4
<1> HIDE DEF r, v
<1>8. ASSUME r.is = "ok" PROVE In(ast, scopes', f.at, f.n + 1)
  <2>1. WellTypedStmt(ast, f.at, f.n)
    BY <1>4, <1>8 DEF Outcome
  <2>2. Declaring(ast, f.at, f.n, Stmts(ast, f.at)[f.n].var.identifier) = {}
    BY <2>1, <1>3, WellTypedDecl
  <2> QED BY <1>3, <1>6, <1>7, <1>8, <2>2, InDeclares DEF Located
<1>9. f = Top
  OBVIOUS
<1> HIDE DEF f
<1> QED BY <1>1, <1>2, <1>4, <1>5, <1>6, <1>8, <1>9, StatementGoes

(* Into a block of the statement at the top.                                *)
Opening(p, w, fun, P, s, scps, f, h, m, b, t) ==
  /\ p \in Programs /\ Nested(s) /\ AtBlock(s) /\ Chain(p, w, fun, s, P)
  /\ f = s[Len(s)] /\ f.n \in 1 .. Len(f.stmts) /\ Here(p, scps, f)
  /\ FrameOK(h) /\ h.k # "block" /\ StmtOK(p, f, h, P)
  /\ m \in Nat /\ m \in Inner(Stmts(p, f.at)[f.n]) /\ Into(f, h) = Append(f.at, <<f.n, m>>)
  /\ b = Block(Append(f.at, <<f.n, m>>), Part(Stmts(p, f.at)[f.n], m))
  /\ t = s \o <<h, b>>

LEMMA Opens ==
  ASSUME NEW p, NEW w, NEW fun, NEW P, NEW s, NEW scps, NEW f, NEW h, NEW m, NEW b, NEW t,
         Opening(p, w, fun, P, s, scps, f, h, m, b, t)
  PROVE  /\ Chain(p, w, fun, t, P) /\ Nested(t) /\ AtBlock(t) /\ t # <<>>
         /\ Here(p, Append(scps, <<>>), t[Len(t)])
<1>0. /\ p \in Programs /\ Nested(s) /\ AtBlock(s) /\ Chain(p, w, fun, s, P)
      /\ f = s[Len(s)] /\ f.n \in 1 .. Len(f.stmts) /\ Here(p, scps, f)
      /\ FrameOK(h) /\ h.k # "block" /\ StmtOK(p, f, h, P)
      /\ m \in Nat /\ m \in Inner(Stmts(p, f.at)[f.n]) /\ Into(f, h) = Append(f.at, <<f.n, m>>)
      /\ b = Block(Append(f.at, <<f.n, m>>), Part(Stmts(p, f.at)[f.n], m))
      /\ t = s \o <<h, b>>
  BY DEF Opening
<1> USE <1>0
<1> DEFINE i == <<f.n, m>>
           at == Append(f.at, i)
           u == Append(s, h)
<1>1. PICK S : s \in Seq(S)
  BY DEF Nested
<1>2. s # <<>> /\ f.k = "block" /\ Len(s) \in Nat \ {0} /\ Len(s) \in 1 .. Len(s)
  <2>1. s # <<>> /\ f.k = "block"
    BY DEF AtBlock
  <2> DEFINE len == Len(s)
  <2>2. len \in Nat \ {0}
    BY <2>1, <1>1, FrontKeeps
  <2> HIDE DEF len
  <2>3. len \in 1 .. len
    BY <2>2
  <2> QED BY <2>1, <2>2, <2>3 DEF len
<1>3. BlockOK(p, w, fun, f, P)
  BY <1>2 DEF Chain
<1>4. /\ f.at \in Blocks(p) /\ IsPlace(f.at) /\ f.at[1][1] = fun /\ f.stmts = Stmts(p, f.at)
  BY <1>3 DEF BlockOK
<1>5. f.n \in DOMAIN Stmts(p, f.at) /\ f.n \in Nat
  <2>1. Len(f.stmts) \in Nat /\ DOMAIN f.stmts = 1 .. Len(f.stmts)
    BY <1>4, BlocksAssumption DEF Listed
  <2> QED BY <2>1, <1>4
<1>6. at \in Blocks(p) /\ Stmts(p, at) = Part(Stmts(p, f.at)[f.n], m)
  BY <1>4, <1>5, BlocksAssumption
<1>7. i \in Nat \X Nat /\ i[1] = f.n
  BY <1>5
<1>8. at = Into(f, h)
  OBVIOUS
<1>9. b = Block(at, Stmts(p, at))
  BY <1>6
<1> HIDE DEF i
<1>10. IsPlace(at) /\ at[1] = f.at[1]
  BY <1>4, <1>7, PlaceInside
<1>11. In(p, Append(scps, <<>>), at, 1) /\ SoundAt(p, at, 1)
  BY <1>4, <1>7, InEnters, SoundEnters DEF Here
<1> HIDE DEF at
<1>12. at[1][1] = fun
  BY <1>4, <1>10
<1>13. BlockOK(p, w, fun, b, P)
  BY <1>6, <1>9, <1>10, <1>12, FreshBlock
<1>14. b.k = "block" /\ b.at = at /\ b.n = 1 /\ FrameOK(b)
  <2>1. FrameOK(b) /\ b.k = "block"
    BY <1>9, BlockFrame
  <2>2. b.at = at /\ b.n = 1
    BY <1>9 DEF Block
  <2> QED BY <2>1, <2>2
<1>15. t = Append(u, b)
  BY <1>1, AppendTwice
<1>16. /\ u \in Seq(S \cup {h}) /\ Len(u) = Len(s) + 1 /\ u[Len(s)] = f /\ u[Len(s) + 1] = h /\ u # <<>>
  BY <1>1, <1>2, AppendKeeps
<1> HIDE DEF u
<1>17. Nested(u) /\ ~AtBlock(u)
  BY NestedPush, <1>2 DEF u
<1>18. Chain(p, w, fun, u, P)
  <2>1. Fits(p, w, fun, s, h, P)
    BY DEF Fits
  <2> QED BY <2>1, ChainPush DEF u
<1>19. Chain(p, w, fun, t, P) /\ Nested(t) /\ AtBlock(t) /\ t # <<>>
  <2>1. u[Len(u)] = h /\ u[Len(u) - 1] = f
    <3> DEFINE len == Len(s)
    <3>1. len \in Nat /\ Len(u) = len + 1
      BY <1>2, <1>16
    <3> HIDE DEF len
    <3>2. len + 1 - 1 = len
      BY <3>1
    <3> QED BY <3>1, <3>2, <1>16 DEF len
  <2>2. Fits(p, w, fun, u, b, P)
    BY <2>1, <1>8, <1>13, <1>14, <1>16 DEF Fits
  <2>3. Chain(p, w, fun, t, P)
    BY <2>2, <1>14, <1>15, <1>17, <1>18, ChainPush
  <2>4. Nested(t) /\ AtBlock(t) /\ t # <<>>
    BY <1>14, <1>15, <1>17, NestedPush
  <2> QED BY <2>3, <2>4
<1>20. t[Len(t)] = b
  BY <1>15, <1>16, AppendKeeps
<1> QED BY <1>11, <1>14, <1>19, <1>20 DEF Here

LEMMA OptionalLength ==
  ASSUME NEW o, Optional(o)
  PROVE  Len(o) \in Nat /\ (o # <<>> => Len(o) = 1)
<1>1. CASE o = <<>>
  BY <1>1
<1>2. CASE o = <<o[1]>>
  <2> DEFINE e == o[1]
  <2>1. o = <<e>>
    BY <1>2
  <2> HIDE DEF e
  <2> QED BY <2>1
<1> QED BY <1>1, <1>2 DEF Optional

LEMMA BlockBeginsGoes ==
  ASSUME IInv, LInv, Clean, NEW node \in {"if", "while"}, AtStmt({node}),
         NEW c, c = resolve_condition(stmt.condition), BeginBlock(c, node, Part(stmt, 1)),
         UNCHANGED <<ast, fn, phase, error, resolved_tree, ret>>
  PROVE  (Clean' => Going') /\ (~Clean' => Faulty')
<1> DEFINE f == Top
<1>1. phase = "resolve"
  BY DEF AtStmt, Resolving
<1>2. PICK P : Resolves(P)
  BY <1>1 DEF LInv, Going
<1>3. /\ result = "none" /\ ret = <<>> /\ stack # <<>>
      /\ Nested(stack) /\ AtBlock(stack) /\ f = stack[Len(stack)] /\ f.k = "block"
      /\ BlockOK(ast, warned, fn, f, P) /\ f.n \in 1 .. Len(f.stmts)
      /\ Located(ast, scopes, f.at, f.n)
      /\ stmt = Stmts(ast, f.at)[f.n] /\ stmt.k = node
  BY <1>2, AtStatement
<1>4. /\ c.is \in {"ok", "null", "crash"}
      /\ c.is = "ok" => /\ WellTypedStmt(ast, f.at, f.n) /\ ~OverflowsAt(ast, f.at, f.n)
                        /\ c.e = SetValue(Meant(ast, f.at, f.n, stmt.condition))
      /\ c.is = "null" => ~WellTypedStmt(ast, f.at, f.n)
  BY <1>3, ConditionOutcome
<1>5. CASE c.is # "ok"
  <2>1. Resolved(stack, c, FALSE) /\ UNCHANGED scopes
    BY <1>5 DEF BeginBlock
  <2> HIDE DEF f
  <2>2. f = Top
    BY DEF f
  <2> QED BY <2>1, <2>2, <1>2, <1>4, <1>5, StatementFails
<1>6. CASE c.is = "ok"
  <2> DEFINE h == [k |-> node, condition |-> c.e]
             b == Block(Append(f.at, <<f.n, 1>>), Part(stmt, 1))
  <2>1. stack' = stack \o <<h, b>> /\ scopes' = Append(scopes, <<>>) /\ UNCHANGED <<warned, result>>
    BY <1>6 DEF BeginBlock
  <2>2. FrameOK(h) /\ h.k = node /\ h.k \in {"if", "while"} /\ h.condition = c.e
    BY DEF FrameOK
  <2>3. f.stmts = Stmts(ast, f.at)
    BY <1>3 DEF BlockOK
  <2>4. Number(ast, f.at, f.n, {stmt.condition})
    BY <1>3, <1>4, <1>6 DEF WellTypedStmt
  <2> HIDE DEF h
  <2>5. StmtOK(ast, f, h, P)
    BY <1>3, <1>4, <1>6, <2>2, <2>3, <2>4 DEF StmtOK
  <2>6. 1 \in Inner(stmt)
    <3>1. CASE node = "while"
      BY <3>1, <1>3 DEF Inner
    <3>2. CASE node = "if"
      <4>1. Inner(stmt) = 1 .. (1 + Len(stmt.false_block))
        BY <3>2, <1>3 DEF Inner
      <4>2. Optional(stmt.false_block)
        BY <3>2, <1>3, StmtKinds
      <4>3. Len(stmt.false_block) \in Nat
        BY <4>2, OptionalLength
      <4> QED BY <4>1, <4>3
    <3> QED BY <3>1, <3>2
  <2>7. Here(ast, scopes, f) /\ ast \in Programs
    BY <1>3 DEF Located, Here
  <2>8. /\ Chain(ast, warned, fn, stack', P) /\ Nested(stack') /\ AtBlock(stack') /\ stack' # <<>>
        /\ Here(ast, scopes', stack'[Len(stack')])
    <3>1. h.k # "block" /\ Into(f, h) = Append(f.at, <<f.n, 1>>)
      BY <2>2 DEF Into
    <3>2. Chain(ast, warned, fn, stack, P)
      BY <1>2 DEF Resolves
    <3> DEFINE t == stack'
               m == 1
    <3>3. m \in Inner(Stmts(ast, f.at)[f.n]) /\ m \in Nat /\ Into(f, h) = Append(f.at, <<f.n, m>>)
      BY <2>6, <3>1, <1>3
    <3>4. b = Block(Append(f.at, <<f.n, m>>), Part(Stmts(ast, f.at)[f.n], m)) /\ t = stack \o <<h, b>>
      BY <2>1, <1>3
    <3> HIDE DEF t, m, b, f
    <3>5. /\ Nested(stack) /\ AtBlock(stack) /\ f = stack[Len(stack)] /\ f.n \in 1 .. Len(f.stmts)
          /\ ast \in Programs /\ Here(ast, scopes, f) /\ FrameOK(h)
      BY <1>3, <2>2, <2>7
    <3>6. Opening(ast, warned, fn, P, stack, scopes, f, h, m, b, t)
      BY <2>5, <3>1, <3>2, <3>3, <3>4, <3>5 DEF Opening
    <3>7. /\ Chain(ast, warned, fn, t, P) /\ Nested(t) /\ AtBlock(t) /\ t # <<>>
          /\ Here(ast, Append(scopes, <<>>), t[Len(t)])
      BY <3>6, Opens
    <3> QED BY <3>7, <2>1 DEF t
  <2>9. Position(ast, fn, scopes', stack', ret, P)
    BY <2>8 DEF Position
  <2>10. Resolves(P)'
    BY <2>1, <2>8, <2>9, <1>2 DEF Resolves
  <2>11. Clean'
    BY <2>8, <1>3, ChainClean, CleanMeans, CleanAgain
  <2> QED BY <2>10, <2>11, <1>1 DEF Going
<1> QED BY <1>5, <1>6

LEMMA BeginIfGoes ==
  ASSUME IInv, LInv, Clean, BeginIf
  PROVE  (Clean' => Going') /\ (~Clean' => Faulty')
<1> DEFINE c == resolve_condition(stmt.condition)
<1>1. /\ AtStmt({"if"}) /\ BeginBlock(c, "if", stmt.true_block)
      /\ UNCHANGED <<ast, fn, phase, error, resolved_tree, ret>>
  BY DEF BeginIf
<1>2. Part(stmt, 1) = stmt.true_block
  BY <1>1 DEF AtStmt, Part, stmt
<1> QED BY <1>1, <1>2, BlockBeginsGoes

LEMMA BeginWhileGoes ==
  ASSUME IInv, LInv, Clean, BeginWhile
  PROVE  (Clean' => Going') /\ (~Clean' => Faulty')
<1> DEFINE c == resolve_condition(stmt.condition)
<1>1. /\ AtStmt({"while"}) /\ BeginBlock(c, "while", stmt.body)
      /\ UNCHANGED <<ast, fn, phase, error, resolved_tree, ret>>
  BY DEF BeginWhile
<1>2. Part(stmt, 1) = stmt.body
  BY <1>1 DEF AtStmt, Part, stmt
<1> QED BY <1>1, <1>2, BlockBeginsGoes

(* A block is done; the statement it belongs to, h, and the block around.   *)
Outside(P, k, s, f, h) ==
  /\ phase = "resolve" /\ result = "none" /\ ret # <<>> /\ s = Below
  /\ Nested(s) /\ AtBlock(s) /\ Chain(ast, warned, fn, s, P)
  /\ f = s[Len(s)] /\ f = Outer /\ h = Top /\ h.k = k /\ k # "block"
  /\ f.stmts = Stmts(ast, f.at) /\ f.n \in 1 .. Len(f.stmts) /\ Statement = Stmts(ast, f.at)[f.n]
  /\ Located(ast, scopes, f.at, f.n) /\ StmtOK(ast, f, h, P) /\ Into(f, h) \in P
  /\ WellTyped(ast) => ret[1].e = Elaborated(ast, Into(f, h))

LEMMA AtOuter ==
  ASSUME IInv, NEW P, Resolves(P), NEW k, Returned(k), NEW s, s = Below, NEW f, f = Outer, NEW h, h = Top
  PROVE  Outside(P, k, s, f, h)
<1>1. /\ phase = "resolve" /\ result = "none" /\ ret # <<>> /\ stack # <<>> /\ h.k = k
  BY DEF Returned, Resolving
<1>2. Nested(s) /\ AtBlock(s) /\ Nested(stack)
  BY OuterBlock DEF IInv, Balanced
<1>3. h = stack[Len(stack)] /\ s = SubSeq(stack, 1, Len(stack) - 1) /\ f = s[Len(s)]
  BY DEF Top, Below, Outer, Last
<1>4. ~AtBlock(stack) /\ k # "block"
  <2>1. ~AtBlock(stack)
    BY <1>1 DEF IInv, Balanced
  <2> QED BY <2>1, <1>1, <1>3 DEF AtBlock
<1>5. Chain(ast, warned, fn, s, P) /\ Fits(ast, warned, fn, s, h, P)
  BY <1>1, <1>2, <1>3, ChainPop DEF Resolves
<1>6. StmtOK(ast, f, h, P)
  BY <1>1, <1>3, <1>4, <1>5 DEF Fits
<1>7. /\ stack[Len(stack) - 1] = f /\ s # <<>> /\ f.k = "block" /\ Len(s) \in 1 .. Len(s)
  <2> DEFINE len == Len(stack)
             m == Len(s)
  <2>1. PICK S : stack \in Seq(S)
    BY <1>2 DEF Nested
  <2>2. /\ len \in Nat \ {0} /\ m = len - 1 /\ \A n \in 1 .. len - 1 : s[n] = stack[n]
        /\ s \in Seq(S)
    BY <2>1, <1>1, <1>3, FrontKeeps
  <2>3. s # <<>> /\ f.k = "block"
    BY <1>2, <1>3 DEF AtBlock
  <2>4. m \in Nat \ {0}
    BY <2>2, <2>3, EmptySeq
  <2>5. s[m] = f
    BY <1>3
  <2> HIDE DEF len, m
  <2>6. m \in 1 .. m /\ m \in 1 .. len - 1
    BY <2>2, <2>4
  <2>7. stack[len - 1] = f
    BY <2>2, <2>5, <2>6
  <2> QED BY <2>3, <2>6, <2>7 DEF len, m
<1>8. /\ Here(ast, scopes, f) /\ Into(f, h) \in P
      /\ WellTyped(ast) => ret[1].e = Elaborated(ast, Into(f, h))
  BY <1>1, <1>3, <1>4, <1>7 DEF Resolves, Position
<1>9. BlockOK(ast, warned, fn, f, P)
  BY <1>3, <1>5, <1>7 DEF Chain
<1>10. /\ f.at \in Blocks(ast) /\ IsPlace(f.at) /\ f.at[1][1] = fn /\ f.stmts = Stmts(ast, f.at)
       /\ f.n \in 1 .. Len(f.stmts)
  BY <1>6, <1>9 DEF BlockOK, StmtOK
<1>11. ast \in Programs /\ fn \in DOMAIN ast
  BY <1>1 DEF IInv, Typed, InBody
<1>12. f.n \in DOMAIN Stmts(ast, f.at) /\ f.n \in Nat \ {0}
  <2>1. Len(f.stmts) \in Nat /\ DOMAIN f.stmts = 1 .. Len(f.stmts)
    BY <1>10, <1>11, BlocksAssumption DEF Listed
  <2> QED BY <2>1, <1>10
<1>13. WellTypedSignatures(ast)
  BY DEF Resolves, Done
<1>14. Located(ast, scopes, f.at, f.n)
  BY <1>8, <1>10, <1>11, <1>12, <1>13 DEF Located, Here
<1>15. Statement = Stmts(ast, f.at)[f.n]
  BY <1>10 DEF Statement
<1> QED BY <1>1, <1>2, <1>3, <1>4, <1>5, <1>6, <1>8, <1>10, <1>14, <1>15 DEF Outside

LEMMA BeginElseGoes ==
  ASSUME IInv, LInv, Clean, BeginElse
  PROVE  (Clean' => Going') /\ (~Clean' => Faulty')
<1> DEFINE s == Below
           f == Outer
           g == Top
           h == [k |-> "else", condition |-> Top.condition, true_block |-> ret[1].e]
           b == Block(Append(Outer.at, <<Outer.n, 2>>), Statement.false_block[1])
           t == stack'
           m == 2
<1>1. /\ Returned("if") /\ ret[1].is = "ok" /\ Statement.false_block # <<>>
      /\ t = s \o <<h, b>> /\ scopes' = Append(scopes, <<>>) /\ ret' = <<>>
      /\ UNCHANGED <<ast, fn, phase, error, resolved_tree, warned, result>>
  BY DEF BeginElse
<1>2. phase = "resolve"
  BY <1>1 DEF Returned, Resolving
<1>3. PICK P : Resolves(P)
  BY <1>2 DEF LInv, Going
<1>4. Outside(P, "if", s, f, g)
  BY <1>1, <1>3, AtOuter
<1>5. /\ h.k = "else" /\ h.condition = g.condition /\ h.true_block = ret[1].e /\ FrameOK(h)
  BY DEF FrameOK
<1>6. b = Block(Append(f.at, <<f.n, 2>>), Statement.false_block[1])
  OBVIOUS
<1> HIDE DEF s, f, g, h, b, t
<1>7. /\ Nested(s) /\ AtBlock(s) /\ Chain(ast, warned, fn, s, P) /\ f = s[Len(s)] /\ g.k = "if"
      /\ f.n \in 1 .. Len(f.stmts) /\ StmtOK(ast, f, g, P) /\ Into(f, g) \in P
      /\ f.stmts = Stmts(ast, f.at) /\ Statement = Stmts(ast, f.at)[f.n] /\ Located(ast, scopes, f.at, f.n)
      /\ WellTyped(ast) => ret[1].e = Elaborated(ast, Into(f, g))
  BY <1>4 DEF Outside
<1>8. Into(f, g) = Append(f.at, <<f.n, 1>>) /\ Into(f, h) = Append(f.at, <<f.n, 2>>)
  BY <1>5, <1>7 DEF Into
<1>9. Statement.k = "if" /\ Statement = f.stmts[f.n]
  BY <1>7 DEF StmtOK
<1>10. StmtOK(ast, f, h, P)
  <2>1. /\ Number(ast, f.at, f.n, {f.stmts[f.n].condition}) /\ ~OverflowsAt(ast, f.at, f.n)
        /\ g.condition = SetValue(Meant(ast, f.at, f.n, f.stmts[f.n].condition))
    BY <1>7 DEF StmtOK
  <2> QED BY <2>1, <1>1, <1>5, <1>7, <1>8, <1>9 DEF StmtOK
<1>11. 2 \in Inner(Statement) /\ Part(Statement, 2) = Statement.false_block[1]
  <2>1. Inner(Statement) = 1 .. (1 + Len(Statement.false_block)) /\ Part(Statement, 2) = Statement.false_block[1]
    BY <1>9 DEF Inner, Part
  <2>2. Len(Statement.false_block) = 1
    BY <1>1, <1>7, <1>9, StmtKinds, OptionalLength
  <2> QED BY <2>1, <2>2
<1>12. ast \in Programs /\ Here(ast, scopes, f)
  BY <1>7 DEF Located, Here
<1>13. Opening(ast, warned, fn, P, s, scopes, f, h, m, b, t)
  <2>1. m \in Nat /\ m \in Inner(Stmts(ast, f.at)[f.n]) /\ Into(f, h) = Append(f.at, <<f.n, m>>)
    BY <1>7, <1>8, <1>11
  <2>2. b = Block(Append(f.at, <<f.n, m>>), Part(Stmts(ast, f.at)[f.n], m))
    BY <1>6, <1>7, <1>11
  <2>3. h.k # "block"
    BY <1>5
  <2> HIDE DEF m
  <2> QED BY <2>1, <2>2, <2>3, <1>1, <1>5, <1>7, <1>10, <1>12 DEF Opening
<1>14. /\ Chain(ast, warned, fn, t, P) /\ Nested(t) /\ AtBlock(t) /\ t # <<>>
       /\ Here(ast, scopes', t[Len(t)])
  BY <1>1, <1>13, Opens
<1>15. Position(ast, fn, scopes', t, ret', P)
  BY <1>14 DEF Position
<1>16. Resolves(P)'
  BY <1>1, <1>3, <1>14, <1>15 DEF Resolves, t
<1>17. Clean'
  <2>1. ~HasError(stack')
    BY <1>14, ChainClean DEF t
  <2> QED BY <2>1, <1>1, CleanMeans, CleanAgain
<1> QED BY <1>1, <1>2, <1>16, <1>17 DEF Going

LEMMA EndStmtGoes ==
  ASSUME IInv, LInv, Clean, NEW P, Resolves(P), NEW k, NEW s, NEW f, NEW h, Outside(P, k, s, f, h),
         NEW node, EndStmt(node), Passed(ast, f.at, f.n, P), Statement.k \in {"if", "while"},
         WellTyped(ast) => node = ElaboratedStmt(ast, f.at, f.n)
  PROVE  (Clean' => Going') /\ (~Clean' => Faulty')
<1> DEFINE r == IF ret[1].is = "null" THEN nullptr ELSE Ok(node, FALSE)
<1>1. /\ Resolved(Below, r, FALSE) /\ ret' = <<>>
      /\ UNCHANGED <<ast, fn, phase, scopes, error, resolved_tree>>
  BY DEF EndStmt
<1>2. /\ phase = "resolve" /\ ret # <<>> /\ s = Below /\ Nested(s) /\ AtBlock(s)
      /\ Chain(ast, warned, fn, s, P) /\ f = s[Len(s)]
      /\ f.stmts = Stmts(ast, f.at) /\ f.n \in 1 .. Len(f.stmts) /\ Statement = Stmts(ast, f.at)[f.n]
      /\ Located(ast, scopes, f.at, f.n)
  BY DEF Outside
<1>3. ret[1].is = "ok" /\ ~error
  BY <1>2, CleanMeans
<1>4. r.is = "ok" /\ r.e = node
  BY <1>3 DEF Ok
<1> HIDE DEF r
<1>5. ast \in Programs /\ f.n \in Nat \ {0} /\ IsPlace(f.at)
  BY <1>2 DEF Located
<1>6. ~(f.stmts[f.n].k = "return") /\ Stmts(ast, f.at)[f.n].k # "decl"
  BY <1>2
<1>7. Resolved(s, r, FALSE)
  BY <1>1, <1>2
<1>8. /\ Chain(ast, warned', fn, stack', P) /\ Nested(stack') /\ AtBlock(stack') /\ stack' # <<>>
      /\ warned \subseteq warned' /\ (WarningsOK(ast, warned) => WarningsOK(ast, warned'))
      /\ stack'[Len(stack')].at = f.at /\ stack'[Len(stack')].n = f.n + 1
  <2>1. Advancing(ast, warned, fn, P, s, f, r, FALSE)
    BY <1>2, <1>4, <1>5, <1>6 DEF Advancing
  <2> QED BY <2>1, <1>7, Advances
<1>9. Done(ast, warned', fn, resolved_tree, P)
  BY <1>8, DoneGrows DEF Resolves
<1>10. SoundAt(ast, f.at, f.n + 1) /\ In(ast, scopes, f.at, f.n + 1)
  BY <1>2, <1>5, <1>6, SoundPasses, InPasses DEF Located, Passed
<1>11. Here(ast, scopes', stack'[Len(stack')])
  BY <1>1, <1>8, <1>10 DEF Here
<1>12. Position(ast, fn, scopes', stack', ret', P)
  BY <1>8, <1>11 DEF Position
<1>13. Resolves(P)'
  BY <1>1, <1>8, <1>9, <1>12 DEF Resolves
<1>14. Clean'
  <2>1. ~HasError(stack')
    BY <1>8, ChainClean
  <2> QED BY <2>1, <1>1, <1>3, CleanAgain
<1> QED BY <1>1, <1>2, <1>13, <1>14 DEF Going

(* An if or while is well-typed by its condition.                           *)
LEMMA ConditionTyped ==
  ASSUME NEW p, NEW at, NEW n, NEW s, s = Stmts(p, at)[n], s.k \in {"if", "while"}, Number(p, at, n, {s.condition})
  PROVE  WellTypedStmt(p, at, n)
  BY DEF WellTypedStmt

(* The resolved form of an if or while by those of its blocks.              *)
LEMMA ElaboratedLoop ==
  ASSUME NEW p, NEW at, NEW n, NEW s, s = Stmts(p, at)[n], s.k = "while"
  PROVE  ElaboratedStmt(p, at, n) =
           Tree!while_stmt(SetValue(Meant(p, at, n, s.condition)), Elaborated(p, Append(at, <<n, 1>>)))
<1> DEFINE e(m) == Elaborated(p, Append(at, <<n, m>>))
           blocks == [m \in Inner(s) |-> e(m)]
<1>1. ElaboratedStmt(p, at, n) = Form(p, at, n, blocks)
  BY DEF ElaboratedStmt
<1>2. blocks[1] = e(1)
  BY DEF Inner
<1> HIDE DEF e, blocks
<1>3. Form(p, at, n, blocks) = Tree!while_stmt(SetValue(Meant(p, at, n, s.condition)), blocks[1])
  BY DEF Form
<1> QED BY <1>1, <1>2, <1>3 DEF e

LEMMA ElaboratedIf ==
  ASSUME NEW p, NEW at, NEW n, NEW s, s = Stmts(p, at)[n], s.k = "if",
         1 \in Inner(s), DOMAIN s.false_block = {} \/ 2 \in Inner(s)
  PROVE  ElaboratedStmt(p, at, n) =
           Tree!if_stmt(SetValue(Meant(p, at, n, s.condition)), Elaborated(p, Append(at, <<n, 1>>)),
                        [i \in DOMAIN s.false_block |-> Elaborated(p, Append(at, <<n, 2>>))])
<1> DEFINE e(m) == Elaborated(p, Append(at, <<n, m>>))
           blocks == [m \in Inner(s) |-> e(m)]
<1>1. ElaboratedStmt(p, at, n) = Form(p, at, n, blocks)
  BY DEF ElaboratedStmt
<1>2. blocks[1] = e(1) /\ (DOMAIN s.false_block = {} \/ blocks[2] = e(2))
  OBVIOUS
<1> HIDE DEF e, blocks
<1>3. Form(p, at, n, blocks) =
        Tree!if_stmt(SetValue(Meant(p, at, n, s.condition)), blocks[1], [i \in DOMAIN s.false_block |-> blocks[2]])
  BY DEF Form
<1>4. [i \in DOMAIN s.false_block |-> blocks[2]] = [i \in DOMAIN s.false_block |-> e(2)]
  BY <1>2
<1> QED BY <1>1, <1>2, <1>3, <1>4 DEF e

LEMMA EndWhileGoes ==
  ASSUME IInv, LInv, Clean, EndWhile
  PROVE  (Clean' => Going') /\ (~Clean' => Faulty')
<1> DEFINE s == Below
           f == Outer
           h == Top
           node == Tree!while_stmt(h.condition, ret[1].e)
<1>1. Returned("while") /\ EndStmt(node)
  BY DEF EndWhile
<1>2. phase = "resolve"
  BY <1>1 DEF Returned, Resolving
<1>3. PICK P : Resolves(P)
  BY <1>2 DEF LInv, Going
<1>4. Outside(P, "while", s, f, h)
  BY <1>1, <1>3, AtOuter
<1>5. node = Tree!while_stmt(h.condition, ret[1].e)
  OBVIOUS
<1> HIDE DEF s, f, h, node
<1>6. /\ h.k = "while" /\ StmtOK(ast, f, h, P) /\ Into(f, h) \in P
      /\ f.stmts = Stmts(ast, f.at) /\ Statement = Stmts(ast, f.at)[f.n]
      /\ WellTyped(ast) => ret[1].e = Elaborated(ast, Into(f, h))
  BY <1>4 DEF Outside
<1>7. /\ Statement.k = "while" /\ Number(ast, f.at, f.n, {Statement.condition}) /\ ~OverflowsAt(ast, f.at, f.n)
      /\ h.condition = SetValue(Meant(ast, f.at, f.n, Statement.condition))
  BY <1>6 DEF StmtOK
<1>8. Into(f, h) = Append(f.at, <<f.n, 1>>)
  BY <1>6 DEF Into
<1>9. Passed(ast, f.at, f.n, P)
  <2>1. Inner(Statement) = {1}
    BY <1>7 DEF Inner
  <2> QED BY <2>1, <1>6, <1>7, <1>8, ConditionTyped DEF Passed
<1>10. WellTyped(ast) => node = ElaboratedStmt(ast, f.at, f.n)
  <2>1. ElaboratedStmt(ast, f.at, f.n) =
          Tree!while_stmt(SetValue(Meant(ast, f.at, f.n, Statement.condition)), Elaborated(ast, Append(f.at, <<f.n, 1>>)))
    BY <1>6, <1>7, ElaboratedLoop
  <2> QED BY <2>1, <1>5, <1>6, <1>7, <1>8
<1> QED BY <1>1, <1>3, <1>4, <1>7, <1>9, <1>10, EndStmtGoes

LEMMA EndIfGoes ==
  ASSUME IInv, LInv, Clean, EndIf
  PROVE  (Clean' => Going') /\ (~Clean' => Faulty')
<1> DEFINE s == Below
           f == Outer
           h == Top
           node == Tree!if_stmt(h.condition, ret[1].e, <<>>)
<1>1. Returned("if") /\ EndStmt(node) /\ (ret[1].is = "null" \/ Statement.false_block = <<>>)
  BY DEF EndIf
<1>2. phase = "resolve" /\ ret # <<>>
  BY <1>1 DEF Returned, Resolving
<1>3. PICK P : Resolves(P)
  BY <1>2 DEF LInv, Going
<1>4. Outside(P, "if", s, f, h)
  BY <1>1, <1>3, AtOuter
<1>5. node = Tree!if_stmt(h.condition, ret[1].e, <<>>)
  OBVIOUS
<1> HIDE DEF s, f, h, node
<1>6. /\ h.k = "if" /\ StmtOK(ast, f, h, P) /\ Into(f, h) \in P
      /\ f.stmts = Stmts(ast, f.at) /\ Statement = Stmts(ast, f.at)[f.n]
      /\ WellTyped(ast) => ret[1].e = Elaborated(ast, Into(f, h))
  BY <1>4 DEF Outside
<1>7. /\ Statement.k = "if" /\ Number(ast, f.at, f.n, {Statement.condition}) /\ ~OverflowsAt(ast, f.at, f.n)
      /\ h.condition = SetValue(Meant(ast, f.at, f.n, Statement.condition))
  BY <1>6 DEF StmtOK
<1>8. Into(f, h) = Append(f.at, <<f.n, 1>>)
  BY <1>6 DEF Into
<1>9. Statement.false_block = <<>>
  BY <1>1, <1>2, CleanMeans
<1>10. Inner(Statement) = {1}
  <2>1. Inner(Statement) = 1 .. (1 + Len(Statement.false_block)) /\ Len(Statement.false_block) = 0
    BY <1>7, <1>9 DEF Inner
  <2> QED BY <2>1
<1>11. Passed(ast, f.at, f.n, P)
  BY <1>10, <1>6, <1>7, <1>8, ConditionTyped DEF Passed
<1>12. WellTyped(ast) => node = ElaboratedStmt(ast, f.at, f.n)
  <2> DEFINE c == SetValue(Meant(ast, f.at, f.n, Statement.condition))
             e == Elaborated(ast, Append(f.at, <<f.n, 1>>))
             o == Elaborated(ast, Append(f.at, <<f.n, 2>>))
  <2>1. ElaboratedStmt(ast, f.at, f.n) = Tree!if_stmt(c, e, [i \in DOMAIN Statement.false_block |-> o])
    <3>1. DOMAIN Statement.false_block = {} \/ 2 \in Inner(Statement)
      BY <1>9
    <3>2. 1 \in Inner(Statement) /\ Statement.k = "if" /\ Statement = Stmts(ast, f.at)[f.n]
      BY <1>6, <1>7, <1>10
    <3> QED BY <3>1, <3>2, ElaboratedIf
  <2>2. [i \in DOMAIN Statement.false_block |-> o] = <<>>
    BY <1>9
  <2> QED BY <2>1, <2>2, <1>5, <1>6, <1>7, <1>8
<1> QED BY <1>1, <1>3, <1>4, <1>7, <1>11, <1>12, EndStmtGoes

LEMMA EndElseGoes ==
  ASSUME IInv, LInv, Clean, EndElse
  PROVE  (Clean' => Going') /\ (~Clean' => Faulty')
<1> DEFINE s == Below
           f == Outer
           h == Top
           node == Tree!if_stmt(h.condition, h.true_block, <<ret[1].e>>)
<1>1. Returned("else") /\ EndStmt(node)
  BY DEF EndElse
<1>2. phase = "resolve"
  BY <1>1 DEF Returned, Resolving
<1>3. PICK P : Resolves(P)
  BY <1>2 DEF LInv, Going
<1>4. Outside(P, "else", s, f, h)
  BY <1>1, <1>3, AtOuter
<1>5. node = Tree!if_stmt(h.condition, h.true_block, <<ret[1].e>>)
  OBVIOUS
<1> HIDE DEF s, f, h, node
<1>6. /\ h.k = "else" /\ StmtOK(ast, f, h, P) /\ Into(f, h) \in P
      /\ f.stmts = Stmts(ast, f.at) /\ Statement = Stmts(ast, f.at)[f.n] /\ Located(ast, scopes, f.at, f.n)
      /\ WellTyped(ast) => ret[1].e = Elaborated(ast, Into(f, h))
  BY <1>4 DEF Outside
<1>7. /\ Statement.k = "if" /\ Number(ast, f.at, f.n, {Statement.condition}) /\ ~OverflowsAt(ast, f.at, f.n)
      /\ h.condition = SetValue(Meant(ast, f.at, f.n, Statement.condition))
      /\ Statement.false_block # <<>> /\ Append(f.at, <<f.n, 1>>) \in P
      /\ WellTyped(ast) => h.true_block = Elaborated(ast, Append(f.at, <<f.n, 1>>))
  BY <1>6 DEF StmtOK
<1>8. Into(f, h) = Append(f.at, <<f.n, 2>>)
  BY <1>6 DEF Into
<1>9. DOMAIN Statement.false_block = {1} /\ Len(Statement.false_block) = 1
  <2>1. Optional(Statement.false_block)
    BY <1>6, <1>7, StmtKinds
  <2> QED BY <2>1, <1>7, OptionalSet, OptionalLength
<1>10. Inner(Statement) = {1, 2}
  <2>1. Inner(Statement) = 1 .. (1 + Len(Statement.false_block))
    BY <1>7 DEF Inner
  <2> QED BY <2>1, <1>9
<1>11. Passed(ast, f.at, f.n, P)
  BY <1>10, <1>6, <1>7, <1>8, ConditionTyped DEF Passed
<1>12. WellTyped(ast) => node = ElaboratedStmt(ast, f.at, f.n)
  <2> DEFINE c == SetValue(Meant(ast, f.at, f.n, Statement.condition))
             e == Elaborated(ast, Append(f.at, <<f.n, 1>>))
             o == Elaborated(ast, Append(f.at, <<f.n, 2>>))
  <2>1. ElaboratedStmt(ast, f.at, f.n) = Tree!if_stmt(c, e, [i \in DOMAIN Statement.false_block |-> o])
    <3>1. 1 \in Inner(Statement) /\ 2 \in Inner(Statement)
      BY <1>10
    <3> QED BY <3>1, <1>6, <1>7, ElaboratedIf
  <2> HIDE DEF c, e, o
  <2>2. [i \in DOMAIN Statement.false_block |-> o] = <<o>>
    BY <1>9
  <2> QED BY <2>1, <2>2, <1>5, <1>6, <1>7, <1>8 DEF c, e, o
<1> QED BY <1>1, <1>3, <1>4, <1>7, <1>11, <1>12, EndStmtGoes

-----------------------------------------------------------------------------
(* The end of a block.                                                      *)
LEMMA AroundTop ==
  ASSUME NEW b, Nested(b), b # <<>>, ~AtBlock(b)
  PROVE  Len(b) - 1 \in 1 .. Len(b) /\ b[Len(b) - 1].k = "block"
<1> DEFINE len == Len(b)
<1>1. PICK S : b \in Seq(S)
  BY DEF Nested
<1>2. len \in Nat \ {0}
  BY <1>1, FrontKeeps
<1>3. b[1].k = "block" /\ b[len].k # "block" /\ \A n \in 1 .. len - 1 : b[n].k = "block" <=> b[n + 1].k # "block"
  BY DEF Nested, AtBlock
<1> HIDE DEF len
<1>4. len # 1
  BY <1>3
<1>5. len - 1 \in 1 .. len - 1 /\ len - 1 \in 1 .. len /\ len - 1 + 1 = len
  BY <1>2, <1>4
<1>6. b[len - 1].k = "block" <=> b[len - 1 + 1].k # "block"
  BY <1>3, <1>5
<1> QED BY <1>3, <1>5, <1>6 DEF len

LEMMA BlockFinished ==
  ASSUME NEW p \in Programs, NEW w, NEW fun, NEW f, NEW P, BlockOK(p, w, fun, f, P), f.n = Len(f.stmts) + 1,
         NEW tree, Done(p, w, fun, tree, P), NEW Q, Q = P \cup {f.at}
  PROVE  Done(p, w, fun, tree, Q) /\ (WellTyped(p) => f.done = Elaborated(p, f.at))
<1>1. /\ f.at \in Blocks(p) /\ f.stmts = Stmts(p, f.at)
      /\ \A n \in 1 .. f.n - 1 : Passed(p, f.at, n, P) /\ Warned(p, w, f.at, n)
      /\ WellTyped(p) => f.done = [n \in 1 .. f.n - 1 |-> ElaboratedStmt(p, f.at, n)]
  BY DEF BlockOK
<1>2. 1 .. f.n - 1 = DOMAIN Stmts(p, f.at)
  <2> DEFINE n == f.n
             len == Len(f.stmts)
  <2>1. len \in Nat /\ n = len + 1 /\ DOMAIN Stmts(p, f.at) = 1 .. len
    BY <1>1, BlocksAssumption DEF Listed
  <2> HIDE DEF n, len
  <2>2. n - 1 = len
    BY <2>1
  <2> QED BY <2>1, <2>2 DEF n
<1>3. FinishedOK(p, w, Q)
  <2>1. \A at, n : Passed(p, at, n, P) => Passed(p, at, n, Q)
    BY DEF Passed
  <2>2. FinishedOK(p, w, P)
    BY DEF Done
  <2>3. \A n \in DOMAIN Stmts(p, f.at) : Passed(p, f.at, n, P) /\ Warned(p, w, f.at, n)
    BY <1>1, <1>2
  <2> QED BY <1>1, <2>1, <2>2, <2>3 DEF FinishedOK
<1>4. Done(p, w, fun, tree, Q)
  BY <1>3 DEF Done
<1>5. WellTyped(p) => f.done = Elaborated(p, f.at)
  BY <1>1, <1>2, ElaboratedAssumption
<1> QED BY <1>4, <1>5

LEMMA EndBlockGoes ==
  ASSUME IInv, LInv, Clean, EndBlock
  PROVE  (Clean' => Going') /\ (~Clean' => Faulty')
<1> DEFINE f == Top
           b == Below
           r == IF f.error THEN nullptr ELSE Ok(f.done, FALSE)
           len == Len(b)
<1>1. /\ phase = "resolve" /\ ret = <<>> /\ stack # <<>> /\ f.n = Len(f.stmts) + 1
      /\ ret' = <<r>> /\ stack' = b /\ scopes' = Front(scopes)
      /\ UNCHANGED <<ast, fn, phase, error, resolved_tree, warned, result>>
  BY DEF EndBlock, Resolving
<1>2. PICK P : Resolves(P)
  BY <1>1 DEF LInv, Going
<1>3. /\ Nested(stack) /\ AtBlock(stack) /\ f = stack[Len(stack)] /\ f.k = "block"
      /\ b = SubSeq(stack, 1, Len(stack) - 1)
  BY <1>1 DEF IInv, Balanced, AtBlock, Top, Below
<1> HIDE DEF f, b, r
<1>4. Nested(b) /\ ~AtBlock(b)
  BY <1>1, <1>3, NestedPop
<1>5. Chain(ast, warned, fn, b, P) /\ Fits(ast, warned, fn, b, f, P)
  <2>1. Chain(ast, warned, fn, stack, P)
    BY <1>2 DEF Resolves
  <2> QED BY <2>1, <1>1, <1>3, ChainPop
<1>6. Here(ast, scopes, f)
  <2>1. Position(ast, fn, scopes, stack, ret, P)
    BY <1>2 DEF Resolves
  <2> QED BY <2>1, <1>3 DEF Position
<1>7. /\ BlockOK(ast, warned, fn, f, P)
      /\ b = <<>> => f.at = <<<<fn, 1>>>>
      /\ b # <<>> => f.at = Into(b[len - 1], b[len])
  BY <1>3, <1>5 DEF Fits
<1>8. f.error = FALSE /\ IsPlace(f.at)
  BY <1>7 DEF BlockOK
<1>9. ret' # <<>> /\ ret'[1].is = "ok" /\ ret'[1].e = f.done
  <2>1. r.is = "ok" /\ r.e = f.done
    BY <1>8 DEF r, Ok
  <2> QED BY <2>1, <1>1
<1>10. ast \in Programs
  BY DEF IInv, Typed
<1>11. PICK Q : Q = P \cup {f.at}
  OBVIOUS
<1>12. Done(ast, warned, fn, resolved_tree, Q) /\ (WellTyped(ast) => ret'[1].e = Elaborated(ast, f.at))
  BY <1>1, <1>2, <1>7, <1>9, <1>10, <1>11, BlockFinished DEF Resolves
<1>13. Chain(ast, warned, fn, b, Q)
  BY <1>5, <1>11, ChainGrows
<1>14. ASSUME b = <<>> PROVE Position(ast, fn, scopes', b, ret', Q)
  <2>1. scopes'[1] = Globals(ast)
    <3>1. PICK S : scopes \in Seq(S)
      BY <1>6 DEF Here, In
    <3>2. Len(f.at) = 1
      <4>1. fn \in Nat
        BY Lengths DEF IInv, Typed
      <4> QED BY <4>1, <1>7, <1>14, FirstPlace
    <3>3. scopes[1] = Globals(ast) /\ Len(scopes) = 3
      BY <3>2, <1>6 DEF Here, In
    <3>4. scopes # <<>> /\ scopes' = SubSeq(scopes, 1, Len(scopes) - 1)
      BY <3>3, <1>1 DEF Front
    <3>5. \A n \in 1 .. Len(scopes) - 1 : scopes'[n] = scopes[n]
      BY <3>1, <3>4, FrontKeeps
    <3> QED BY <3>3, <3>5
  <2>2. Position(ast, fn, scopes', b, ret', Q)
    BY <2>1, <1>4, <1>7, <1>9, <1>12, <1>11, <1>14 DEF Position
  <2> QED BY <2>2
<1>15. ASSUME b # <<>> PROVE Position(ast, fn, scopes', b, ret', Q)
  <2> DEFINE g == b[len - 1]
             h == b[len]
             i == <<g.n, IF h.k = "else" THEN 2 ELSE 1>>
  <2>1. len - 1 \in 1 .. len /\ g.k = "block"
    BY <1>4, <1>15, AroundTop
  <2>2. BlockOK(ast, warned, fn, g, P)
    BY <1>5, <2>1 DEF Chain
  <2>3. IsPlace(g.at) /\ g.n \in Nat
    <3>1. IsPlace(g.at) /\ g.n \in 1 .. Len(g.stmts) + 1
      BY <2>2 DEF BlockOK
    <3> QED BY <3>1
  <2>4. i \in Nat \X Nat /\ i[1] = g.n
    BY <2>3
  <2>5. f.at = Append(g.at, i)
    BY <1>7, <1>15 DEF Into
  <2> HIDE DEF i
  <2>6. In(ast, Front(scopes), g.at, g.n) /\ SoundAt(ast, g.at, g.n)
    BY <1>6, <2>3, <2>4, <2>5, InLeaves, SoundLeaves DEF Here
  <2>7. Here(ast, scopes', g)
    BY <2>6, <1>1 DEF Here
  <2>8. Position(ast, fn, scopes', b, ret', Q)
    BY <2>7, <1>4, <1>7, <1>9, <1>12, <1>11, <1>15 DEF Position
  <2> QED BY <2>8
<1>16. Position(ast, fn, scopes', b, ret', Q)
  BY <1>14, <1>15
<1>17. Resolves(Q)'
  BY <1>1, <1>12, <1>13, <1>16 DEF Resolves
<1>18. Clean'
  BY <1>1, <1>4, <1>9, <1>13, ChainClean, CleanMeans, CleanAgain
<1> QED BY <1>1, <1>17, <1>18 DEF Going

-----------------------------------------------------------------------------
(* Every step.                                                              *)
LEMMA CleanGoes ==
  ASSUME IInv, LInv, Clean, [Next]_vars
  PROVE  (Clean' => Going') /\ (~Clean' => Faulty')
<1>1. CASE UNCHANGED vars
  <2>1. UNCHANGED <<ast, fn, phase, scopes, error, resolved_tree, stack, ret, warned>>
    BY <1>1 DEF vars
  <2>2. Clean'
    BY <2>1 DEF Clean
  <2>3. CASE phase = "declare"
    BY <2>1, <2>2, <2>3 DEF LInv, Going, Signed
  <2>4. CASE phase # "declare"
    <3>1. PICK P : Resolves(P)
      BY <2>4 DEF LInv, Going
    <3>2. Resolves(P)'
      BY <2>1, <3>1 DEF Resolves
    <3> QED BY <2>1, <2>2, <2>4, <3>2 DEF Going
  <2> QED BY <2>3, <2>4
<1>2. CASE DeclareFunction \/ EndDeclarations \/ EndProgram
  BY <1>2, DeclareFunctionGoes, EndDeclarationsGoes, EndProgramGoes
<1>3. CASE BeginBody \/ EndBody
  BY <1>3, BeginBodyGoes, EndBodyGoes
<1>4. CASE ResolveExprStmt \/ ResolveReturn \/ ResolveAssignment \/ ResolveDecl
  BY <1>4, SimpleGoes, DeclGoes
<1>5. CASE BeginIf \/ BeginWhile \/ BeginElse
  BY <1>5, BeginIfGoes, BeginWhileGoes, BeginElseGoes
<1>6. CASE EndBlock \/ EndWhile \/ EndIf \/ EndElse
  BY <1>6, EndBlockGoes, EndWhileGoes, EndIfGoes, EndElseGoes
<1> QED BY <1>1, <1>2, <1>3, <1>4, <1>5, <1>6 DEF Next

LEMMA NextLInv == IInv /\ LInv /\ [Next]_vars => LInv'
<1> SUFFICES ASSUME IInv, LInv, [Next]_vars PROVE LInv'
  OBVIOUS
<1>1. Ended'
  BY EndedStays DEF LInv
<1>2. CASE Clean
  BY <1>1, <1>2, CleanGoes DEF LInv
<1>3. CASE ~Clean
  <2>1. ~Clean'
    BY <1>3, ErrorStays DEF LInv
  <2>2. Faulty'
    BY <1>3, FaultyStays DEF LInv
  <2> QED BY <1>1, <2>1, <2>2 DEF LInv
<1> QED BY <1>2, <1>3

LEMMA Invariant == Spec => [](IInv /\ LInv)
<1>1. Init => IInv /\ LInv
  BY InitIInv, InitLInv
<1>2. IInv /\ LInv /\ [Next]_vars => (IInv /\ LInv)'
  BY NextIInv, NextLInv
<1> QED BY <1>1, <1>2, PTL DEF Spec

(* A crash has a reason too, an error before it, or where it happens.       *)
Excused == result = "crashed" => Faulty \/ Overflowing(ast)

(* A statement is the only thing that crashes.                              *)
LEMMA CrashedAt ==
  ASSUME IInv, LInv, [Next]_vars, result # "crashed", result' = "crashed"
  PROVE  /\ phase = "resolve" /\ UNCHANGED ast
         /\ \A P : Resolves(P) => ~WellTyped(ast) \/ Overflowing(ast)
<1> DEFINE f == Top
<1>1. SUFFICES \E kinds, r, is_return : /\ AtStmt(kinds) /\ UNCHANGED ast /\ Resolved(stack, r, is_return)
                                        /\ \A P : Resolves(P) => (r.is = "crash" =>
                                             ~WellTypedStmt(ast, f.at, f.n) \/ OverflowsAt(ast, f.at, f.n))
  <2>1. PICK kinds, r, is_return : /\ AtStmt(kinds) /\ UNCHANGED ast /\ Resolved(stack, r, is_return)
                                   /\ \A P : Resolves(P) => (r.is = "crash" =>
                                        ~WellTypedStmt(ast, f.at, f.n) \/ OverflowsAt(ast, f.at, f.n))
    BY <1>1
  <2>2. r.is = "crash"
    BY <2>1 DEF Resolved
  <2>3. \A P : Resolves(P) => Located(ast, scopes, f.at, f.n)
    BY <2>1, AtStatement
  <2>4. ASSUME NEW P, Resolves(P) PROVE ~WellTyped(ast) \/ Overflowing(ast)
    <3>1. /\ f.at \in Blocks(ast) /\ f.n \in DOMAIN Stmts(ast, f.at)
          /\ ~WellTypedStmt(ast, f.at, f.n) \/ OverflowsAt(ast, f.at, f.n)
      BY <2>1, <2>2, <2>3, <2>4 DEF Located
    <3> QED BY <3>1 DEF WellTyped, Overflowing
  <2>5. phase = "resolve"
    BY <2>1 DEF AtStmt, Resolving
  <2> QED BY <2>1, <2>4, <2>5
<1>2. CASE ResolveExprStmt
  <2> DEFINE kinds == {"num", "ref", "call", "unop", "binop", "group"}
             r == resolve_expr_stmt(ResolveExpr(scopes, stmt))
  <2>1. AtStmt(kinds) /\ UNCHANGED ast /\ Resolved(stack, r, FALSE)
    BY <1>2 DEF ResolveExprStmt
  <2>2. ASSUME NEW P, Resolves(P) PROVE Outcome(r, ast, f.at, f.n)
    <3>1. Located(ast, scopes, f.at, f.n) /\ stmt = Stmts(ast, f.at)[f.n] /\ stmt.k \in kinds
      BY <2>1, <2>2, AtStatement
    <3> QED BY <3>1, ExprStmtOutcome
  <2> QED BY <2>1, <2>2 DEF Outcome
<1>3. CASE ResolveReturn
  <2> DEFINE r == resolve_return_stmt(stmt, cur.type.kind = "void")
  <2>1. AtStmt({"return"}) /\ UNCHANGED ast /\ Resolved(stack, r, TRUE)
    BY <1>3 DEF ResolveReturn
  <2>2. ASSUME NEW P, Resolves(P) PROVE Outcome(r, ast, f.at, f.n)
    <3>1. /\ Located(ast, scopes, f.at, f.n) /\ stmt = Stmts(ast, f.at)[f.n] /\ stmt.k = "return"
          /\ ast[f.at[1][1]] = cur
      BY <2>1, <2>2, AtStatement
    <3> QED BY <3>1, ReturnOutcome
  <2> QED BY <2>1, <2>2 DEF Outcome
<1>4. CASE ResolveAssignment
  <2> DEFINE r == resolve_assignment(stmt)
  <2>1. AtStmt({"assign"}) /\ UNCHANGED ast /\ Resolved(stack, r, FALSE)
    BY <1>4 DEF ResolveAssignment
  <2>2. ASSUME NEW P, Resolves(P) PROVE Outcome(r, ast, f.at, f.n)
    <3>1. Located(ast, scopes, f.at, f.n) /\ stmt = Stmts(ast, f.at)[f.n] /\ stmt.k = "assign"
      BY <2>1, <2>2, AtStatement
    <3> QED BY <3>1, AssignmentOutcome
  <2> QED BY <2>1, <2>2 DEF Outcome
<1>5. CASE ResolveDecl
  <2> DEFINE r == resolve_decl_stmt(stmt, resolve_var_decl(stmt.var, place))
  <2>1. AtStmt({"decl"}) /\ UNCHANGED ast /\ Resolved(stack, r, FALSE)
    BY <1>5 DEF ResolveDecl
  <2>2. ASSUME NEW P, Resolves(P) PROVE Outcome(r, ast, f.at, f.n)
    <3>1. Located(ast, scopes, f.at, f.n) /\ stmt = Stmts(ast, f.at)[f.n] /\ stmt.k = "decl"
      BY <2>1, <2>2, AtStatement
    <3> QED BY <3>1, DeclOutcome DEF place
  <2> QED BY <2>1, <2>2 DEF Outcome
<1>6. CASE BeginIf \/ BeginWhile
  <2> DEFINE c == resolve_condition(stmt.condition)
  <2>1. PICK node \in {"if", "while"} : /\ AtStmt({node}) /\ UNCHANGED ast
                                        /\ \E stmts : BeginBlock(c, node, stmts)
    BY <1>6 DEF BeginIf, BeginWhile
  <2>2. Resolved(stack, c, FALSE)
    BY <2>1 DEF BeginBlock
  <2>3. ASSUME NEW P, Resolves(P)
        PROVE  c.is = "crash" => ~WellTypedStmt(ast, f.at, f.n) \/ OverflowsAt(ast, f.at, f.n)
    <3>1. Located(ast, scopes, f.at, f.n) /\ stmt = Stmts(ast, f.at)[f.n] /\ stmt.k \in {"if", "while"}
      BY <2>1, <2>3, AtStatement
    <3> QED BY <3>1, ConditionOutcome
  <2> QED BY <2>1, <2>2, <2>3
<1>7. CASE EndWhile \/ EndIf \/ EndElse
  <2>1. PICK node : EndStmt(node)
    BY <1>7 DEF EndWhile, EndIf, EndElse
  <2>2. (IF ret[1].is = "null" THEN nullptr ELSE Ok(node, FALSE)).is # "crash"
    BY DEF nullptr, Ok
  <2> QED BY <2>1, <2>2 DEF EndStmt, Resolved
<1>8. CASE DeclareFunction \/ EndDeclarations \/ BeginBody \/ EndBody \/ EndProgram \/ EndBlock \/ BeginElse
  BY <1>8 DEF DeclareFunction, EndDeclarations, BeginBody, EndBody, EndProgram, EndBlock, BeginElse
<1>9. CASE UNCHANGED vars
  BY <1>9 DEF vars
<1> QED BY <1>2, <1>3, <1>4, <1>5, <1>6, <1>7, <1>8, <1>9 DEF Next

LEMMA ExcusedStays == IInv /\ LInv /\ Excused /\ [Next]_vars => Excused'
<1> SUFFICES ASSUME IInv, LInv, Excused, [Next]_vars, result' = "crashed" PROVE (Faulty \/ Overflowing(ast))'
  BY DEF Excused
<1>1. UNCHANGED ast
  BY DEF Next, vars, DeclareFunction, EndDeclarations, BeginBody, EndBody, EndProgram, ResolveExprStmt, ResolveReturn,
         ResolveAssignment, ResolveDecl, BeginIf, BeginWhile, EndBlock, EndWhile, BeginElse, EndIf, EndElse, EndStmt
<1>2. Faulty => Faulty'
  BY FaultyStays DEF LInv
<1>3. Overflowing(ast) => Overflowing(ast)'
  BY <1>1
<1>4. CASE result = "crashed"
  BY <1>2, <1>3, <1>4 DEF Excused
<1>5. CASE result # "crashed" /\ ~Clean
  BY <1>2, <1>5 DEF LInv
<1>6. CASE result # "crashed" /\ Clean
  <2>1. phase = "resolve" /\ \A P : Resolves(P) => ~WellTyped(ast) \/ Overflowing(ast)
    BY <1>6, CrashedAt
  <2>2. \E P : Resolves(P)
    BY <2>1, <1>6 DEF LInv, Going
  <2>3. ~WellTyped(ast) => Faulty
    BY DEF Faulty
  <2> QED BY <2>1, <2>2, <2>3, <1>2, <1>3
<1> QED BY <1>4, <1>5, <1>6

LEMMA Reasons == Spec => []Excused
<1>1. Init => Excused
  BY DEF Init, Excused
<1> QED BY <1>1, Invariant, ExcusedStays, PTL DEF Spec

-----------------------------------------------------------------------------
(* As long as there is no error, every statement is resolved in the scopes  *)
(* that belong to its place.                                                *)
THEOREM Lexical == Spec => []ScopesAreLexical
<1>1. IInv /\ LInv => ScopesAreLexical
  <2> SUFFICES ASSUME IInv, LInv, Clean, result = "none", ret = <<>>, stack # <<>>
               PROVE  scopes \in ScopesAt(ast, Top.at, Top.n)
    BY DEF ScopesAreLexical
  <2> DEFINE f == Top
  <2>1. phase = "resolve" /\ Nested(stack) /\ AtBlock(stack) /\ f = stack[Len(stack)]
    BY DEF IInv, Typed, InBody, Balanced, Top
  <2>2. PICK P : Resolves(P)
    BY <2>1 DEF LInv, Going
  <2> HIDE DEF f
  <2>3. Here(ast, scopes, f)
    <3>1. Position(ast, fn, scopes, stack, ret, P)
      BY <2>2 DEF Resolves
    <3> QED BY <3>1, <2>1 DEF Position
  <2>4. IsPlace(f.at)
    <3> DEFINE b == SubSeq(stack, 1, Len(stack) - 1)
    <3>1. Chain(ast, warned, fn, stack, P) /\ f.k = "block"
      BY <2>1, <2>2 DEF Resolves, AtBlock
    <3>2. Fits(ast, warned, fn, b, stack[Len(stack)], P)
      BY <2>1, <3>1, ChainPop
    <3> HIDE DEF b
    <3> QED BY <2>1, <3>1, <3>2 DEF Fits, BlockOK
  <2>5. scopes \in ScopesAt(ast, f.at, f.n)
    BY <2>3, <2>4, InScopesAt DEF Here
  <2> QED BY <2>5 DEF f
<1> QED BY <1>1, Invariant, PTL

(* At the end of an accepted program every block is behind the resolution.  *)
LEMMA Accepted ==
  ASSUME IInv, LInv, result = "ok"
  PROVE  /\ ast \in Programs /\ WellTyped(ast) /\ ~Overflowing(ast)
         /\ \E P : Resolves(P) /\ Blocks(ast) \subseteq P
         /\ fn - 1 = Len(ast) /\ Len(ast) \in Nat /\ DOMAIN ast = 1 .. Len(ast)
<1>1. phase = "done" /\ fn = Len(ast) + 1 /\ Clean
  BY DEF LInv, Ended
<1>2. ast \in Programs /\ Len(ast) \in Nat /\ DOMAIN ast = 1 .. Len(ast)
  BY Lengths DEF IInv, Typed
<1>3. fn - 1 = Len(ast)
  <2> DEFINE len == Len(ast)
  <2>1. len \in Nat /\ fn = len + 1
    BY <1>1, <1>2
  <2> HIDE DEF len
  <2>2. fn - 1 = len
    BY <2>1
  <2> QED BY <2>2 DEF len
<1>4. PICK P : Resolves(P)
  BY <1>1 DEF LInv, Going
<1>5. WellTypedSignatures(ast) /\ FinishedOK(ast, warned, P) /\ \A i \in 1 .. fn - 1 : <<<<i, 1>>>> \in P
  BY <1>4 DEF Resolves, Done
<1>6. Blocks(ast) \subseteq P
  <2>1. \A i \in DOMAIN ast : <<<<i, 1>>>> \in P
    BY <1>2, <1>3, <1>5
  <2>2. \A at \in P : at \in Blocks(ast) =>
          \A n \in DOMAIN Stmts(ast, at) : \A m \in Inner(Stmts(ast, at)[n]) : Append(at, <<n, m>>) \in P
    BY <1>5 DEF FinishedOK, Passed
  <2> QED BY <1>2, <2>1, <2>2, LeastBlocks
<1>7. WellTyped(ast) /\ ~Overflowing(ast)
  BY <1>5, <1>6 DEF WellTyped, Overflowing, FinishedOK, Passed
<1> QED BY <1>2, <1>3, <1>4, <1>6, <1>7

(* What is accepted is well-typed without a flow error or a literal out of  *)
(* range, what is rejected is not well-typed or has a flow error, and what  *)
(* the compiler crashes on is one of these three.                           *)
THEOREM Acceptance == Spec => []AcceptsWellTyped
<1>1. IInv /\ LInv /\ Excused => AcceptsWellTyped
  <2> SUFFICES ASSUME IInv, LInv, Excused PROVE AcceptsWellTyped
    OBVIOUS
  <2> DEFINE fails == \E i \in DOMAIN resolved_tree : FlowErrors(resolved_tree[i])
  <2>1. ASSUME result = "ok" PROVE WellTyped(ast) /\ ~fails /\ ~Overflowing(ast)
    <3>1. WellTyped(ast) /\ ~Overflowing(ast) /\ \E P : Resolves(P)
      BY <2>1, Accepted
    <3>2. Len(resolved_tree) = fn - 1 /\ \A i \in 1 .. fn - 1 : ~FlowErrors(resolved_tree[i])
      BY <3>1 DEF Resolves, Done
    <3>3. DOMAIN resolved_tree = 1 .. Len(resolved_tree)
      BY LenProperties DEF LInv, Ended
    <3> QED BY <3>1, <3>2, <3>3
  <2>2. ASSUME result = "failed" PROVE ~WellTyped(ast) \/ fails
    BY <2>2 DEF LInv, Ended, Faulty
  <2>3. ASSUME result = "crashed" PROVE ~WellTyped(ast) \/ fails \/ Overflowing(ast)
    BY <2>3 DEF Excused, Faulty
  <2> QED BY <2>1, <2>2, <2>3 DEF AcceptsWellTyped
<1> QED BY <1>1, Invariant, Reasons, PTL

(* The tree of what is accepted is the one that scoping by position gives.  *)
THEOREM Binding == Spec => []BindsLexically
<1>1. IInv /\ LInv => BindsLexically
  <2> SUFFICES ASSUME IInv, LInv, result = "ok"
               PROVE  resolved_tree = [i \in DOMAIN ast |-> ElaboratedFunction(ast, i)]
    BY DEF BindsLexically
  <2>1. WellTyped(ast) /\ (\E P : Resolves(P)) /\ fn - 1 = Len(ast) /\ DOMAIN ast = 1 .. Len(ast)
    BY Accepted
  <2>2. Len(resolved_tree) = Len(ast) /\ \A i \in DOMAIN ast : resolved_tree[i] = ElaboratedFunction(ast, i)
    BY <2>1 DEF Resolves, Done
  <2>3. PICK S : resolved_tree \in Seq(S)
    BY DEF LInv, Ended
  <2>4. resolved_tree \in [DOMAIN ast -> S]
    BY <2>1, <2>2, <2>3, LenProperties
  <2> QED BY <2>2, <2>4
<1> QED BY <1>1, Invariant, PTL

(* Of all that stands behind a return in a block, the first statement is    *)
(* warned about, and nothing else.                                          *)
THEOREM Warnings == Spec => []WarnsOfUnreachable
<1>1. IInv /\ LInv => WarnsOfUnreachable
  <2> SUFFICES ASSUME IInv, LInv, result = "ok"
               PROVE  warned = UNION {Unreachable(ast, at) : at \in Blocks(ast)}
    BY DEF WarnsOfUnreachable
  <2>1. PICK P : Resolves(P) /\ Blocks(ast) \subseteq P
    BY Accepted
  <2>2. FinishedOK(ast, warned, P) /\ WarningsOK(ast, warned)
    BY <2>1 DEF Resolves, Done
  <2>3. ASSUME NEW at \in Blocks(ast), NEW x \in Unreachable(ast, at) PROVE x \in warned
    <3>1. PICK n \in DOMAIN Stmts(ast, at) : x = <<at, n>> /\ Behind(ast, at, n)
      BY <2>3 DEF Unreachable, Behind
    <3> QED BY <3>1, <2>1, <2>2 DEF FinishedOK, Warned
  <2> QED BY <2>2, <2>3 DEF WarningsOK
<1> QED BY <1>1, Invariant, PTL
=============================================================================
