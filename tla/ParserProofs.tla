---------------------------- MODULE ParserProofs ----------------------------
(* What is proved of the parser for every set of sources: errors reach the  *)
(* result, Eof is never eaten, what is accepted is the language of the      *)
(* grammar, and no error takes a well-formed function away.                 *)
EXTENDS ParserCorrect, SequenceTheorems, WellFoundedInduction, TLAPS

-----------------------------------------------------------------------------
(* What holds at a place if it holds at all later ones holds at every place. *)
LEMMA Backwards ==
  ASSUME NEW n \in Nat, NEW T,
         \A p \in 1 .. n : (\A q \in p + 1 .. n : q \in T) => p \in T
  PROVE  \A p \in 1 .. n : p \in T
<1> SUFFICES ASSUME ~\A p \in 1 .. n : p \in T PROVE FALSE
  OBVIOUS
<1> DEFINE U == {n - p : p \in {p \in 1 .. n : p \notin T}}
<1>1. U \subseteq Nat /\ U # {}
  <2>1. \A p \in 1 .. n : n - p \in Nat
    OBVIOUS
  <2> QED BY <2>1
<1>2. \E R : IsWellFoundedOn(R, Nat) /\ \A x, y \in Nat : x < y => <<x, y>> \in R
  <2>1. \A x, y \in Nat : x < y => <<x, y>> \in OpToRel(<, Nat)
    BY DEF OpToRel
  <2> QED BY <2>1, NatLessThanWellFounded
<1>3. PICK R : IsWellFoundedOn(R, Nat) /\ \A x, y \in Nat : x < y => <<x, y>> \in R
  BY <1>2
<1>4. \E x \in U : \A y \in U : <<y, x>> \notin R
  <2> DEFINE N == Nat
  <2>1. IsWellFoundedOn(R, N) /\ U \subseteq N
    BY <1>1, <1>3
  <2> HIDE DEF N, U
  <2>2. \E x \in U : \A y \in U : ~(<<y, x>> \in R)
    BY <1>1, <2>1, WFMin, Zenon
  <2> QED BY <2>2
<1>5. PICK x \in U : \A y \in U : <<y, x>> \notin R
  BY <1>4
<1>6. \A y \in U : ~(y < x)
  BY <1>1, <1>3, <1>5
<1>7. PICK p \in 1 .. n : x = n - p /\ p \notin T
  OBVIOUS
<1>8. ASSUME NEW q \in p + 1 .. n PROVE q \in T
  <2>1. q \in 1 .. n /\ n - q < x
    BY <1>7
  <2>2. n - q \notin U
    BY <1>6, <2>1
  <2> QED BY <2>1, <2>2
<1> QED BY <1>7, <1>8

-----------------------------------------------------------------------------
(* Kinds of tokens that are known by their names here. *)
Comma == ","
Semicolon == ";"
Open == "{"
Close == "}"

LEMMA Signs ==
  /\ \A x \in {Comma, Semicolon, Open, Close} :
       x \notin {"Eof", "fn", "Identifier", "Number", "(", ")", ":", "=", "-", "!", "if", "else", "while",
                "return", "let", "var", "void", "number"} /\ x \notin Binary
  /\ Comma # Semicolon /\ Comma # Open /\ Comma # Close
  /\ Semicolon # Open /\ Semicolon # Close /\ Open # Close
<1>1. \A x \in {Comma, Semicolon, Open, Close} :
        x \notin {"Eof", "fn", "Identifier", "Number", "(", ")", ":", "=", "-", "!", "if", "else", "while",
                 "return", "let", "var", "void", "number"}
  BY Zenon DEF Comma, Semicolon, Open, Close
<1>2. \A x \in {Comma, Semicolon, Open, Close} : x \notin Binary
  BY Zenon DEF Comma, Semicolon, Open, Close, Binary
<1>3. /\ Comma # Semicolon /\ Comma # Open /\ Comma # Close
      /\ Semicolon # Open /\ Semicolon # Close /\ Open # Close
  BY Zenon DEF Comma, Semicolon, Open, Close
<1> QED BY <1>1, <1>2, <1>3

-----------------------------------------------------------------------------
(* Places of a source. *)
Spots(t) == 1 .. Len(t) + 1

LEMMA SourceLength ==
  ASSUME NEW t \in Sources
  PROVE  t \in Seq(STRING) /\ Len(t) \in Nat /\ \A p \in 1 .. Len(t) : Kind(t, p) # "Eof"
<1>1. t \in Seq(STRING) /\ "Eof" \notin ToSet(t)
  BY SourcesAssumption
<1>2. ASSUME NEW p \in 1 .. Len(t) PROVE t[p] \in ToSet(t)
  BY <1>1 DEF ToSet
<1> QED BY <1>1, <1>2 DEF Kind

LEMMA EatOne ==
  ASSUME NEW t \in Sources, NEW p \in Spots(t), Kind(t, p) # "Eof"
  PROVE  p \in 1 .. Len(t) /\ p + 1 \in Spots(t)
  BY SourceLength DEF Spots, Kind

(* From p the parser comes to q and eats no 'fn' on the way. *)
Reach(t, p, q) ==
  /\ p \in Spots(t) /\ q \in Spots(t) /\ p <= q
  /\ \A i \in p .. q - 1 : Kind(t, i) # "fn"

LEMMA Reached ==
  ASSUME NEW t \in Sources, NEW p, NEW q, Reach(t, p, q)
  PROVE  /\ p \in Int /\ q \in Int /\ p <= q /\ p \in Spots(t) /\ q \in Spots(t)
         /\ p < q + 1
  BY SourceLength DEF Reach, Spots

LEMMA ReachSelf ==
  ASSUME NEW t \in Sources, NEW p \in Spots(t)
  PROVE  Reach(t, p, p)
  BY SourceLength DEF Reach, Spots

LEMMA ReachOne ==
  ASSUME NEW t \in Sources, NEW p \in Spots(t), Kind(t, p) \notin {"Eof", "fn"}
  PROVE  Reach(t, p, p + 1)
<1>1. p \in Int /\ p <= p + 1 /\ p + 1 \in Spots(t)
  BY EatOne DEF Spots
<1>2. \A i \in p .. (p + 1) - 1 : i = p
  BY <1>1
<1> QED BY <1>1, <1>2 DEF Reach

LEMMA ReachOn ==
  ASSUME NEW t \in Sources, NEW p, NEW q, NEW r, Reach(t, p, q), Reach(t, q, r)
  PROVE  Reach(t, p, r)
<1>1. p \in Int /\ q \in Int /\ r \in Int /\ p <= q /\ q <= r
  BY Reached
<1>2. ASSUME NEW i \in p .. r - 1 PROVE Kind(t, i) # "fn"
  <2>1. i \in p .. q - 1 \/ i \in q .. r - 1
    BY <1>1
  <2> QED BY <2>1 DEF Reach
<1> QED BY <1>1, <1>2 DEF Reach

(* One more token. *)
LEMMA ReachNext ==
  ASSUME NEW t \in Sources, NEW p, NEW q, Reach(t, p, q), Kind(t, q) \notin {"Eof", "fn"}
  PROVE  Reach(t, p, q + 1) /\ p < q + 1
  BY Reached, ReachOne, ReachOn

(* What a function that begins at p may leave behind. *)
Near(t, p, r) == Reach(t, p, r.pos)

Ahead(t, p, r) == Near(t, p, r) /\ (r.tree # <<>> => p < r.pos)

ExprsAhead(t, p) ==
  /\ Ahead(t, p, Expr(t, p)) /\ Ahead(t, p, Prefix(t, p)) /\ Near(t, p, Args(t, p))
  /\ \A k \in 0 .. 7 : Near(t, p, Loop(t, p, k))

LEMMA RhsAhead ==
  ASSUME NEW t, NEW lhs, NEW k
  PROVE  LET read == Loop(t, lhs.pos, k)
             r == parse_expr_rhs(t, lhs, k)
         IN  r.pos = read.pos /\ (r.tree = <<>> <=> read.tree = <<>>)
<1> DEFINE read == Loop(t, lhs.pos, k)
           r == parse_expr_rhs(t, lhs, k)
<1>1. \E x : r = IF read.tree = <<>> THEN read ELSE Parsed(read.pos, x)
  BY Zenon DEF parse_expr_rhs
<1>2. PICK x : r = IF read.tree = <<>> THEN read ELSE Parsed(read.pos, x)
  BY <1>1
<1> HIDE DEF r, read
<1>3. r.pos = read.pos /\ (r.tree = <<>> <=> read.tree = <<>>)
  BY <1>2 DEF Parsed
<1> QED BY <1>3 DEF r, read

(* The precedences. *)
LEMMA Precedences ==
  ASSUME NEW x
  PROVE  /\ x \in Binary => tok_precedence(x) \in 1 .. 6
         /\ x \notin Binary => tok_precedence(x) = -1
  BY DEF Binary, tok_precedence

AheadBehind(t, p) == \A q \in p + 1 .. Len(t) + 1 : ExprsAhead(t, q)

LEMMA Later ==
  ASSUME NEW t \in Sources, NEW p \in Spots(t), AheadBehind(t, p), NEW q \in Spots(t), p < q
  PROVE  /\ Ahead(t, q, Expr(t, q)) /\ Ahead(t, q, Prefix(t, q)) /\ Near(t, q, Args(t, q))
         /\ \A k \in 0 .. 7 : Near(t, q, Loop(t, q, k))
<1>1. q \in p + 1 .. Len(t) + 1
  BY SourceLength DEF Spots
<1> QED BY <1>1 DEF AheadBehind, ExprsAhead

LEMMA PrimaryAhead ==
  ASSUME NEW t \in Sources, NEW p \in Spots(t), AheadBehind(t, p)
  PROVE  Ahead(t, p, parse_primary(t, p))
<1> DEFINE e == Expr(t, p + 1)
<1>1. Ahead(t, p, Null(p))
  BY ReachSelf DEF Ahead, Near, Null
<1>2. Kind(t, p) \notin {"Eof", "fn"} => \A x : Ahead(t, p, Parsed(p + 1, x))
  BY ReachSelf, ReachNext DEF Ahead, Near, Parsed
<1>3. Kind(t, p) = "(" => Ahead(t, p, CloseGroup(t, e))
  <2> SUFFICES ASSUME Kind(t, p) = "(" PROVE Ahead(t, p, CloseGroup(t, e))
    OBVIOUS
  <2>1. Reach(t, p, p + 1) /\ p < p + 1
    BY ReachSelf, ReachNext
  <2>2. Reach(t, p, e.pos)
    BY <2>1, Reached, Later, ReachOn DEF Ahead, Near
  <2>3. Kind(t, e.pos) = ")" => Reach(t, p, e.pos + 1) /\ p < e.pos + 1
    BY <2>2, ReachNext
  <2>4. \/ CloseGroup(t, e) = Null(e.pos)
        \/ Kind(t, e.pos) = ")" /\ CloseGroup(t, e) = Parsed(e.pos + 1, grouping_expr(e.tree[1]))
    BY Zenon DEF CloseGroup
  <2> HIDE DEF e
  <2> QED BY <2>2, <2>3, <2>4 DEF Ahead, Near, Null, Parsed
<1>4. \/ Kind(t, p) = "Number" /\ parse_primary(t, p) = Parsed(p + 1, number_literal(t[p]))
      \/ Kind(t, p) = "Identifier" /\ parse_primary(t, p) = Parsed(p + 1, decl_ref_expr(t[p]))
      \/ Kind(t, p) = "(" /\ parse_primary(t, p) = CloseGroup(t, e)
      \/ parse_primary(t, p) = Null(p)
  BY Zenon DEF parse_primary
<1> QED BY <1>1, <1>2, <1>3, <1>4

LEMMA PrefixAhead ==
  ASSUME NEW t \in Sources, NEW p \in Spots(t), AheadBehind(t, p)
  PROVE  Ahead(t, p, Prefix(t, p))
<1> DEFINE e == parse_primary(t, p)
           args == Args(t, e.pos + 1)
           x == Prefix(t, p + 1)
<1>1. Ahead(t, p, e)
  BY PrimaryAhead
<1>2. e.tree # <<>> /\ Kind(t, e.pos) = "(" => Ahead(t, p, CallOf(e.tree[1], args))
  <2> SUFFICES ASSUME e.tree # <<>>, Kind(t, e.pos) = "(" PROVE Ahead(t, p, CallOf(e.tree[1], args))
    OBVIOUS
  <2>1. Reach(t, p, e.pos + 1) /\ p < e.pos + 1
    BY <1>1, ReachNext DEF Ahead, Near
  <2>2. Reach(t, e.pos + 1, args.pos)
    BY <2>1, Reached, Later DEF Near
  <2>3. Reach(t, p, args.pos) /\ p < args.pos
    <3> DEFINE q == e.pos + 1
    <3>1. Reach(t, p, q) /\ p < q /\ Reach(t, q, args.pos)
      BY <2>1, <2>2
    <3> HIDE DEF q, args
    <3>2. p \in Int /\ q \in Int /\ args.pos \in Int /\ q <= args.pos
      BY <3>1, Reached
    <3> QED BY <3>1, <3>2, ReachOn
  <2>4. \/ CallOf(e.tree[1], args) = args
        \/ CallOf(e.tree[1], args) = Parsed(args.pos, call_expr(e.tree[1], args.tree[1]))
    BY Zenon DEF CallOf
  <2> HIDE DEF e, args
  <2> QED BY <2>3, <2>4 DEF Ahead, Near, Parsed
<1>3. Ahead(t, p, parse_postfix_expr(t, p))
  BY <1>1, <1>2 DEF parse_postfix_expr
<1>4. Kind(t, p) \in {"-", "!"} => Ahead(t, p, UnaryOf(t[p], x))
  <2> SUFFICES ASSUME Kind(t, p) \in {"-", "!"} PROVE Ahead(t, p, UnaryOf(t[p], x))
    OBVIOUS
  <2>1. Reach(t, p, p + 1) /\ p < p + 1
    BY ReachSelf, ReachNext
  <2>2. Reach(t, p + 1, x.pos) /\ p + 1 \in Spots(t)
    BY <2>1, Reached, Later DEF Ahead, Near
  <2>3. Reach(t, p, x.pos) /\ p < x.pos
    <3>1. p \in Int /\ x.pos \in Int /\ p + 1 <= x.pos
      BY <2>1, <2>2, Reached
    <3> HIDE DEF x
    <3> QED BY <2>1, <2>2, <3>1, ReachOn
  <2>4. UnaryOf(t[p], x) = x \/ UnaryOf(t[p], x) = Parsed(x.pos, unary_op(x.tree[1], t[p]))
    BY Zenon DEF UnaryOf
  <2> HIDE DEF x
  <2> QED BY <2>3, <2>4 DEF Ahead, Near, Parsed
<1>5. Prefix(t, p) = parse_prefix_expr(t, p)
  BY UnfoldingAssumption DEF Spots
<1> QED BY <1>3, <1>4, <1>5 DEF parse_prefix_expr

LEMMA LoopAhead ==
  ASSUME NEW t \in Sources, NEW p \in Spots(t), AheadBehind(t, p), NEW k \in 0 .. 7
  PROVE  Near(t, p, Loop(t, p, k))
<1> DEFINE x == Prefix(t, p + 1)
           rhs == RightOperand(t, t[p], x)
           next == Loop(t, rhs.pos, k)
<1>1. Loop(t, p, k) = parse_loop(t, p, k)
  BY UnfoldingAssumption DEF Spots
<1>2. \/ Loop(t, p, k) = Parsed(p, <<>>)
      \/ Kind(t, p) \in Binary /\ rhs.tree = <<>> /\ Loop(t, p, k) = rhs
      \/ Kind(t, p) \in Binary /\ rhs.tree # <<>>
         /\ Loop(t, p, k) = Before([op |-> t[p], rhs |-> rhs.tree[1]], next)
  BY <1>1, Precedences DEF parse_loop
<1>3. CASE Kind(t, p) \in Binary
  <2>1. Kind(t, p) \notin {"Eof", "fn", "Identifier", "Number"}
    BY <1>3 DEF Binary
  <2>2. t[p] \in Binary
    BY <1>3, <2>1, EatOne DEF Kind
  <2>3. Reach(t, p, p + 1) /\ p < p + 1 /\ p + 1 \in Spots(t)
    BY <2>1, ReachSelf, ReachNext, Reached
  <2>4. Reach(t, p + 1, x.pos)
    BY <2>3, Later DEF Ahead, Near
  <2>5. Reach(t, p, x.pos) /\ p < x.pos /\ x.pos \in Spots(t)
    <3>1. p \in Int /\ x.pos \in Int /\ p + 1 <= x.pos /\ x.pos \in Spots(t)
      BY <2>3, <2>4, Reached
    <3> HIDE DEF x
    <3> QED BY <2>3, <2>4, <3>1, ReachOn
  <2>6. Reach(t, p, rhs.pos) /\ p < rhs.pos
    <3>1. CASE rhs = x
      BY <2>5, <3>1
    <3>2. CASE rhs # x
      <4> DEFINE m == tok_precedence(t[p]) + 1
                 read == Loop(t, x.pos, m)
      <4>1. x.tree # <<>> /\ rhs = parse_expr_rhs(t, x, m)
        BY <3>2 DEF RightOperand
      <4>2. m \in 0 .. 7
        BY <2>2, Precedences
      <4>3. rhs.pos = read.pos
        BY <4>1, RhsAhead
      <4> HIDE DEF x, m
      <4>4. Reach(t, x.pos, read.pos)
        BY <2>5, <4>2, Later DEF Near
      <4>5. p \in Int /\ x.pos \in Int /\ read.pos \in Int /\ x.pos <= read.pos
        BY <2>5, <4>4, Reached
      <4> HIDE DEF read
      <4> QED BY <2>5, <4>3, <4>4, <4>5, ReachOn
    <3> QED BY <3>1, <3>2
  <2>7. Reach(t, p, next.pos)
    <3> HIDE DEF rhs
    <3>1. Near(t, rhs.pos, next)
      BY <2>6, Reached, Later
    <3> QED BY <2>6, <3>1, ReachOn DEF Near
  <2> DEFINE y == [op |-> t[p], rhs |-> rhs.tree[1]]
  <2>8. \/ Before(y, next) = next
        \/ Before(y, next) = Parsed(next.pos, <<y>> \o next.tree[1])
    BY Zenon DEF Before
  <2> HIDE DEF y, next
  <2>9. Before(y, next).pos = next.pos
    BY <2>8 DEF Parsed
  <2>10. Loop(t, p, k).pos \in {p, rhs.pos, next.pos}
    BY <1>2, <2>9 DEF Parsed, y
  <2> HIDE DEF rhs
  <2> QED BY <2>6, <2>7, <2>10, ReachSelf DEF Near
<1>4. CASE Kind(t, p) \notin Binary
  BY <1>2, <1>4, ReachSelf DEF Near, Parsed
<1> QED BY <1>3, <1>4

LEMMA ExprAhead ==
  ASSUME NEW t \in Sources, NEW p \in Spots(t), AheadBehind(t, p)
  PROVE  Ahead(t, p, Expr(t, p))
<1> DEFINE x == Prefix(t, p)
           read == Loop(t, x.pos, 0)
<1>1. Expr(t, p) = parse_expr(t, p)
  BY UnfoldingAssumption DEF Spots
<1>2. Ahead(t, p, x)
  BY PrefixAhead
<1>3. CASE x.tree = <<>>
  BY <1>1, <1>2, <1>3 DEF parse_expr
<1>4. CASE x.tree # <<>>
  <2>1. Expr(t, p).pos = read.pos
    BY <1>1, <1>4, RhsAhead DEF parse_expr
  <2>2. Reach(t, p, x.pos) /\ p < x.pos
    BY <1>2, <1>4 DEF Ahead, Near
  <2>3. Reach(t, x.pos, read.pos)
    BY <2>2, Reached, Later DEF Near
  <2> HIDE DEF x, read
  <2>4. p \in Int /\ x.pos \in Int /\ read.pos \in Int /\ x.pos <= read.pos
    BY <2>2, <2>3, Reached
  <2>5. Reach(t, p, read.pos) /\ p < read.pos
    BY <2>2, <2>3, <2>4, ReachOn
  <2> QED BY <2>1, <2>5 DEF Ahead, Near
<1> QED BY <1>3, <1>4

LEMMA ArgsAhead ==
  ASSUME NEW t \in Sources, NEW p \in Spots(t), AheadBehind(t, p)
  PROVE  Near(t, p, Args(t, p))
<1> DEFINE e == Expr(t, p)
           next == Args(t, e.pos + 1)
           y == e.tree[1]
<1>1. Args(t, p) = parse_args(t, p)
  BY UnfoldingAssumption DEF Spots
<1>2. Reach(t, p, e.pos)
  BY ExprAhead DEF Ahead, Near
<1>3. \/ Args(t, p) = Parsed(p + 1, <<>>) /\ Kind(t, p) = ")"
      \/ Args(t, p) = NextArg(t, e)
  BY <1>1 DEF parse_args
<1>4. \/ NextArg(t, e) = Null(e.pos)
      \/ e.tree # <<>> /\ Kind(t, e.pos) = Comma /\ NextArg(t, e) = Before(y, next)
      \/ Kind(t, e.pos) = ")" /\ NextArg(t, e) = Parsed(e.pos + 1, e.tree)
  BY Zenon DEF NextArg, Comma
<1>5. Kind(t, e.pos) \in {Comma, ")"} => Reach(t, p, e.pos + 1) /\ p < e.pos + 1
  <2>1. Kind(t, e.pos) \in {Comma, ")"} => Kind(t, e.pos) \notin {"Eof", "fn"}
    BY Signs
  <2> QED BY <1>2, <2>1, ReachNext
<1>6. Kind(t, e.pos) = Comma => Reach(t, p, next.pos)
  <2> SUFFICES ASSUME Kind(t, e.pos) = Comma PROVE Reach(t, p, next.pos)
    OBVIOUS
  <2>1. Reach(t, p, e.pos + 1) /\ p < e.pos + 1
    BY <1>5
  <2>2. Near(t, e.pos + 1, next)
    BY <2>1, Reached, Later
  <2> HIDE DEF next
  <2> QED BY <2>1, <2>2, ReachOn DEF Near
<1>7. Before(y, next).pos = next.pos
  <2>1. \/ Before(y, next) = next
        \/ Before(y, next) = Parsed(next.pos, <<y>> \o next.tree[1])
    BY Zenon DEF Before
  <2> HIDE DEF y, next
  <2> QED BY <2>1 DEF Parsed
<1>8. CASE Args(t, p) = Parsed(p + 1, <<>>) /\ Kind(t, p) = ")"
  <2>1. Reach(t, p, p + 1)
    BY <1>8, ReachOne
  <2> QED BY <1>8, <2>1 DEF Near, Parsed
<1>9. CASE Args(t, p) = NextArg(t, e)
  <2>1. \/ Args(t, p).pos = e.pos
        \/ Kind(t, e.pos) = Comma /\ Args(t, p).pos = next.pos
        \/ Kind(t, e.pos) = ")" /\ Args(t, p).pos = e.pos + 1
    BY <1>4, <1>7, <1>9 DEF Null, Parsed
  <2> HIDE DEF e, next, y
  <2> QED BY <1>2, <1>5, <1>6, <2>1 DEF Near
<1> QED BY <1>3, <1>8, <1>9

(* The functions that read expressions stay inside the source, and go on.   *)
LEMMA AllAhead ==
  ASSUME NEW t \in Sources
  PROVE  \A p \in Spots(t) : ExprsAhead(t, p)
<1> DEFINE n == Len(t) + 1
           T == {p \in 1 .. n : ExprsAhead(t, p)}
<1>1. n \in Nat
  BY SourceLength
<1>2. ASSUME NEW p \in 1 .. n, \A q \in p + 1 .. n : q \in T PROVE p \in T
  <2>1. p \in Spots(t) /\ AheadBehind(t, p)
    BY <1>2 DEF Spots, AheadBehind
  <2>2. Ahead(t, p, Expr(t, p)) /\ Ahead(t, p, Prefix(t, p)) /\ Near(t, p, Args(t, p))
        /\ \A k \in 0 .. 7 : Near(t, p, Loop(t, p, k))
    BY <2>1, ExprAhead, PrefixAhead, ArgsAhead, LoopAhead
  <2> QED BY <2>2 DEF ExprsAhead, Ahead
<1> HIDE DEF n, T
<1>3. \A p \in 1 .. n : p \in T
  BY <1>1, <1>2, Backwards
<1> QED BY <1>3 DEF n, T, Spots

-----------------------------------------------------------------------------
(* The rules of the grammar, at a place of a source. *)
Rest(t, p) == p .. Len(t) + 1

LEMMA Rules ==
  ASSUME NEW t \in Sources, NEW i \in Spots(t)
  PROVE  /\ Ends("expr", t, i) = ExprEnds(t, i) /\ Ends("args", t, i) = ArgsEnds(t, i)
         /\ Ends("unary", t, i) = UnaryEnds(t, i) /\ Ends("stmts", t, i) = StmtsEnds(t, i)
         /\ Ends("if", t, i) = IfEnds(t, i) /\ Ends("params", t, i) = ParamsEnds(t, i)
         /\ Ends("functions", t, i) = FunctionsEnds(t, i)
<1>1. \A what \in Things : Ends(what, t, i) = EndsOf(what, t, i)
  BY GrammarAssumption DEF Spots
<1> QED BY <1>1 DEF Things, EndsOf

LEMMA InEat ==
  ASSUME NEW t, NEW S, NEW K, NEW x
  PROVE  x \in Eat(t, S, K) <=> \E i \in S : Kind(t, i) \in K /\ x = i + 1
  BY DEF Eat

LEMMA InThen ==
  ASSUME NEW t, NEW S, NEW what, NEW x
  PROVE  x \in Then(t, S, what) <=> \E i \in S : x \in Ends(what, t, i)
  BY DEF Then

(* What begins at p ends inside the source. *)
Wide(t, p) ==
  /\ \A what \in {"expr", "unary", "if"} : Ends(what, t, p) \subseteq Rest(t, p + 1)
  /\ \A what \in {"args", "stmts", "params", "functions"} : Ends(what, t, p) \subseteq Rest(t, p)

WideBehind(t, p) == \A q \in p + 1 .. Len(t) + 1 : Wide(t, q)

LEMMA EatIn ==
  ASSUME NEW t \in Sources, NEW p \in Spots(t), NEW S, NEW K, "Eof" \notin K
  PROVE  /\ S \subseteq Rest(t, p) => Eat(t, S, K) \subseteq Rest(t, p + 1)
         /\ S \subseteq Rest(t, p + 1) => Eat(t, S, K) \subseteq Rest(t, p + 1)
<1>1. p \in Int /\ Len(t) \in Nat /\ p >= 1
  BY SourceLength DEF Spots
<1>2. ASSUME NEW i \in Rest(t, p), Kind(t, i) \in K PROVE i + 1 \in Rest(t, p + 1)
  <2>1. i \in Spots(t) /\ Kind(t, i) # "Eof"
    BY <1>1, <1>2 DEF Rest, Spots
  <2>2. i \in 1 .. Len(t)
    BY <2>1, EatOne
  <2> QED BY <1>1, <2>2 DEF Rest
<1>3. Rest(t, p + 1) \subseteq Rest(t, p)
  BY <1>1 DEF Rest
<1>4. ASSUME S \subseteq Rest(t, p) PROVE Eat(t, S, K) \subseteq Rest(t, p + 1)
  <2> SUFFICES ASSUME NEW x \in Eat(t, S, K) PROVE x \in Rest(t, p + 1)
    OBVIOUS
  <2>1. PICK i \in S : Kind(t, i) \in K /\ x = i + 1
    BY InEat
  <2> QED BY <1>2, <1>4, <2>1
<1> QED BY <1>3, <1>4

LEMMA ThenIn ==
  ASSUME NEW t \in Sources, NEW p \in Spots(t), WideBehind(t, p), NEW what \in Things,
         NEW S, S \subseteq Rest(t, p + 1)
  PROVE  Then(t, S, what) \subseteq Rest(t, p + 1)
<1>1. p \in Int /\ Len(t) \in Nat /\ p >= 1
  BY SourceLength DEF Spots
<1> SUFFICES ASSUME NEW x \in Then(t, S, what) PROVE x \in Rest(t, p + 1)
  OBVIOUS
<1>2. PICK i \in S : x \in Ends(what, t, i)
  BY InThen
<1>3. i \in p + 1 .. Len(t) + 1
  BY DEF Rest
<1>4. x \in Rest(t, i) \/ x \in Rest(t, i + 1)
  BY <1>2, <1>3 DEF Things, WideBehind, Wide
<1> QED BY <1>1, <1>3, <1>4 DEF Rest

(* The kinds that occur in the rules are not that of the end. *)
LEMMA Eatable ==
  /\ "Eof" \notin {Comma} /\ "Eof" \notin {Semicolon} /\ "Eof" \notin {Open} /\ "Eof" \notin {Close}
  /\ "Eof" \notin Binary /\ "Eof" \notin Types
<1>1. "Eof" \notin {Comma} /\ "Eof" \notin {Semicolon} /\ "Eof" \notin {Open} /\ "Eof" \notin {Close}
  BY Zenon DEF Comma, Semicolon, Open, Close
<1>2. "Eof" \notin Binary /\ "Eof" \notin Types
  BY DEF Binary, Types
<1> QED BY <1>1, <1>2

LEMMA ExprWide ==
  ASSUME NEW t \in Sources, NEW p \in Spots(t), WideBehind(t, p)
  PROVE  /\ Ends("unary", t, p) \subseteq Rest(t, p + 1)
         /\ Ends("expr", t, p) \subseteq Rest(t, p + 1)
         /\ Ends("args", t, p) \subseteq Rest(t, p)
<1>0. p \in Int /\ Len(t) \in Nat /\ p >= 1 /\ p <= Len(t) + 1 /\ {p} \subseteq Rest(t, p)
      /\ Rest(t, p + 1) \subseteq Rest(t, p)
  BY SourceLength DEF Spots, Rest
<1>1. PrimaryEnds(t, p) \subseteq Rest(t, p + 1)
  <2>1. Eat(t, {p}, {"Number", "Identifier"}) \subseteq Rest(t, p + 1)
        /\ Eat(t, {p}, {"("}) \subseteq Rest(t, p + 1)
    BY <1>0, EatIn
  <2>2. Then(t, Eat(t, {p}, {"("}), "expr") \subseteq Rest(t, p + 1)
    BY <2>1, ThenIn DEF Things
  <2>3. Eat(t, Then(t, Eat(t, {p}, {"("}), "expr"), {")"}) \subseteq Rest(t, p + 1)
    BY <2>2, EatIn
  <2> QED BY <2>1, <2>3 DEF PrimaryEnds
<1>2. PostfixEnds(t, p) \subseteq Rest(t, p + 1)
  <2> DEFINE S == Eat(t, PrimaryEnds(t, p), {"("})
  <2>1. S \subseteq Rest(t, p + 1)
    BY <1>1, EatIn
  <2> HIDE DEF S
  <2>2. Then(t, S, "args") \subseteq Rest(t, p + 1)
    BY <2>1, ThenIn DEF Things
  <2>3. Eat(t, Then(t, S, "args"), {")"}) \subseteq Rest(t, p + 1)
    BY <2>2, EatIn
  <2> QED BY <1>1, <2>3 DEF PostfixEnds, S
<1>3. UnaryEnds(t, p) \subseteq Rest(t, p + 1)
  <2> DEFINE S == Eat(t, {p}, {"-", "!"})
  <2>1. S \subseteq Rest(t, p + 1)
    BY <1>0, EatIn
  <2> HIDE DEF S
  <2>2. Then(t, S, "unary") \subseteq Rest(t, p + 1)
    BY <2>1, ThenIn DEF Things
  <2> QED BY <1>2, <2>2 DEF UnaryEnds, S
<1>4. Ends("unary", t, p) \subseteq Rest(t, p + 1)
  <2>1. Ends("unary", t, p) = UnaryEnds(t, p)
    BY Rules
  <2> QED BY <1>3, <2>1
<1>5. Ends("expr", t, p) \subseteq Rest(t, p + 1)
  <2> DEFINE S == Eat(t, Ends("unary", t, p), Binary)
  <2>1. S \subseteq Rest(t, p + 1)
    BY <1>4, EatIn, Eatable
  <2> HIDE DEF S
  <2>2. Then(t, S, "expr") \subseteq Rest(t, p + 1)
    BY <2>1, ThenIn DEF Things
  <2>3. Ends("expr", t, p) = ExprEnds(t, p)
    BY Rules
  <2> QED BY <1>4, <2>2, <2>3 DEF ExprEnds, S
<1>6. Ends("args", t, p) \subseteq Rest(t, p)
  <2> DEFINE S == Eat(t, Ends("expr", t, p), {Comma})
  <2>1. S \subseteq Rest(t, p + 1)
    BY <1>5, EatIn, Eatable
  <2>2. Ends("args", t, p) = {p} \cup Ends("expr", t, p) \cup Then(t, S, "args")
    <3>1. Ends("args", t, p) = ArgsEnds(t, p)
      BY Rules
    <3> QED BY <3>1, Zenon DEF ArgsEnds, Comma
  <2> HIDE DEF S
  <2>3. Then(t, S, "args") \subseteq Rest(t, p + 1)
    BY <2>1, ThenIn DEF Things
  <2> QED BY <1>0, <1>5, <2>2, <2>3
<1> QED BY <1>4, <1>5, <1>6

(* The grammar of statements and functions, by the names of its kinds. *)
LEMMA BlockRule ==
  ASSUME NEW t, NEW S
  PROVE  BlockEnds(t, S) = Eat(t, Then(t, Eat(t, S, {Open}), "stmts"), {Close})
  BY Zenon DEF BlockEnds, Open, Close

LEMMA StmtRule ==
  ASSUME NEW t, NEW p
  PROVE  StmtEnds(t, p) = Eat(t, SimpleEnds(t, p), {Semicolon}) \cup Ends("if", t, p) \cup WhileEnds(t, p)
  BY Zenon DEF StmtEnds, Semicolon

LEMMA ParamsRule ==
  ASSUME NEW t, NEW p
  PROVE  ParamsEnds(t, p) = {p} \cup ParamEnds(t, p) \cup Then(t, Eat(t, ParamEnds(t, p), {Comma}), "params")
  BY Zenon DEF ParamsEnds, Comma

LEMMA BlockIn ==
  ASSUME NEW t \in Sources, NEW p \in Spots(t), WideBehind(t, p),
         NEW S, S \subseteq Rest(t, p)
  PROVE  BlockEnds(t, S) \subseteq Rest(t, p + 1)
<1> DEFINE A == Eat(t, S, {Open})
           B == Then(t, A, "stmts")
<1>1. A \subseteq Rest(t, p + 1)
  BY EatIn, Eatable
<1> HIDE DEF A
<1>2. B \subseteq Rest(t, p + 1)
  BY <1>1, ThenIn DEF Things
<1> HIDE DEF B
<1>3. Eat(t, B, {Close}) \subseteq Rest(t, p + 1)
  BY <1>2, EatIn, Eatable
<1> QED BY <1>3, BlockRule DEF A, B

LEMMA ThenExpr ==
  ASSUME NEW t \in Sources, NEW p \in Spots(t), WideBehind(t, p),
         NEW S, S \subseteq Rest(t, p), NEW K, "Eof" \notin K
  PROVE  Then(t, Eat(t, S, K), "expr") \subseteq Rest(t, p + 1)
<1>1. Eat(t, S, K) \subseteq Rest(t, p + 1)
  BY EatIn
<1> QED BY <1>1, ThenIn DEF Things

LEMMA Inclusions ==
  ASSUME NEW t \in Sources, NEW p \in Spots(t)
  PROVE  {p} \subseteq Rest(t, p) /\ Rest(t, p + 1) \subseteq Rest(t, p) /\ p + 1 \in Int
  BY SourceLength DEF Spots, Rest

LEMMA SimpleIn ==
  ASSUME NEW t \in Sources, NEW p \in Spots(t), WideBehind(t, p)
  PROVE  SimpleEnds(t, p) \subseteq Rest(t, p + 1)
<1>0. {p} \subseteq Rest(t, p) /\ Rest(t, p + 1) \subseteq Rest(t, p)
  BY Inclusions
<1>1. Ends("expr", t, p) \subseteq Rest(t, p + 1)
  BY ExprWide
<1>2. AssignEnds(t, p) \subseteq Rest(t, p + 1)
  <2> DEFINE S == Eat(t, {p}, {"Identifier"})
  <2>1. S \subseteq Rest(t, p)
    BY <1>0, EatIn
  <2> HIDE DEF S
  <2> QED BY <2>1, ThenExpr DEF AssignEnds, S
<1>3. ReturnEnds(t, p) \subseteq Rest(t, p + 1)
  <2>1. Eat(t, {p}, {"return"}) \subseteq Rest(t, p + 1)
    BY <1>0, EatIn
  <2>2. Then(t, Eat(t, {p}, {"return"}), "expr") \subseteq Rest(t, p + 1)
    BY <1>0, ThenExpr
  <2> QED BY <2>1, <2>2 DEF ReturnEnds
<1>4. DeclEnds(t, p) \subseteq Rest(t, p + 1)
  <2> DEFINE key == Eat(t, {p}, {"let", "var"})
             name == Eat(t, key, {"Identifier"})
             colon == Eat(t, name, {":"})
             S == name \cup Eat(t, colon, Types)
  <2>1. key \subseteq Rest(t, p + 1)
    BY <1>0, EatIn
  <2>2. name \subseteq Rest(t, p + 1)
    <3> HIDE DEF key
    <3> QED BY <2>1, EatIn
  <2>3. colon \subseteq Rest(t, p + 1)
    <3> HIDE DEF name
    <3> QED BY <2>2, EatIn
  <2>4. S \subseteq Rest(t, p + 1)
    <3> HIDE DEF name, colon
    <3> QED BY <2>2, <2>3, EatIn, Eatable
  <2>5. DeclEnds(t, p) = InitEnds(t, S)
    BY DEF DeclEnds
  <2> HIDE DEF S
  <2>6. Then(t, Eat(t, S, {"="}), "expr") \subseteq Rest(t, p + 1)
    BY <1>0, <2>4, ThenExpr
  <2> QED BY <2>4, <2>5, <2>6 DEF InitEnds
<1> QED BY <1>1, <1>2, <1>3, <1>4 DEF SimpleEnds

LEMMA StmtIn ==
  ASSUME NEW t \in Sources, NEW p \in Spots(t), WideBehind(t, p)
  PROVE  /\ Ends("if", t, p) \subseteq Rest(t, p + 1)
         /\ WhileEnds(t, p) \subseteq Rest(t, p + 1)
         /\ StmtEnds(t, p) \subseteq Rest(t, p + 1)
<1>0. {p} \subseteq Rest(t, p) /\ Rest(t, p + 1) \subseteq Rest(t, p)
  BY Inclusions
<1>1. Ends("if", t, p) \subseteq Rest(t, p + 1)
  <2> DEFINE c == Then(t, Eat(t, {p}, {"if"}), "expr")
             b == BlockEnds(t, c)
             key == Eat(t, b, {"else"})
  <2>1. c \subseteq Rest(t, p + 1)
    BY <1>0, ThenExpr
  <2>2. b \subseteq Rest(t, p + 1)
    <3> HIDE DEF c
    <3> QED BY <1>0, <2>1, BlockIn
  <2>3. key \subseteq Rest(t, p + 1)
    <3> HIDE DEF b
    <3> QED BY <2>2, EatIn
  <2>4. BlockEnds(t, key) \subseteq Rest(t, p + 1) /\ Then(t, key, "if") \subseteq Rest(t, p + 1)
    <3> HIDE DEF key
    <3> QED BY <1>0, <2>3, BlockIn, ThenIn DEF Things
  <2>5. IfEnds(t, p) = b \cup BlockEnds(t, key) \cup Then(t, key, "if")
    BY DEF IfEnds
  <2>6. Ends("if", t, p) = IfEnds(t, p)
    BY Rules
  <2> HIDE DEF b, key
  <2> QED BY <2>2, <2>4, <2>5, <2>6
<1>2. WhileEnds(t, p) \subseteq Rest(t, p + 1)
  <2> DEFINE c == Then(t, Eat(t, {p}, {"while"}), "expr")
  <2>1. c \subseteq Rest(t, p + 1)
    BY <1>0, ThenExpr
  <2> HIDE DEF c
  <2>2. BlockEnds(t, c) \subseteq Rest(t, p + 1)
    BY <1>0, <2>1, BlockIn
  <2> QED BY <2>2 DEF WhileEnds, c
<1>3. Eat(t, SimpleEnds(t, p), {Semicolon}) \subseteq Rest(t, p + 1)
  BY SimpleIn, EatIn, Eatable
<1> QED BY <1>1, <1>2, <1>3, StmtRule

LEMMA ParamIn ==
  ASSUME NEW t \in Sources, NEW p \in Spots(t)
  PROVE  ParamEnds(t, p) \subseteq Rest(t, p + 1)
<1> DEFINE name == Eat(t, {p}, {"Identifier"})
           colon == Eat(t, name, {":"})
<1>1. name \subseteq Rest(t, p + 1)
  BY Inclusions, EatIn
<1>2. colon \subseteq Rest(t, p + 1)
  <2> HIDE DEF name
  <2> QED BY <1>1, EatIn
<1>3. Eat(t, colon, Types) \subseteq Rest(t, p + 1)
  <2> HIDE DEF colon
  <2> QED BY <1>2, EatIn, Eatable
<1> QED BY <1>3 DEF ParamEnds

LEMMA BodyIn ==
  ASSUME NEW t \in Sources, NEW p \in Spots(t), WideBehind(t, p),
         NEW S, S \subseteq Rest(t, p)
  PROVE  BodyEnds(t, S) \subseteq Rest(t, p + 1)
<1> DEFINE close == Eat(t, S, {")"})
           colon == Eat(t, close, {":"})
           type == Eat(t, colon, Types)
<1>0. Rest(t, p + 1) \subseteq Rest(t, p)
  BY Inclusions
<1>1. close \subseteq Rest(t, p + 1)
  BY EatIn
<1>2. colon \subseteq Rest(t, p + 1)
  <2> HIDE DEF close
  <2> QED BY <1>1, EatIn
<1>3. type \subseteq Rest(t, p + 1)
  <2> HIDE DEF colon
  <2> QED BY <1>2, EatIn, Eatable
<1>4. BlockEnds(t, type) \subseteq Rest(t, p + 1)
  <2> HIDE DEF type
  <2> QED BY <1>0, <1>3, BlockIn
<1> QED BY <1>4 DEF BodyEnds

LEMMA FunctionIn ==
  ASSUME NEW t \in Sources, NEW p \in Spots(t), WideBehind(t, p)
  PROVE  FunctionEnds(t, p) \subseteq Rest(t, p + 1)
<1> DEFINE key == Eat(t, {p}, {"fn"})
           name == Eat(t, key, {"Identifier"})
           paren == Eat(t, name, {"("})
           params == Then(t, paren, "params")
<1>0. Rest(t, p + 1) \subseteq Rest(t, p)
  BY Inclusions
<1>1. key \subseteq Rest(t, p + 1)
  BY Inclusions, EatIn
<1>2. name \subseteq Rest(t, p + 1)
  <2> HIDE DEF key
  <2> QED BY <1>1, EatIn
<1>3. paren \subseteq Rest(t, p + 1)
  <2> HIDE DEF name
  <2> QED BY <1>2, EatIn
<1>4. params \subseteq Rest(t, p + 1)
  <2> HIDE DEF paren
  <2> QED BY <1>3, ThenIn DEF Things
<1>5. BodyEnds(t, params) \subseteq Rest(t, p + 1)
  <2> HIDE DEF params
  <2> QED BY <1>0, <1>4, BodyIn
<1> QED BY <1>5 DEF FunctionEnds

LEMMA ListsWide ==
  ASSUME NEW t \in Sources, NEW p \in Spots(t), WideBehind(t, p)
  PROVE  /\ Ends("stmts", t, p) \subseteq Rest(t, p)
         /\ Ends("params", t, p) \subseteq Rest(t, p)
         /\ Ends("functions", t, p) \subseteq Rest(t, p)
<1>0. {p} \subseteq Rest(t, p) /\ Rest(t, p + 1) \subseteq Rest(t, p)
  BY Inclusions
<1>1. Ends("stmts", t, p) \subseteq Rest(t, p)
  <2>1. StmtEnds(t, p) \subseteq Rest(t, p + 1)
    BY StmtIn
  <2>2. Then(t, StmtEnds(t, p), "stmts") \subseteq Rest(t, p + 1)
    BY <2>1, ThenIn DEF Things
  <2>3. Ends("stmts", t, p) = StmtsEnds(t, p)
    BY Rules
  <2> QED BY <1>0, <2>2, <2>3 DEF StmtsEnds
<1>2. Ends("params", t, p) \subseteq Rest(t, p)
  <2> DEFINE S == Eat(t, ParamEnds(t, p), {Comma})
  <2>1. ParamEnds(t, p) \subseteq Rest(t, p + 1)
    BY ParamIn
  <2>2. S \subseteq Rest(t, p + 1)
    BY <2>1, EatIn, Eatable
  <2>3. Ends("params", t, p) = {p} \cup ParamEnds(t, p) \cup Then(t, S, "params")
    <3>1. Ends("params", t, p) = ParamsEnds(t, p)
      BY Rules
    <3> QED BY <3>1, ParamsRule
  <2> HIDE DEF S
  <2>4. Then(t, S, "params") \subseteq Rest(t, p + 1)
    BY <2>2, ThenIn DEF Things
  <2> QED BY <1>0, <2>1, <2>3, <2>4
<1>3. Ends("functions", t, p) \subseteq Rest(t, p)
  <2>1. FunctionEnds(t, p) \subseteq Rest(t, p + 1)
    BY FunctionIn
  <2>2. Then(t, FunctionEnds(t, p), "functions") \subseteq Rest(t, p + 1)
    BY <2>1, ThenIn DEF Things
  <2>3. Ends("functions", t, p) = FunctionsEnds(t, p)
    BY Rules
  <2> QED BY <1>0, <2>2, <2>3 DEF FunctionsEnds
<1> QED BY <1>1, <1>2, <1>3

(* What the grammar reads stays inside the source, and goes on. *)
LEMMA AllWide ==
  ASSUME NEW t \in Sources
  PROVE  \A p \in Spots(t) : Wide(t, p) /\ WideBehind(t, p)
<1> DEFINE n == Len(t) + 1
           T == {p \in 1 .. n : Wide(t, p)}
<1>1. n \in Nat
  BY SourceLength
<1>2. ASSUME NEW p \in 1 .. n, \A q \in p + 1 .. n : q \in T PROVE p \in T
  <2>1. p \in Spots(t) /\ WideBehind(t, p)
    BY <1>2 DEF Spots, WideBehind
  <2> QED BY <2>1, ExprWide, StmtIn, ListsWide DEF Wide
<1> HIDE DEF n, T
<1>3. \A p \in 1 .. n : p \in T
  BY <1>1, <1>2, Backwards
<1>4. \A p \in Spots(t) : Wide(t, p)
  BY <1>3 DEF n, T, Spots
<1>5. ASSUME NEW p \in Spots(t) PROVE WideBehind(t, p)
  <2>1. \A q \in p + 1 .. Len(t) + 1 : q \in Spots(t)
    BY SourceLength DEF Spots
  <2> QED BY <1>4, <2>1 DEF WideBehind
<1> QED BY <1>4, <1>5

-----------------------------------------------------------------------------
(* Expressions.  The parser decides by the next token, the grammar leaves   *)
(* open where an expression ends: they agree wherever an expression is      *)
(* followed by what cannot go on with it.                                   *)
Hungry == Binary \cup {"("}

Hits(r, j) == r.tree # <<>> /\ r.pos = j

(* An expression that has come to q may end at j. *)
Chain(t, q, j) == q = j \/ (Kind(t, q) \in Binary /\ j \in Ends("expr", t, q + 1))

PrefixReads(t, p) ==
  \A j \in Spots(t) : Kind(t, j) # "(" => (j \in Ends("unary", t, p) <=> Hits(Prefix(t, p), j))

ExprReads(t, p) ==
  \A j \in Spots(t) : Kind(t, j) \notin Hungry => (j \in Ends("expr", t, p) <=> Hits(Expr(t, p), j))

ArgsReads(t, p) ==
  /\ \A j \in Spots(t) : Kind(t, j) = ")" => (j \in Ends("args", t, p) <=> Hits(Args(t, p), j + 1))
  /\ Args(t, p).tree # <<>> => Args(t, p).pos - 1 \in Spots(t) /\ Kind(t, Args(t, p).pos - 1) = ")"

LoopReads(t, p, k) ==
  LET read == Loop(t, p, k)
  IN  /\ read.tree # <<>> => tok_precedence(Kind(t, read.pos)) < k
      /\ \A j \in Spots(t) : Kind(t, j) \notin Hungry =>
           (Chain(t, p, j) <=> read.tree # <<>> /\ Chain(t, read.pos, j))

Reads(t, p) ==
  /\ PrefixReads(t, p) /\ ExprReads(t, p) /\ ArgsReads(t, p)
  /\ \A k \in 0 .. 7 : LoopReads(t, p, k)

ReadsBehind(t, p) == \A q \in p + 1 .. Len(t) + 1 : Reads(t, q)

LEMMA LaterReads ==
  ASSUME NEW t \in Sources, NEW p \in Spots(t), ReadsBehind(t, p), NEW q \in Int, p < q, q <= Len(t) + 1
  PROVE  /\ PrefixReads(t, q) /\ ExprReads(t, q) /\ ArgsReads(t, q)
         /\ \A k \in 0 .. 7 : LoopReads(t, q, k)
<1>1. q \in p + 1 .. Len(t) + 1
  BY SourceLength DEF Spots
<1> QED BY <1>1 DEF ReadsBehind, Reads

LEMMA EatSingle ==
  ASSUME NEW t, NEW p, NEW K
  PROVE  /\ Kind(t, p) \in K => Eat(t, {p}, K) = {p + 1}
         /\ Kind(t, p) \notin K => Eat(t, {p}, K) = {}
  BY DEF Eat

LEMMA ThenSingle ==
  ASSUME NEW t, NEW p, NEW what
  PROVE  Then(t, {p}, what) = Ends(what, t, p)
  BY DEF Then

LEMMA Nothing ==
  /\ \A t, K : Eat(t, {}, K) = {}
  /\ \A t, what : Then(t, {}, what) = {}
  BY DEF Eat, Then

(* The places of the three functions, in the form the steps below use. *)
LEMMA Inside ==
  ASSUME NEW t \in Sources, NEW p \in Spots(t)
  PROVE  /\ p \in Int /\ Len(t) \in Nat /\ 1 <= p /\ p <= Len(t) + 1
         /\ Prefix(t, p).pos \in Int /\ p <= Prefix(t, p).pos /\ Prefix(t, p).pos <= Len(t) + 1
         /\ Prefix(t, p).pos \in Spots(t)
         /\ Prefix(t, p).tree # <<>> => p < Prefix(t, p).pos
         /\ Expr(t, p).pos \in Int /\ p <= Expr(t, p).pos /\ Expr(t, p).pos <= Len(t) + 1
         /\ Expr(t, p).pos \in Spots(t)
         /\ Expr(t, p).tree # <<>> => p < Expr(t, p).pos
  BY AllAhead, SourceLength DEF ExprsAhead, Ahead, Near, Reach, Spots

LEMMA EndsInside ==
  ASSUME NEW t \in Sources, NEW p \in Spots(t)
  PROVE  /\ Ends("expr", t, p) \subseteq Spots(t) /\ Ends("unary", t, p) \subseteq Spots(t)
         /\ Ends("args", t, p) \subseteq Spots(t) /\ Ends("stmts", t, p) \subseteq Spots(t)
         /\ Ends("if", t, p) \subseteq Spots(t) /\ Ends("params", t, p) \subseteq Spots(t)
         /\ Ends("functions", t, p) \subseteq Spots(t)
<1>1. Rest(t, p) \subseteq Spots(t) /\ Rest(t, p + 1) \subseteq Spots(t)
  BY SourceLength DEF Rest, Spots
<1> QED BY <1>1, AllWide DEF Wide

LEMMA PrimaryReads ==
  ASSUME NEW t \in Sources, NEW p \in Spots(t), ReadsBehind(t, p), NEW j
  PROVE  j \in PrimaryEnds(t, p) <=> Hits(parse_primary(t, p), j)
<1> DEFINE e == Expr(t, p + 1)
           E == Ends("expr", t, p + 1)
<1>0. p \in Int /\ Len(t) \in Nat /\ p >= 1 /\ p <= Len(t) + 1
  BY SourceLength DEF Spots
<1>1. CASE Kind(t, p) \in {"Number", "Identifier"}
  <2>1. PrimaryEnds(t, p) = {p + 1}
    <3>1. Eat(t, {p}, {"Number", "Identifier"}) = {p + 1} /\ Eat(t, {p}, {"("}) = {}
      <4>1. Kind(t, p) \in {"Number", "Identifier"} /\ Kind(t, p) \notin {"("}
        BY <1>1
      <4>2. Eat(t, {p}, {"Number", "Identifier"}) = {p + 1}
        BY <4>1, EatSingle, Zenon
      <4>3. Eat(t, {p}, {"("}) = {}
        BY <4>1, EatSingle, Zenon
      <4> QED BY <4>2, <4>3
    <3>2. Then(t, {}, "expr") = {} /\ Eat(t, {}, {")"}) = {}
      BY Nothing
    <3> QED BY <3>1, <3>2 DEF PrimaryEnds
  <2>2. \E x : parse_primary(t, p) = Parsed(p + 1, x)
    BY <1>1, Zenon DEF parse_primary
  <2>3. parse_primary(t, p).tree # <<>> /\ parse_primary(t, p).pos = p + 1
    BY <2>2 DEF Parsed
  <2> QED BY <2>1, <2>3 DEF Hits
<1>2. CASE Kind(t, p) = "("
  <2>1. p + 1 \in Spots(t) /\ p < p + 1 /\ p + 1 <= Len(t) + 1
    BY <1>0, <1>2, EatOne
  <2>2. PrimaryEnds(t, p) = Eat(t, E, {")"})
    <3>1. Eat(t, {p}, {"Number", "Identifier"}) = {} /\ Eat(t, {p}, {"("}) = {p + 1}
      <4>1. Kind(t, p) \notin {"Number", "Identifier"} /\ Kind(t, p) \in {"("}
        BY <1>2
      <4> QED BY <4>1, EatSingle, Zenon
    <3>2. Then(t, {p + 1}, "expr") = E
      BY ThenSingle
    <3> QED BY <3>1, <3>2 DEF PrimaryEnds
  <2>3. \A i \in Spots(t) : Kind(t, i) = ")" => (i \in E <=> Hits(e, i))
    <3>1. ExprReads(t, p + 1)
      BY <1>0, <2>1, LaterReads
    <3>2. ")" \notin Hungry
      BY DEF Hungry, Binary
    <3> QED BY <3>1, <3>2 DEF ExprReads
  <2>4. E \subseteq Spots(t) /\ e.pos \in Spots(t)
    BY <2>1, EndsInside, Inside
  <2>5. parse_primary(t, p) = CloseGroup(t, e)
    BY <1>2, Zenon DEF parse_primary
  <2> HIDE DEF e, E
  <2>6. j \in Eat(t, E, {")"}) <=> e.tree # <<>> /\ Kind(t, e.pos) = ")" /\ j = e.pos + 1
    BY <2>3, <2>4, InEat DEF Hits
  <2>7. Hits(CloseGroup(t, e), j) <=> e.tree # <<>> /\ Kind(t, e.pos) = ")" /\ j = e.pos + 1
    <3>1. CASE e.tree = <<>> \/ Kind(t, e.pos) # ")"
      BY <3>1 DEF CloseGroup, Hits, Null
    <3>2. CASE e.tree # <<>> /\ Kind(t, e.pos) = ")"
      <4>1. CloseGroup(t, e) = Parsed(e.pos + 1, grouping_expr(e.tree[1]))
        BY <3>2, Zenon DEF CloseGroup
      <4>2. CloseGroup(t, e).tree # <<>> /\ CloseGroup(t, e).pos = e.pos + 1
        BY <4>1 DEF Parsed
      <4> QED BY <3>2, <4>2 DEF Hits
    <3> QED BY <3>1, <3>2
  <2> QED BY <2>2, <2>5, <2>6, <2>7
<1>3. CASE Kind(t, p) \notin {"Number", "Identifier", "("}
  <2>1. PrimaryEnds(t, p) = {}
    <3>1. Eat(t, {p}, {"Number", "Identifier"}) = {} /\ Eat(t, {p}, {"("}) = {}
      <4>1. Kind(t, p) \notin {"Number", "Identifier"} /\ Kind(t, p) \notin {"("}
        BY <1>3
      <4> QED BY <4>1, EatSingle, Zenon
    <3>2. Then(t, {}, "expr") = {} /\ Eat(t, {}, {")"}) = {}
      BY Nothing
    <3> QED BY <3>1, <3>2 DEF PrimaryEnds
  <2>2. parse_primary(t, p) = Null(p)
    BY <1>3, Zenon DEF parse_primary
  <2> QED BY <2>1, <2>2 DEF Hits, Null
<1> QED BY <1>1, <1>2, <1>3

LEMMA PostfixReads ==
  ASSUME NEW t \in Sources, NEW p \in Spots(t), ReadsBehind(t, p), NEW j \in Spots(t), Kind(t, j) # "("
  PROVE  j \in PostfixEnds(t, p) <=> Hits(parse_postfix_expr(t, p), j)
<1> DEFINE e == parse_primary(t, p)
           P == PrimaryEnds(t, p)
           A == Ends("args", t, e.pos + 1)
           args == Args(t, e.pos + 1)
<1>0. p \in Int /\ Len(t) \in Nat /\ p >= 1 /\ p <= Len(t) + 1
  BY SourceLength DEF Spots
<1>1. \A i : i \in P <=> Hits(e, i)
  BY PrimaryReads
<1>2. j \in PostfixEnds(t, p) <=> j \in P \/ j \in Eat(t, Then(t, Eat(t, P, {"("}), "args"), {")"})
  BY DEF PostfixEnds
<1>3. CASE e.tree = <<>> \/ Kind(t, e.pos) # "("
  <2>1. parse_postfix_expr(t, p) = e
    BY <1>3 DEF parse_postfix_expr
  <2>2. Eat(t, P, {"("}) = {}
    <3> HIDE DEF e, P
    <3> QED BY <1>1, <1>3, InEat DEF Hits
  <2>3. Then(t, {}, "args") = {} /\ Eat(t, {}, {")"}) = {}
    BY Nothing
  <2> QED BY <1>1, <1>2, <2>1, <2>2, <2>3
<1>4. CASE e.tree # <<>> /\ Kind(t, e.pos) = "("
  <2>1. P = {e.pos}
    <3> HIDE DEF e, P
    <3> QED BY <1>1, <1>4 DEF Hits
  <2>2. e.pos \in Int /\ p < e.pos /\ e.pos + 1 \in Spots(t) /\ e.pos + 1 <= Len(t) + 1
    <3>1. AheadBehind(t, p)
      BY AllAhead, SourceLength DEF AheadBehind, Spots
    <3>2. Ahead(t, p, e)
      BY <3>1, PrimaryAhead
    <3>3. e.pos \in Spots(t) /\ e.pos \in Int /\ p < e.pos
      BY <1>0, <1>4, <3>2 DEF Ahead, Near, Reach, Spots
    <3>4. e.pos + 1 \in Spots(t)
      BY <1>4, <3>3, EatOne
    <3> QED BY <1>0, <3>3, <3>4 DEF Spots
  <2>3. Eat(t, Then(t, Eat(t, P, {"("}), "args"), {")"}) = Eat(t, A, {")"})
    <3>1. Eat(t, {e.pos}, {"("}) = {e.pos + 1}
      BY <1>4, EatSingle
    <3>2. Then(t, {e.pos + 1}, "args") = A
      BY ThenSingle
    <3> QED BY <2>1, <3>1, <3>2
  <2>4. ArgsReads(t, e.pos + 1)
    <3>1. p < e.pos + 1 /\ e.pos + 1 \in Int
      BY <1>0, <2>2
    <3> QED BY <2>2, <3>1, LaterReads
  <2>5. A \subseteq Spots(t)
    BY <2>2, EndsInside
  <2>6. j \in Eat(t, A, {")"}) <=> Hits(args, j)
    <3>1. ASSUME NEW i \in A, Kind(t, i) \in {")"}, j = i + 1 PROVE Hits(args, j)
      BY <2>4, <2>5, <3>1 DEF ArgsReads
    <3>2. ASSUME Hits(args, j) PROVE \E i \in A : Kind(t, i) \in {")"} /\ j = i + 1
      <4> DEFINE i == args.pos - 1
      <4>1. i \in Spots(t) /\ Kind(t, i) = ")" /\ args.pos = j
        BY <2>4, <3>2 DEF ArgsReads, Hits
      <4>2. j = i + 1
        BY <4>1 DEF Spots
      <4>3. i \in A
        BY <2>4, <3>2, <4>1, <4>2 DEF ArgsReads
      <4> QED BY <4>1, <4>2, <4>3
    <3> HIDE DEF A
    <3> QED BY <3>1, <3>2, InEat
  <2>7. Hits(parse_postfix_expr(t, p), j) <=> Hits(args, j)
    <3>1. parse_postfix_expr(t, p) = CallOf(e.tree[1], args)
      BY <1>4 DEF parse_postfix_expr
    <3> DEFINE c == e.tree[1]
    <3> HIDE DEF args, c
    <3>2. args.tree = <<>> => CallOf(c, args) = args
      BY DEF CallOf
    <3>3. ASSUME args.tree # <<>> PROVE CallOf(c, args).tree # <<>> /\ CallOf(c, args).pos = args.pos
      <4>1. CallOf(c, args) = Parsed(args.pos, call_expr(c, args.tree[1]))
        BY <3>3, Zenon DEF CallOf
      <4> QED BY <4>1 DEF Parsed
    <3>4. Hits(CallOf(c, args), j) <=> Hits(args, j)
      BY <3>2, <3>3 DEF Hits
    <3> QED BY <3>1, <3>4 DEF c, args
  <2>8. j \notin P
    BY <1>4, <2>1
  <2> QED BY <1>2, <2>3, <2>6, <2>7, <2>8
<1> QED BY <1>3, <1>4

LEMMA PrefixReadsHere ==
  ASSUME NEW t \in Sources, NEW p \in Spots(t), ReadsBehind(t, p)
  PROVE  PrefixReads(t, p)
<1> SUFFICES ASSUME NEW j \in Spots(t), Kind(t, j) # "("
             PROVE  j \in Ends("unary", t, p) <=> Hits(Prefix(t, p), j)
  BY DEF PrefixReads
<1> DEFINE x == Prefix(t, p + 1)
<1>0. p \in Int /\ Len(t) \in Nat /\ p >= 1 /\ p <= Len(t) + 1
  BY SourceLength DEF Spots
<1>1. Prefix(t, p) = parse_prefix_expr(t, p)
  BY UnfoldingAssumption DEF Spots
<1>2. Ends("unary", t, p) = PostfixEnds(t, p) \cup Then(t, Eat(t, {p}, {"-", "!"}), "unary")
  <2>1. Ends("unary", t, p) = UnaryEnds(t, p)
    BY Rules
  <2> QED BY <2>1 DEF UnaryEnds
<1>3. j \in PostfixEnds(t, p) <=> Hits(parse_postfix_expr(t, p), j)
  BY PostfixReads
<1>4. CASE Kind(t, p) \notin {"-", "!"}
  <2>1. Then(t, Eat(t, {p}, {"-", "!"}), "unary") = {}
    <3>1. Eat(t, {p}, {"-", "!"}) = {}
      BY <1>4, EatSingle, Zenon
    <3> QED BY <3>1, Nothing
  <2>2. Prefix(t, p) = parse_postfix_expr(t, p)
    BY <1>1, <1>4 DEF parse_prefix_expr
  <2> QED BY <1>2, <1>3, <2>1, <2>2
<1>5. CASE Kind(t, p) \in {"-", "!"}
  <2>1. p + 1 \in Spots(t) /\ p + 1 \in Int /\ p < p + 1 /\ p + 1 <= Len(t) + 1
    BY <1>0, <1>5, EatOne DEF Spots
  <2>2. PrefixReads(t, p + 1)
    BY <2>1, LaterReads
  <2>3. Then(t, Eat(t, {p}, {"-", "!"}), "unary") = Ends("unary", t, p + 1)
    <3>1. Eat(t, {p}, {"-", "!"}) = {p + 1}
      BY <1>5, EatSingle, Zenon
    <3> QED BY <3>1, ThenSingle
  <2>4. j \notin PostfixEnds(t, p)
    <3>1. parse_primary(t, p) = Null(p)
      BY <1>5, Zenon DEF parse_primary
    <3>2. parse_postfix_expr(t, p).tree = <<>>
      BY <3>1 DEF parse_postfix_expr, Null
    <3> QED BY <1>3, <3>2 DEF Hits
  <2>5. Prefix(t, p) = UnaryOf(t[p], x)
    BY <1>1, <1>5 DEF parse_prefix_expr
  <2>6. j \in Ends("unary", t, p + 1) <=> Hits(x, j)
    BY <2>2 DEF PrefixReads
  <2> HIDE DEF x
  <2> DEFINE op == t[p]
  <2> HIDE DEF op
  <2>7. x.tree = <<>> => UnaryOf(op, x) = x
    BY DEF UnaryOf
  <2>8. ASSUME x.tree # <<>> PROVE UnaryOf(op, x).tree # <<>> /\ UnaryOf(op, x).pos = x.pos
    <3>1. UnaryOf(op, x) = Parsed(x.pos, unary_op(x.tree[1], op))
      BY <2>8, Zenon DEF UnaryOf
    <3> QED BY <3>1 DEF Parsed
  <2>9. Hits(UnaryOf(op, x), j) <=> Hits(x, j)
    BY <2>7, <2>8 DEF Hits
  <2> QED BY <1>2, <2>3, <2>4, <2>5, <2>6, <2>9 DEF op
<1> QED BY <1>4, <1>5

(* An expression is a chain behind its first operand. *)
LEMMA ChainFromPrefix ==
  ASSUME NEW t \in Sources, NEW p \in Spots(t), PrefixReads(t, p),
         NEW j \in Spots(t), Kind(t, j) \notin Hungry
  PROVE  j \in Ends("expr", t, p) <=> Prefix(t, p).tree # <<>> /\ Chain(t, Prefix(t, p).pos, j)
<1> DEFINE U == Ends("unary", t, p)
           x == Prefix(t, p)
<1>1. Ends("expr", t, p) = U \cup Then(t, Eat(t, U, Binary), "expr")
  <2>1. Ends("expr", t, p) = ExprEnds(t, p)
    BY Rules
  <2> QED BY <2>1 DEF ExprEnds
<1>2. j \in Ends("expr", t, p) <=> \E r \in U : Chain(t, r, j)
  <2> HIDE DEF U
  <2>1. j \in Then(t, Eat(t, U, Binary), "expr") <=> \E i \in Eat(t, U, Binary) : j \in Ends("expr", t, i)
    BY InThen
  <2>2. (\E i \in Eat(t, U, Binary) : j \in Ends("expr", t, i))
          <=> \E r \in U : Kind(t, r) \in Binary /\ j \in Ends("expr", t, r + 1)
    BY InEat
  <2> QED BY <1>1, <2>1, <2>2 DEF Chain
<1>3. ASSUME NEW r, Kind(t, r) = "(" PROVE ~Chain(t, r, j)
  BY <1>3 DEF Chain, Hungry, Binary
<1>4. U \subseteq Spots(t) /\ x.pos \in Spots(t)
  BY EndsInside, Inside
<1>5. \A r \in Spots(t) : Kind(t, r) # "(" => (r \in U <=> Hits(x, r))
  BY DEF PrefixReads
<1> HIDE DEF U, x
<1>6. (\E r \in U : Chain(t, r, j)) <=> x.tree # <<>> /\ Chain(t, x.pos, j)
  BY <1>3, <1>4, <1>5 DEF Hits
<1> QED BY <1>2, <1>6 DEF x

LEMMA ExprReadsHere ==
  ASSUME NEW t \in Sources, NEW p \in Spots(t), ReadsBehind(t, p)
  PROVE  ExprReads(t, p)
<1> SUFFICES ASSUME NEW j \in Spots(t), Kind(t, j) \notin Hungry
             PROVE  j \in Ends("expr", t, p) <=> Hits(Expr(t, p), j)
  BY DEF ExprReads
<1> DEFINE x == Prefix(t, p)
           read == Loop(t, x.pos, 0)
<1>1. Expr(t, p) = parse_expr(t, p)
  BY UnfoldingAssumption DEF Spots
<1>2. j \in Ends("expr", t, p) <=> x.tree # <<>> /\ Chain(t, x.pos, j)
  BY PrefixReadsHere, ChainFromPrefix
<1>3. CASE x.tree = <<>>
  BY <1>1, <1>2, <1>3 DEF parse_expr, Hits
<1>4. CASE x.tree # <<>>
  <2>1. LoopReads(t, x.pos, 0)
    <3>1. x.pos \in Int /\ p < x.pos /\ x.pos <= Len(t) + 1
      BY <1>4, Inside
    <3> HIDE DEF x
    <3> QED BY <3>1, LaterReads
  <2>2. Expr(t, p).pos = read.pos /\ (Expr(t, p).tree = <<>> <=> read.tree = <<>>)
    BY <1>1, <1>4, RhsAhead DEF parse_expr
  <2>3. read.tree # <<>> => (Chain(t, read.pos, j) <=> read.pos = j)
    BY <2>1, Precedences DEF LoopReads, Chain
  <2>4. Chain(t, x.pos, j) <=> read.tree # <<>> /\ Chain(t, read.pos, j)
    BY <2>1 DEF LoopReads
  <2> HIDE DEF x, read
  <2> QED BY <1>2, <1>4, <2>2, <2>3, <2>4 DEF Hits
<1> QED BY <1>3, <1>4

LEMMA LoopReadsHere ==
  ASSUME NEW t \in Sources, NEW p \in Spots(t), ReadsBehind(t, p), NEW k \in 0 .. 7
  PROVE  LoopReads(t, p, k)
<1> DEFINE x == Prefix(t, p + 1)
           rhs == RightOperand(t, t[p], x)
           next == Loop(t, rhs.pos, k)
           read == Loop(t, p, k)
<1>0. p \in Int /\ Len(t) \in Nat /\ p >= 1 /\ p <= Len(t) + 1
  BY SourceLength DEF Spots
<1>1. read = parse_loop(t, p, k)
  BY UnfoldingAssumption DEF Spots
<1>2. CASE tok_precedence(Kind(t, p)) < k
  <2>1. read = Parsed(p, <<>>)
    BY <1>1, <1>2 DEF parse_loop
  <2>2. read.tree # <<>> /\ read.pos = p
    BY <2>1 DEF Parsed
  <2> HIDE DEF read
  <2>3. LoopReads(t, p, k) <=>
          /\ read.tree # <<>> => tok_precedence(Kind(t, read.pos)) < k
          /\ \A j \in Spots(t) : Kind(t, j) \notin Hungry =>
               (Chain(t, p, j) <=> read.tree # <<>> /\ Chain(t, read.pos, j))
    BY DEF LoopReads, read
  <2> QED BY <1>2, <2>2, <2>3
<1>3. CASE ~(tok_precedence(Kind(t, p)) < k)
  <2>1. Kind(t, p) \in Binary
    BY <1>3, Precedences
  <2>2. p <= Len(t) /\ t[p] \in Binary /\ p + 1 \in Spots(t)
    <3>1. Kind(t, p) # "Eof" /\ Kind(t, p) # "Identifier" /\ Kind(t, p) # "Number"
      BY <2>1 DEF Binary
    <3>2. p \in 1 .. Len(t) /\ p + 1 \in Spots(t)
      BY <3>1, EatOne
    <3> QED BY <1>0, <2>1, <3>1, <3>2 DEF Kind
  <2>3. p + 1 \in Int /\ p < p + 1 /\ p + 1 <= Len(t) + 1
    BY <1>0, <2>2
  <2>4. ASSUME NEW j \in Spots(t), Kind(t, j) \notin Hungry
        PROVE  Chain(t, p, j) <=> x.tree # <<>> /\ Chain(t, x.pos, j)
    <3>1. Chain(t, p, j) <=> j \in Ends("expr", t, p + 1)
      BY <2>1, <2>4 DEF Chain, Hungry
    <3>2. PrefixReads(t, p + 1)
      BY <2>3, LaterReads
    <3> QED BY <2>2, <2>4, <3>1, <3>2, ChainFromPrefix
  <2>5. x.pos \in Int /\ p + 1 <= x.pos /\ x.pos <= Len(t) + 1
    BY <2>2, Inside
  <2>6. /\ rhs.pos \in Int /\ p < rhs.pos /\ rhs.pos <= Len(t) + 1
        /\ \A j \in Spots(t) : Kind(t, j) \notin Hungry =>
             (Chain(t, p, j) <=> rhs.tree # <<>> /\ Chain(t, rhs.pos, j))
    <3>1. CASE rhs = x
      <4>1. p < x.pos
        <5> HIDE DEF x
        <5> QED BY <1>0, <2>5
      <4> HIDE DEF x, rhs
      <4> QED BY <2>4, <2>5, <3>1, <4>1
    <3>2. CASE rhs # x
      <4> DEFINE m == tok_precedence(t[p]) + 1
                 more == Loop(t, x.pos, m)
      <4>1. x.tree # <<>> /\ rhs = parse_expr_rhs(t, x, m)
        BY <3>2 DEF RightOperand
      <4>2. m \in 0 .. 7
        BY <2>2, Precedences
      <4>3. rhs.pos = more.pos /\ (rhs.tree = <<>> <=> more.tree = <<>>)
        BY <4>1, RhsAhead
      <4> HIDE DEF x, m
      <4>4. x.pos \in Int /\ p < x.pos
        BY <1>0, <2>5
      <4>5. LoopReads(t, x.pos, m) /\ Near(t, x.pos, more)
        <5>1. AheadBehind(t, p)
          BY AllAhead, SourceLength DEF AheadBehind, Spots
        <5>2. \A i \in 0 .. 7 : LoopReads(t, x.pos, i) /\ Near(t, x.pos, Loop(t, x.pos, i))
          <6>1. x.pos \in Spots(t)
            BY <1>0, <2>5 DEF Spots
          <6> QED BY <2>5, <4>4, <5>1, <6>1, LaterReads, Later
        <5> QED BY <4>2, <5>2
      <4>6. \A j \in Spots(t) : Kind(t, j) \notin Hungry =>
              (Chain(t, x.pos, j) <=> more.tree # <<>> /\ Chain(t, more.pos, j))
        BY <4>5 DEF LoopReads
      <4>7. rhs.pos \in Int /\ p < rhs.pos /\ rhs.pos <= Len(t) + 1
        <5> HIDE DEF more
        <5>1. more.pos \in Int /\ x.pos <= more.pos /\ more.pos \in Spots(t)
          BY <4>5, Reached DEF Near
        <5> HIDE DEF more
        <5> QED BY <1>0, <4>3, <4>4, <5>1 DEF Spots
      <4> HIDE DEF more, rhs
      <4> QED BY <2>4, <4>1, <4>3, <4>6, <4>7
    <3> QED BY <3>1, <3>2
  <2>7. LoopReads(t, rhs.pos, k)
    <3> HIDE DEF rhs
    <3> QED BY <2>6, LaterReads
  <2>8. CASE rhs.tree = <<>>
    <3>1. read = rhs
      BY <1>1, <1>3, <2>8 DEF parse_loop
    <3>2. LoopReads(t, p, k) <=>
            /\ read.tree # <<>> => tok_precedence(Kind(t, read.pos)) < k
            /\ \A j \in Spots(t) : Kind(t, j) \notin Hungry =>
                 (Chain(t, p, j) <=> read.tree # <<>> /\ Chain(t, read.pos, j))
      BY DEF LoopReads
    <3> HIDE DEF read, rhs
    <3> QED BY <2>6, <2>8, <3>1, <3>2
  <2>9. CASE rhs.tree # <<>>
    <3> DEFINE y == [op |-> t[p], rhs |-> rhs.tree[1]]
    <3>1. read = Before(y, next)
      BY <1>1, <1>3, <2>9 DEF parse_loop
    <3>2. read.pos = next.pos /\ (read.tree = <<>> <=> next.tree = <<>>)
      <4>1. next.tree = <<>> => Before(y, next) = next
        BY DEF Before
      <4>2. ASSUME next.tree # <<>> PROVE Before(y, next).tree # <<>> /\ Before(y, next).pos = next.pos
        <5>1. Before(y, next) = Parsed(next.pos, <<y>> \o next.tree[1])
          BY <4>2, Zenon DEF Before
        <5> DEFINE l == <<y>> \o next.tree[1]
        <5> HIDE DEF l
        <5>2. Before(y, next) = Parsed(next.pos, l)
          BY <5>1 DEF l
        <5> HIDE DEF y, next
        <5> QED BY <5>2 DEF Parsed
      <4> HIDE DEF y, next, read
      <4> QED BY <3>1, <4>1, <4>2
    <3>3. /\ next.tree # <<>> => tok_precedence(Kind(t, next.pos)) < k
          /\ \A j \in Spots(t) : Kind(t, j) \notin Hungry =>
               (Chain(t, rhs.pos, j) <=> next.tree # <<>> /\ Chain(t, next.pos, j))
      BY <2>7 DEF LoopReads
    <3>4. LoopReads(t, p, k) <=>
            /\ read.tree # <<>> => tok_precedence(Kind(t, read.pos)) < k
            /\ \A j \in Spots(t) : Kind(t, j) \notin Hungry =>
                 (Chain(t, p, j) <=> read.tree # <<>> /\ Chain(t, read.pos, j))
      BY DEF LoopReads
    <3> HIDE DEF read, rhs, next, y
    <3> QED BY <2>6, <2>9, <3>2, <3>3, <3>4
  <2> QED BY <2>8, <2>9
<1> QED BY <1>2, <1>3

(* Where an expression cannot begin. *)
First == {"Number", "Identifier", "(", "-", "!"}

LEMMA NoStart ==
  ASSUME NEW t \in Sources, NEW p \in Spots(t), Kind(t, p) \notin First
  PROVE  Prefix(t, p) = Null(p) /\ Expr(t, p) = Null(p)
<1>1. parse_primary(t, p) = Null(p)
  BY Zenon DEF parse_primary, First
<1>2. parse_postfix_expr(t, p) = Null(p)
  BY <1>1 DEF parse_postfix_expr, Null
<1>3. parse_prefix_expr(t, p) = Null(p)
  BY <1>2 DEF parse_prefix_expr, First
<1>4. Prefix(t, p) = parse_prefix_expr(t, p) /\ Expr(t, p) = parse_expr(t, p)
  BY UnfoldingAssumption DEF Spots
<1> QED BY <1>3, <1>4 DEF parse_expr, Null

LEMMA ArgsReadsHere ==
  ASSUME NEW t \in Sources, NEW p \in Spots(t), ReadsBehind(t, p)
  PROVE  ArgsReads(t, p)
<1> DEFINE e == Expr(t, p)
           E == Ends("expr", t, p)
           A == Ends("args", t, p)
           all == Args(t, p)
           next == Args(t, e.pos + 1)
<1>0. p \in Int /\ Len(t) \in Nat /\ p >= 1 /\ p <= Len(t) + 1
  BY SourceLength DEF Spots
<1>1. all = parse_args(t, p)
  BY UnfoldingAssumption DEF Spots
<1>2. A = {p} \cup E \cup Then(t, Eat(t, E, {Comma}), "args")
  <2>1. A = ArgsEnds(t, p)
    BY Rules
  <2> QED BY <2>1, Zenon DEF ArgsEnds, Comma
<1>3. ASSUME NEW j
      PROVE  j \in A <=> j = p \/ j \in E \/ \E i \in E : Kind(t, i) = Comma /\ j \in Ends("args", t, i + 1)
  <2> HIDE DEF A, E
  <2>1. j \in Then(t, Eat(t, E, {Comma}), "args")
          <=> \E i \in Eat(t, E, {Comma}) : j \in Ends("args", t, i)
    BY InThen
  <2>2. (\E i \in Eat(t, E, {Comma}) : j \in Ends("args", t, i))
          <=> \E i \in E : Kind(t, i) = Comma /\ j \in Ends("args", t, i + 1)
    BY InEat
  <2> QED BY <1>2, <2>1, <2>2
<1>4. /\ E \subseteq Spots(t) /\ e.pos \in Spots(t)
      /\ \A i \in Spots(t) : Kind(t, i) \in {")", Comma} => (i \in E <=> Hits(e, i))
  <2>1. ")" \notin Hungry /\ Comma \notin Hungry
    BY Signs DEF Hungry, Binary
  <2> QED BY <2>1, ExprReadsHere, EndsInside, Inside DEF ExprReads
<1>5. Comma # ")" /\ Comma # "Eof"
  BY Signs
<1>6. CASE Kind(t, p) = ")"
  <2>1. e.tree = <<>>
    BY <1>6, NoStart DEF Null, First
  <2>2. all = Parsed(p + 1, <<>>)
    BY <1>1, <1>6 DEF parse_args
  <2>3. all.tree # <<>> /\ all.pos = p + 1
    BY <2>2 DEF Parsed
  <2>4. ASSUME NEW j \in Spots(t), Kind(t, j) = ")" PROVE j \in A <=> j = p
    <3> HIDE DEF A, E, e
    <3> QED BY <1>3, <1>4, <2>1, <2>4 DEF Hits
  <2> HIDE DEF A
  <2>5. \A j \in Spots(t) : Kind(t, j) = ")" => (j \in A <=> Hits(all, j + 1))
    <3> HIDE DEF all
    <3> QED BY <1>0, <2>3, <2>4 DEF Hits, Spots
  <2>6. all.pos - 1 = p
    <3> HIDE DEF all
    <3> QED BY <1>0, <2>3
  <2> QED BY <1>6, <2>5, <2>6 DEF ArgsReads, A
<1>7. CASE Kind(t, p) # ")"
  <2>1. all = NextArg(t, e)
    BY <1>1, <1>7 DEF parse_args
  <2>2. CASE e.tree = <<>> \/ Kind(t, e.pos) \notin {Comma, ")"}
    <3>1. all = Null(e.pos)
      <4>1. e.tree = <<>> => NextArg(t, e) = Null(e.pos)
        BY DEF NextArg
      <4>2. Kind(t, e.pos) \notin {Comma, ")"} => NextArg(t, e) = Null(e.pos)
        BY Zenon DEF NextArg, Comma
      <4> QED BY <2>1, <2>2, <4>1, <4>2
    <3>2. all.tree = <<>>
      BY <3>1 DEF Null
    <3>3. ASSUME NEW j \in Spots(t), Kind(t, j) = ")" PROVE j \notin A
      <4> HIDE DEF A, E, e
      <4> QED BY <1>3, <1>4, <1>7, <2>2, <3>3 DEF Hits
    <3> QED BY <3>2, <3>3 DEF ArgsReads, Hits
  <2>3. CASE e.tree # <<>> /\ Kind(t, e.pos) = ")"
    <3>1. all = Parsed(e.pos + 1, e.tree)
      BY <1>5, <2>1, <2>3, Zenon DEF NextArg, Comma
    <3>2. all.tree # <<>> /\ all.pos = e.pos + 1
      BY <3>1 DEF Parsed
    <3>3. ASSUME NEW j \in Spots(t), Kind(t, j) = ")" PROVE j \in A <=> j = e.pos
      <4> HIDE DEF A, E, e
      <4> QED BY <1>3, <1>4, <1>5, <1>7, <2>3, <3>3 DEF Hits
    <3>4. e.pos \in Int
      BY <1>4 DEF Spots
    <3>5. all.pos - 1 = e.pos
      <4> HIDE DEF all, e
      <4> QED BY <3>2, <3>4
    <3>6. \A j \in Spots(t) : Kind(t, j) = ")" => (j \in A <=> Hits(all, j + 1))
      <4> HIDE DEF all, A, e
      <4> QED BY <3>2, <3>3, <3>4 DEF Hits, Spots
    <3> QED BY <1>4, <2>3, <3>5, <3>6 DEF ArgsReads
  <2>4. CASE e.tree # <<>> /\ Kind(t, e.pos) = Comma
    <3> DEFINE y == e.tree[1]
    <3>1. all = Before(y, next)
      BY <2>1, <2>4, Zenon DEF NextArg, Comma
    <3>2. all.pos = next.pos /\ (all.tree = <<>> <=> next.tree = <<>>)
      <4>1. next.tree = <<>> => Before(y, next) = next
        BY DEF Before
      <4>2. ASSUME next.tree # <<>> PROVE Before(y, next).tree # <<>> /\ Before(y, next).pos = next.pos
        <5>1. Before(y, next) = Parsed(next.pos, <<y>> \o next.tree[1])
          BY <4>2, Zenon DEF Before
        <5> DEFINE l == <<y>> \o next.tree[1]
        <5> HIDE DEF l
        <5>2. Before(y, next) = Parsed(next.pos, l)
          BY <5>1 DEF l
        <5> HIDE DEF y, next
        <5> QED BY <5>2 DEF Parsed
      <4> HIDE DEF y, next, all
      <4> QED BY <3>1, <4>1, <4>2
    <3>3. e.pos + 1 \in Int /\ p < e.pos + 1 /\ e.pos + 1 <= Len(t) + 1
      <4>1. p < e.pos
        BY <2>4, Inside
      <4>2. e.pos \in 1 .. Len(t)
        BY <1>4, <1>5, <2>4, EatOne
      <4> HIDE DEF e
      <4> QED BY <1>0, <4>1, <4>2
    <3>4. ArgsReads(t, e.pos + 1)
      <4> HIDE DEF e
      <4> QED BY <3>3, LaterReads
    <3>5. ASSUME NEW j \in Spots(t), Kind(t, j) = ")"
          PROVE  j \in A <=> j \in Ends("args", t, e.pos + 1)
      <4> HIDE DEF A, E, e
      <4> QED BY <1>3, <1>4, <1>5, <1>7, <2>4, <3>5 DEF Hits
    <3>6. \A j \in Spots(t) : Kind(t, j) = ")" => (j \in A <=> Hits(all, j + 1))
      <4>1. \A j \in Spots(t) : Kind(t, j) = ")" =>
              (j \in Ends("args", t, e.pos + 1) <=> Hits(next, j + 1))
        BY <3>4 DEF ArgsReads
      <4>2. ASSUME NEW j PROVE Hits(all, j + 1) <=> Hits(next, j + 1)
        <5> HIDE DEF all, next
        <5> QED BY <3>2 DEF Hits
      <4> HIDE DEF all, next, A, e
      <4> QED BY <3>5, <4>1, <4>2
    <3>7. all.tree # <<>> => all.pos - 1 \in Spots(t) /\ Kind(t, all.pos - 1) = ")"
      <4>1. next.tree # <<>> => next.pos - 1 \in Spots(t) /\ Kind(t, next.pos - 1) = ")"
        BY <3>4 DEF ArgsReads
      <4> HIDE DEF all, next
      <4> QED BY <3>2, <4>1
    <3> QED BY <3>6, <3>7 DEF ArgsReads
  <2> QED BY <2>2, <2>3, <2>4
<1> QED BY <1>6, <1>7

(* The functions for expressions read one exactly where the grammar has one *)
(* and end where it cannot go on, at every place of every source.           *)
THEOREM ExpressionsRead ==
  ASSUME NEW t \in Sources
  PROVE  \A p \in Spots(t) : Reads(t, p)
<1> DEFINE n == Len(t) + 1
           T == {p \in 1 .. n : Reads(t, p)}
<1>1. n \in Nat
  BY SourceLength
<1>2. ASSUME NEW p \in 1 .. n, \A q \in p + 1 .. n : q \in T PROVE p \in T
  <2>1. p \in Spots(t) /\ ReadsBehind(t, p)
    BY <1>2 DEF Spots, ReadsBehind
  <2> QED BY <2>1, PrefixReadsHere, ExprReadsHere, ArgsReadsHere, LoopReadsHere DEF Reads
<1> HIDE DEF n, T
<1>3. \A p \in 1 .. n : p \in T
  BY <1>1, <1>2, Backwards
<1> QED BY <1>3 DEF n, T, Spots

-----------------------------------------------------------------------------
(* Until the end, an error is on its way to incomplete_ast or has set it.   *)
ErrorKept ==
  /\ incomplete_ast = TRUE \/ incomplete_ast = FALSE
  /\ reported = TRUE \/ reported = FALSE
  /\ mode # "parse" => result = "none" /\ ret.is = "none"
  /\ result = "none" => (reported <=> (incomplete_ast \/ ret.is = "null"))
  /\ result # "none" => ret.is = "none" /\ (result = "failed" <=> reported)

(* What the steps of the parsing functions have in common. *)
Settled ==
  \/ ret' = nullptr /\ reported' = TRUE
  \/ ret.is # "null" /\ ret'.is \in {"none", "value"} /\ UNCHANGED reported

Move == Parsing /\ Settled /\ UNCHANGED quiet

LEMMA GoFailReturn ==
  ASSUME NEW p, NEW stk, NEW v
  PROVE  /\ Go(p, stk) /\ ret.is # "null" => Settled
         /\ Fail(p, stk) => Settled
         /\ Return(p, stk, v) /\ ret.is # "null" => Settled
  BY DEF Go, Fail, Return, Settled, None, Value

LEMMA FunctionMoves ==
  ASSUME BeginFunction \/ ParseParam \/ EndParams \/ EndFunction
  PROVE  Move
<1>1. Parsing /\ ret.is # "null" /\ UNCHANGED quiet
  BY DEF BeginFunction, ParseParam, EndParams, EndFunction, AtTop, Running, Returned, Parsing
<1>2. BeginFunction => Settled
  BY <1>1, GoFailReturn DEF BeginFunction
<1>3. ParseParam => Settled
  BY <1>1, GoFailReturn, Zenon DEF ParseParam
<1>4. EndParams => Settled
  BY <1>1, GoFailReturn DEF EndParams
<1>5. EndFunction => Settled
  BY <1>1, GoFailReturn DEF EndFunction
<1> QED BY <1>1, <1>2, <1>3, <1>4, <1>5 DEF Move

LEMMA BlockMoves ==
  ASSUME EndBlock \/ UnclosedBlock \/ StatementParsed \/ PassOn
  PROVE  Move
<1>1. Parsing /\ UNCHANGED quiet
  BY DEF EndBlock, UnclosedBlock, StatementParsed, PassOn, Running, Returned
<1>2. EndBlock \/ StatementParsed => Settled
  BY GoFailReturn DEF EndBlock, StatementParsed, Running, Returned
<1>3. UnclosedBlock \/ PassOn => Settled
  BY GoFailReturn DEF UnclosedBlock, PassOn
<1> QED BY <1>1, <1>2, <1>3 DEF Move

LEMMA ReadMoves ==
  ASSUME ReadStep
  PROVE  Move
<1>1. Parsing /\ ret.is # "null" /\ UNCHANGED quiet
  BY DEF ReadStep, ParseReturn, ParseDecl, ParseAssignmentOrExpr, BeginIf, BeginWhile, BeginElseIf,
         Running, Returned
<1>2. ASSUME NEW r, Answer(r) PROVE Settled
  BY <1>1, <1>2, GoFailReturn DEF Answer
<1>3. ASSUME NEW p, NEW stk, BeginBlock(p, stk, IfFrame) \/ BeginBlock(p, stk, WhileFrame) PROVE Settled
  BY <1>1, <1>3, GoFailReturn, Zenon DEF BeginBlock
<1>4. ParseReturn \/ ParseDecl \/ ParseAssignmentOrExpr => Settled
  BY <1>2 DEF ParseReturn, ParseDecl, ParseAssignmentOrExpr
<1>5. BeginIf \/ BeginWhile \/ BeginElseIf => Settled
  BY <1>3, Zenon DEF BeginIf, BeginWhile, BeginElseIf
<1> QED BY <1>1, <1>4, <1>5 DEF Move, ReadStep

LEMMA EndMoves ==
  ASSUME EndWhile \/ EndTrueBlock \/ BeginElse \/ EndElse
  PROVE  Move
<1>1. Parsing /\ ret.is # "null" /\ UNCHANGED quiet
  BY DEF EndWhile, EndTrueBlock, BeginElse, EndElse, Returned
<1>2. EndWhile \/ EndTrueBlock \/ EndElse => Settled
  BY <1>1, GoFailReturn DEF EndWhile, EndTrueBlock, EndElse
<1>3. BeginElse => Settled
  BY <1>1, GoFailReturn DEF BeginElse
<1> QED BY <1>1, <1>2, <1>3 DEF Move

LEMMA InitErrorKept == Init => ErrorKept
  BY DEF Init, ErrorKept, None

LEMMA NextErrorKept == ErrorKept /\ [Next]_vars => ErrorKept'
<1> SUFFICES ASSUME ErrorKept, [Next]_vars PROVE ErrorKept'
  OBVIOUS
<1>1. CASE NotAFunction \/ FunctionFailed
  BY <1>1 DEF NotAFunction, FunctionFailed, synchronize_on, ErrorKept, AtTop, Parsing, None
<1>2. CASE FunctionParsed
  BY <1>2 DEF FunctionParsed, ErrorKept, AtTop, Parsing, None
<1>3. CASE EndOfFile
  BY <1>3, Zenon DEF EndOfFile, ErrorKept, AtTop, Parsing
<1>4. CASE StatementFailed
  BY <1>4 DEF StatementFailed, ErrorKept, Parsing, None
<1>5. CASE Synchronize \/ SynchronizeOn
  <2>1. mode # "parse" /\ UNCHANGED skipping
    BY <1>5 DEF Synchronize, SynchronizeTo, SynchronizeOn
  <2> QED BY <2>1 DEF ErrorKept, skipping
<1>6. CASE Move
  BY <1>6 DEF ErrorKept, Move, Settled, Parsing, quiet, nullptr
<1>7. CASE UNCHANGED vars
  BY <1>7 DEF vars, ErrorKept
<1> QED BY <1>1, <1>2, <1>3, <1>4, <1>5, <1>6, <1>7, FunctionMoves, BlockMoves, ReadMoves, EndMoves
        DEF Next, OtherStep

(* Whatever is wrong with a source, and however its errors travel through   *)
(* nullptrs and recoveries: the parse fails exactly if one was reported.    *)
THEOREM ErrorsReachTheResult == Spec => []NoErrorLost
<1>1. ErrorKept => NoErrorLost
  BY DEF ErrorKept, NoErrorLost
<1> QED BY InitErrorKept, NextErrorKept, <1>1, PTL DEF Spec

-----------------------------------------------------------------------------
(* Where next_token can be. *)
Places == 1 .. Len(tokens) + 1

(* Frames are updated field by field: they are records of their fields.     *)
FrameOK(f) ==
  /\ f.k \in Frames
  /\ f.k = "block" => f = [k |-> "block", stmts |-> f.stmts]
  /\ f.k = "fn" => f = [k |-> "fn", loc |-> f.loc, identifier |-> f.identifier, params |-> f.params]

Stacked(s) == \E S : s \in Seq(S) /\ \A f \in S : FrameOK(f)

(* The inductive invariant.  synchronize has eaten every brace it counts.   *)
Placed ==
  /\ tokens \in Sources /\ pos \in Places
  /\ braces \in 0 .. Len(tokens) /\ (mode = "sync" => braces < pos)
  /\ mode \in {"parse", "sync", "sync_on"} /\ ret.is \in {"none", "null", "value"}
  /\ result \in {"none", "ok", "failed"}
  /\ Stacked(stack)

(* A step of a parsing function goes to a place, over no 'fn'.              *)
Goes(p) == Reach(tokens, pos, p)

Lands(p, stk) == Goes(p) /\ Stacked(stk)

LEMMA Here ==
  ASSUME Placed
  PROVE  tokens \in Sources /\ Goes(pos)
  BY ReachSelf DEF Placed, Places, Spots, Goes

LEMMA GoesTo ==
  ASSUME tokens \in Sources, NEW p, Goes(p)
  PROVE  p \in Places /\ p \in Spots(tokens) /\ p \in Int
  BY Reached DEF Goes, Places, Spots

LEMMA Eaten ==
  ASSUME tokens \in Sources, NEW p, Goes(p), Kind(tokens, p) # "Eof", Kind(tokens, p) # "fn"
  PROVE  Goes(p + 1)
  BY ReachNext DEF Goes

LEMMA EatenTwo ==
  ASSUME tokens \in Sources, NEW p, Goes(p), Goes(p + 1), Kind(tokens, p + 1) # "Eof", Kind(tokens, p + 1) # "fn"
  PROVE  Goes(p + 2)
<1>1. Goes((p + 1) + 1)
  BY Eaten
<1>2. (p + 1) + 1 = p + 2
  BY GoesTo
<1> QED BY <1>1, <1>2

LEMMA TypeLands ==
  ASSUME tokens \in Sources, NEW p, Goes(p)
  PROVE  Goes(parse_type(p).pos)
<1>1. \/ Kind(tokens, p) # "Eof" /\ Kind(tokens, p) # "fn" /\ parse_type(p).pos = p + 1
      \/ parse_type(p).pos = p
  <2>1. \/ Kind(tokens, p) \in {"void", "number", "Identifier"} /\ (\E t : parse_type(p) = Parsed(p + 1, t))
        \/ parse_type(p) = Null(p)
    BY Zenon DEF parse_type
  <2> QED BY <2>1 DEF Parsed, Null
<1> QED BY <1>1, Eaten

LEMMA ExprLands ==
  ASSUME tokens \in Sources, NEW p, Goes(p)
  PROVE  /\ Goes(Expr(tokens, p).pos) /\ Goes(Prefix(tokens, p).pos)
         /\ Prefix(tokens, p).tree # <<>> => Goes(parse_expr_rhs(tokens, Prefix(tokens, p), 0).pos)
<1> DEFINE t == tokens
           x == Prefix(t, p)
<1>1. p \in Spots(t) /\ t \in Sources
  BY GoesTo
<1>2. Reach(t, p, Expr(t, p).pos) /\ Reach(t, p, x.pos)
  BY <1>1, AllAhead DEF ExprsAhead, Ahead, Near
<1>3. Goes(Expr(t, p).pos) /\ Goes(x.pos)
  BY <1>2, ReachOn DEF Goes
<1> HIDE DEF t
<1>4. x.tree # <<>> => Expr(t, p) = parse_expr_rhs(t, x, 0)
  <2>1. Expr(t, p) = parse_expr(t, p)
    BY <1>1, UnfoldingAssumption DEF Spots
  <2> QED BY <2>1 DEF parse_expr
<1> QED BY <1>3, <1>4 DEF t

LEMMA SemiLands ==
  ASSUME tokens \in Sources, NEW r, Goes(r.pos)
  PROVE  Goes(Semi(r).pos)
<1>1. \/ Semi(r).pos = r.pos
      \/ Kind(tokens, r.pos) = ";" /\ Semi(r).pos = r.pos + 1
  BY DEF Semi, Null, Parsed
<1> QED BY <1>1, Eaten

LEMMA TopBelow ==
  ASSUME NEW s, Stacked(s), s # <<>>
  PROVE  FrameOK(s[Len(s)]) /\ Stacked(SubSeq(s, 1, Len(s) - 1))
<1>1. PICK S : s \in Seq(S) /\ \A f \in S : FrameOK(f)
  BY DEF Stacked
<1>2. Len(s) \in Nat /\ Len(s) > 0
  BY <1>1
<1>3. s[Len(s)] \in S
  BY <1>1, <1>2
<1>4. SubSeq(s, 1, Len(s) - 1) \in Seq(S)
  <2> DEFINE n == Len(s) - 1
  <2>1. 1 \in Int /\ n \in Int /\ n >= 0 /\ \A i \in 1 .. n : s[i] \in S
    BY <1>1, <1>2
  <2> HIDE DEF n
  <2>2. SubSeq(s, 1, n) \in Seq(S)
    BY <1>1, <2>1, SubSeqProperties
  <2> QED BY <2>2 DEF n
<1> QED BY <1>1, <1>3, <1>4 DEF Stacked

LEMMA Pushed ==
  ASSUME NEW s, Stacked(s), NEW f, FrameOK(f)
  PROVE  Stacked(Append(s, f)) /\ Stacked(s \o <<f, Block>>)
<1>1. PICK S : s \in Seq(S) /\ \A g \in S : FrameOK(g)
  BY DEF Stacked
<1>2. FrameOK(Block)
  BY DEF FrameOK, Block, Frames
<1> DEFINE T == S \cup {f, Block}
<1>3. s \in Seq(T) /\ \A g \in T : FrameOK(g)
  BY <1>1, <1>2
<1>4. Append(s, f) \in Seq(T) /\ s \o <<f, Block>> \in Seq(T)
  BY <1>3
<1> QED BY <1>3, <1>4 DEF Stacked

LEMMA Alones ==
  /\ Stacked(<<>>)
  /\ \A f : FrameOK(f) => Stacked(<<f>>) /\ Stacked(<<f, Block>>)
<1>1. Stacked(<<>>)
  <2> DEFINE T == {}
  <2>1. <<>> \in Seq(T) /\ \A f \in T : FrameOK(f)
    OBVIOUS
  <2> HIDE DEF T
  <2> QED BY <2>1 DEF Stacked
<1>2. ASSUME NEW f, FrameOK(f) PROVE Stacked(<<f>>) /\ Stacked(<<f, Block>>)
  <2>1. Append(<<>>, f) = <<f>> /\ <<>> \o <<f, Block>> = <<f, Block>>
    OBVIOUS
  <2> QED BY <1>1, <1>2, <2>1, Pushed
<1> QED BY <1>1, <1>2

-----------------------------------------------------------------------------
LEMMA GoFailReturnLand ==
  ASSUME NEW p, NEW stk, NEW v, Lands(p, stk), Go(p, stk) \/ Fail(p, stk) \/ Return(p, stk, v)
  PROVE  Lands(pos', stack')
  BY DEF Go, Fail, Return

(* The frame that returns what it has, and the one below it. *)
LEMMA TopOfStack ==
  ASSUME Placed, stack # <<>>
  PROVE  FrameOK(Top) /\ Stacked(Below)
  BY TopBelow DEF Placed, Top, Below

LEMMA StatementLands ==
  ASSUME Placed, Running("block"), kind \notin {"}", "Eof", "fn"}
  PROVE  /\ kind = "return" => Goes(parse_return_stmt(pos).pos)
         /\ kind \in {"let", "var"} => Goes(parse_decl_stmt(pos).pos)
         /\ Goes(parse_assignment_or_expr(pos).pos)
<1>1. tokens \in Sources /\ Goes(pos) /\ Goes(pos + 1)
  BY Here, Eaten DEF kind
<1>2. ASSUME NEW p, Goes(p), Goes(p + 1), Kind(tokens, p + 1) # "Eof", Kind(tokens, p + 1) # "fn"
      PROVE  Goes(p + 2)
  BY <1>1, <1>2, EatenTwo
<1>3. Goes(parse_return_stmt(pos).pos)
  <2>1. Kind(tokens, pos + 1) = ";" => Goes(pos + 2)
    BY <1>1, <1>2
  <2> DEFINE r == Map(Expr(tokens, pos + 1), LAMBDA e : return_stmt(<<e>>))
  <2>2. Goes(r.pos)
    BY <1>1, ExprLands DEF Map, Parsed
  <2>3. Goes(Semi(r).pos)
    BY <1>1, <2>2, SemiLands
  <2>4. Parsed(pos + 2, return_stmt(<<>>)).pos = pos + 2
    BY DEF Parsed
  <2> QED BY <2>1, <2>3, <2>4 DEF parse_return_stmt
<1>4. ASSUME NEW id, NEW t, NEW m, NEW p, Goes(p)
      PROVE  Goes(Initialized(id, t, m, p).pos)
  <2>1. CASE Kind(tokens, p) # "="
    BY <1>4, <2>1 DEF Initialized, Parsed
  <2>2. CASE Kind(tokens, p) = "="
    <3>1. Goes(p + 1)
      BY <1>1, <1>4, <2>2, Eaten
    <3>2. Goes(Expr(tokens, p + 1).pos)
      BY <1>1, <3>1, ExprLands
    <3> QED BY <2>2, <3>2 DEF Initialized, Map, Parsed
  <2> QED BY <2>1, <2>2
<1>5. ASSUME NEW p, Goes(p), NEW m, Kind(tokens, p) = "Identifier"
      PROVE  Goes(parse_var_decl(p, m).pos)
  <2>1. Goes(p + 1)
    BY <1>1, <1>5, Eaten
  <2>2. CASE Kind(tokens, p + 1) # ":"
    BY <1>4, <2>1, <2>2 DEF parse_var_decl
  <2>3. CASE Kind(tokens, p + 1) = ":"
    <3>1. Goes(p + 2)
      BY <1>2, <1>5, <2>1, <2>3
    <3>2. Goes(parse_type(p + 2).pos)
      BY <1>1, <3>1, TypeLands
    <3> QED BY <1>4, <2>3, <3>2 DEF parse_var_decl
  <2> QED BY <2>2, <2>3
<1>6. Goes(parse_decl_stmt(pos).pos)
  <2>1. CASE Kind(tokens, pos + 1) # "Identifier"
    BY <1>1, <2>1 DEF parse_decl_stmt, Null
  <2>2. CASE Kind(tokens, pos + 1) = "Identifier"
    <3> DEFINE d == parse_var_decl(pos + 1, Kind(tokens, pos) = "var")
               r == Map(d, decl_stmt)
    <3>1. Goes(d.pos)
      BY <1>1, <1>5, <2>2
    <3>2. Goes(r.pos)
      BY <3>1 DEF Map, Parsed
    <3>3. Goes(Semi(r).pos)
      BY <1>1, <3>2, SemiLands
    <3> QED BY <2>2, <3>3 DEF parse_decl_stmt
  <2> QED BY <2>1, <2>2
<1>7. ASSUME NEW r, Goes(r.pos) PROVE Goes(SemiAnyhow(r).pos)
  <2>1. CASE Kind(tokens, r.pos) # ";"
    BY <1>7, <2>1 DEF SemiAnyhow, Null
  <2>2. CASE Kind(tokens, r.pos) = ";"
    <3>1. Goes(r.pos + 1)
      BY <1>1, <1>7, <2>2, Eaten
    <3> QED BY <2>2, <3>1 DEF SemiAnyhow
  <2> QED BY <2>1, <2>2
<1>8. Goes(parse_assignment_or_expr(pos).pos)
  <2> DEFINE lhs == Prefix(tokens, pos)
             e == Expr(tokens, lhs.pos + 1)
             a == Map(e, LAMBDA t : assignment(lhs.tree[1], t))
  <2>1. Goes(lhs.pos)
    BY <1>1, ExprLands
  <2>2. CASE lhs.tree = <<>>
    BY <2>1, <2>2 DEF parse_assignment_or_expr
  <2>3. CASE lhs.tree # <<>> /\ Kind(tokens, lhs.pos) # "="
    <3>1. Goes(parse_expr_rhs(tokens, lhs, 0).pos)
      BY <1>1, <2>3, ExprLands
    <3>2. Goes(SemiAnyhow(parse_expr_rhs(tokens, lhs, 0)).pos)
      BY <1>7, <3>1
    <3> QED BY <2>3, <3>2 DEF parse_assignment_or_expr
  <2>4. CASE lhs.tree # <<>> /\ Kind(tokens, lhs.pos) = "="
    <3>1. Goes(lhs.pos + 1)
      BY <1>1, <2>1, <2>4, Eaten
    <3>2. Goes(a.pos)
      BY <1>1, <3>1, ExprLands DEF Map, Parsed
    <3>3. Goes(SemiAnyhow(a).pos)
      BY <1>7, <3>2
    <3> QED BY <2>1, <2>4, <3>3 DEF parse_assignment_or_expr, Null
  <2> QED BY <2>2, <2>3, <2>4
<1> QED BY <1>3, <1>6, <1>8

(* All that was found before what is missed. *)
Found(p, kinds) == IF Miss(p, kinds) = 0 THEN Len(kinds) ELSE Miss(p, kinds) - 1

LEMMA MissLands ==
  ASSUME tokens \in Sources, NEW p \in Places, NEW S, NEW kinds \in Seq(S),
         Len(kinds) \in {2, 3}, "Eof" \notin {kinds[i] : i \in 1 .. Len(kinds)}
  PROVE  /\ Found(p, kinds) \in 0 .. Len(kinds) /\ p + Found(p, kinds) \in Places
         /\ \A i \in 1 .. Found(p, kinds) : Kind(tokens, p + i - 1) = kinds[i]
         /\ Miss(p, kinds) # 0 => Found(p, kinds) + 1 \in 1 .. Len(kinds)
                                   /\ Kind(tokens, p + Found(p, kinds)) # kinds[Found(p, kinds) + 1]
<1> DEFINE wrong == {i \in DOMAIN kinds : Kind(tokens, p + i - 1) # kinds[i]}
           n == Found(p, kinds)
<1>1. Len(tokens) \in Nat /\ p \in Int /\ p >= 1 /\ p <= Len(tokens) + 1
  BY SourceLength DEF Places
<1>2. ASSUME NEW i \in 1 .. Len(kinds), i \notin wrong
      PROVE  Kind(tokens, p + i - 1) = kinds[i] /\ p + i - 1 <= Len(tokens)
  <2>1. Kind(tokens, p + i - 1) = kinds[i] /\ Kind(tokens, p + i - 1) # "Eof"
    BY <1>2
  <2>2. i \in Int
    OBVIOUS
  <2> QED BY <1>1, <2>1, <2>2 DEF Kind
<1>3. CASE wrong = {}
  <2>1. Miss(p, kinds) = 0 /\ n = Len(kinds)
    BY <1>3 DEF Miss, Found
  <2>2. \A i \in 1 .. Len(kinds) : Kind(tokens, p + i - 1) = kinds[i]
    BY <1>2, <1>3
  <2>3. p + Len(kinds) - 1 <= Len(tokens)
    BY <1>2, <1>3
  <2> HIDE DEF n
  <2> QED BY <1>1, <2>1, <2>2, <2>3 DEF n, Places
<1>4. CASE wrong # {}
  <2>1. \E i \in wrong : \A j \in wrong : i <= j
    <3>1. wrong \subseteq {1, 2, 3}
      OBVIOUS
    <3>2. CASE 1 \in wrong
      BY <3>1, <3>2
    <3>3. CASE 1 \notin wrong /\ 2 \in wrong
      BY <3>1, <3>3
    <3>4. CASE 1 \notin wrong /\ 2 \notin wrong
      BY <1>4, <3>1, <3>4
    <3> QED BY <3>2, <3>3, <3>4
  <2>2. Miss(p, kinds) = CHOOSE i \in wrong : \A j \in wrong : i <= j
    BY <1>4 DEF Miss
  <2>3. PICK m \in wrong : Miss(p, kinds) = m /\ \A j \in wrong : m <= j
    BY <2>1, <2>2
  <2>4. m \in 1 .. Len(kinds) /\ m # 0 /\ Kind(tokens, p + m - 1) # kinds[m]
    OBVIOUS
  <2>5. n = m - 1
    BY <2>3, <2>4 DEF Found
  <2>6. ASSUME NEW i \in 1 .. n PROVE Kind(tokens, p + i - 1) = kinds[i] /\ p + i - 1 <= Len(tokens)
    <3>1. i \in 1 .. Len(kinds) /\ ~(m <= i)
      BY <2>4, <2>5
    <3>2. i \notin wrong
      BY <2>3, <3>1
    <3> QED BY <1>2, <3>1, <3>2
  <2>7. p + n \in Places
    <3> HIDE DEF n
    <3>1. n = 0 \/ n \in 1 .. n
      BY <2>4, <2>5
    <3>2. n \in 1 .. n => p + n - 1 <= Len(tokens)
      BY <2>6
    <3> QED BY <1>1, <2>4, <2>5, <3>1, <3>2 DEF Places
  <2> HIDE DEF n, wrong
  <2>8. p + m - 1 = p + n /\ n + 1 = m /\ n \in 0 .. Len(kinds)
    BY <1>1, <2>4, <2>5
  <2> QED BY <2>4, <2>6, <2>7, <2>8 DEF n
<1> QED BY <1>3, <1>4

LEMMA MissThree ==
  ASSUME Placed, NEW kinds, kinds = <<"fn", "Identifier", "(">>, kind = "fn"
  PROVE  /\ Reach(tokens, pos + 1, pos + Found(pos, kinds))
         /\ Found(pos, kinds) = IF Miss(pos, kinds) = 0 THEN 3 ELSE Miss(pos, kinds) - 1
<1>1. kinds \in Seq({"fn", "Identifier", "("}) /\ Len(kinds) = 3
  OBVIOUS
<1>2. kinds[1] = "fn" /\ kinds[2] = "Identifier" /\ kinds[3] = "("
  OBVIOUS
<1>3. "Eof" \notin {kinds[i] : i \in 1 .. Len(kinds)}
  BY <1>1, <1>2
<1>4. tokens \in Sources /\ pos \in Places
  BY DEF Placed
<1> DEFINE n == Found(pos, kinds)
<1>5. /\ n \in 0 .. 3 /\ pos + n \in Places
      /\ \A i \in 1 .. n : Kind(tokens, pos + i - 1) = kinds[i]
      /\ Miss(pos, kinds) # 0 => Kind(tokens, pos + n) # kinds[n + 1]
  BY <1>1, <1>3, <1>4, MissLands
<1>6. n = IF Miss(pos, kinds) = 0 THEN 3 ELSE Miss(pos, kinds) - 1
  BY <1>1 DEF Found
<1> HIDE DEF n
<1>7. pos \in Int /\ pos >= 1 /\ Len(tokens) \in Nat
  BY <1>4, SourceLength DEF Places
<1>8. n # 0
  <2>1. Kind(tokens, pos) = kinds[1]
    BY <1>2 DEF kind
  <2> QED BY <1>5, <1>6, <1>7, <2>1
<1>9. ASSUME NEW i \in pos + 1 .. pos + n - 1 PROVE Kind(tokens, i) # "fn"
  <2> DEFINE j == i - pos + 1
  <2>1. j \in 1 .. n /\ j \in {2, 3} /\ pos + j - 1 = i
    BY <1>5, <1>7
  <2>2. Kind(tokens, i) = kinds[j]
    BY <1>5, <2>1
  <2> HIDE DEF j
  <2> QED BY <1>2, <2>1, <2>2
<1>10. pos + 1 \in Spots(tokens) /\ pos + n \in Spots(tokens) /\ pos + 1 <= pos + n
  BY <1>5, <1>7, <1>8 DEF Places, Spots
<1>11. Reach(tokens, pos + 1, pos + n)
  BY <1>5, <1>7, <1>9, <1>10 DEF Reach
<1> QED BY <1>6, <1>11 DEF n

LEMMA MissTwo ==
  ASSUME Placed, NEW kinds, kinds = <<"Identifier", ":">>
  PROVE  /\ Miss(pos, kinds) = 0 => Goes(pos + 2)
         /\ Miss(pos, kinds) # 0 => Goes(pos + Miss(pos, kinds) - 1)
<1>1. kinds \in Seq({"Identifier", ":"}) /\ Len(kinds) = 2
  OBVIOUS
<1>2. kinds[1] = "Identifier" /\ kinds[2] = ":"
  OBVIOUS
<1>3. "Eof" \notin {kinds[i] : i \in 1 .. Len(kinds)}
  BY <1>1, <1>2
<1>4. tokens \in Sources /\ pos \in Places
  BY DEF Placed
<1> DEFINE n == Found(pos, kinds)
<1>5. /\ n \in 0 .. 2 /\ pos + n \in Places
      /\ \A i \in 1 .. n : Kind(tokens, pos + i - 1) = kinds[i]
      /\ Miss(pos, kinds) # 0 => n + 1 \in 1 .. 2
  BY <1>1, <1>3, <1>4, MissLands
<1>6. n = IF Miss(pos, kinds) = 0 THEN 2 ELSE Miss(pos, kinds) - 1
  BY <1>1 DEF Found
<1> HIDE DEF n
<1>7. pos \in Int /\ pos >= 1 /\ Len(tokens) \in Nat
  BY <1>4, SourceLength DEF Places
<1>8. ASSUME NEW i \in pos .. pos + n - 1 PROVE Kind(tokens, i) # "fn"
  <2> DEFINE j == i - pos + 1
  <2>1. j \in 1 .. n /\ j \in {1, 2} /\ pos + j - 1 = i
    BY <1>5, <1>7
  <2>2. Kind(tokens, i) = kinds[j]
    BY <1>5, <2>1
  <2> HIDE DEF j
  <2> QED BY <1>2, <2>1, <2>2
<1>9. Goes(pos + n)
  BY <1>4, <1>5, <1>7, <1>8 DEF Goes, Reach, Places, Spots
<1>10. Miss(pos, kinds) # 0 => pos + n = pos + Miss(pos, kinds) - 1
  <2> DEFINE m == Miss(pos, kinds)
  <2>1. m # 0 => n = m - 1 /\ n \in Int
    BY <1>5, <1>6
  <2>2. ASSUME m # 0 PROVE m = n + 1
    BY <2>1, <2>2, <1>5
  <2> HIDE DEF m
  <2> QED BY <1>7, <2>1, <2>2 DEF m
<1> QED BY <1>6, <1>9, <1>10

-----------------------------------------------------------------------------
(* Every step of a parsing function lands. *)
LEMMA BeginFunctionLands ==
  ASSUME Placed, BeginFunction
  PROVE  Reach(tokens, pos + 1, pos') /\ Stacked(stack')
<1> DEFINE kinds == <<"fn", "Identifier", "(">>
           miss == Miss(pos, kinds)
           f == [k |-> "fn", loc |-> pos, identifier |-> tokens[pos + 1], params |-> <<>>]
<1>1. kind = "fn" /\ IF miss # 0 THEN Fail(pos + miss - 1, <<>>) ELSE Go(pos + 3, <<f>>)
  BY DEF BeginFunction
<1>2. Reach(tokens, pos + 1, IF miss = 0 THEN pos + 3 ELSE pos + miss - 1)
  <2> DEFINE n == Found(pos, kinds)
  <2>1. Reach(tokens, pos + 1, pos + n) /\ n = IF miss = 0 THEN 3 ELSE miss - 1
    <3> DEFINE ks == kinds
    <3>1. ks = <<"fn", "Identifier", "(">> /\ kind = "fn"
      BY <1>1
    <3> HIDE DEF ks
    <3>2. Reach(tokens, pos + 1, pos + Found(pos, ks))
          /\ Found(pos, ks) = IF Miss(pos, ks) = 0 THEN 3 ELSE Miss(pos, ks) - 1
      BY <3>1, MissThree
    <3> QED BY <3>2 DEF ks
  <2>2. pos \in Int /\ pos + n \in Int
    BY <2>1, Here, GoesTo, Reached
  <2> HIDE DEF miss, n
  <2>3. CASE miss = 0
    BY <2>1, <2>3
  <2>4. CASE miss # 0
    <3>1. n = miss - 1
      BY <2>1, <2>4
    <3>2. pos + (miss - 1) = pos + miss - 1
      OBVIOUS
    <3> QED BY <2>1, <2>4, <3>1, <3>2
  <2> QED BY <2>3, <2>4
<1>3. FrameOK(f)
  BY DEF FrameOK, Frames
<1> HIDE DEF miss, f
<1> QED BY <1>1, <1>2, <1>3, Alones DEF Go, Fail

LEMMA ParseParamLands == Placed /\ ParseParam => Lands(pos', stack')
<1> SUFFICES ASSUME Placed, ParseParam PROVE Lands(pos', stack')
  OBVIOUS
<1> DEFINE kinds == <<"Identifier", ":">>
           miss == Miss(pos, kinds)
           t == parse_type(pos + 2)
           read == [Top EXCEPT !.params = Append(@, param_decl(tokens[pos], t.tree[1]))]
<1>1. tokens \in Sources /\ Goes(pos)
  BY Here
<1>2. /\ miss = 0 => Goes(pos + 2)
      /\ miss # 0 => Goes(pos + miss - 1)
  BY <1>1, Zenon, MissTwo
<1>3. miss = 0 => Goes(t.pos)
  BY <1>1, <1>2, TypeLands
<1>4. FrameOK(read)
  <2>1. Top = [k |-> "fn", loc |-> Top.loc, identifier |-> Top.identifier, params |-> Top.params]
    BY TopOfStack DEF ParseParam, Running, FrameOK
  <2> DEFINE ps == Append(Top.params, param_decl(tokens[pos], t.tree[1]))
  <2>2. read = [Top EXCEPT !.params = ps]
    OBVIOUS
  <2> HIDE DEF ps, read
  <2>3. read = [k |-> "fn", loc |-> Top.loc, identifier |-> Top.identifier, params |-> ps]
    BY <2>1, <2>2
  <2> QED BY <2>3 DEF FrameOK, Frames
<1>5. \/ miss # 0 /\ Fail(pos + miss - 1, <<>>)
      \/ miss = 0 /\ Fail(t.pos, <<>>)
      \/ miss = 0 /\ Kind(tokens, t.pos) = "," /\ Go(t.pos + 1, <<read>>)
      \/ miss = 0 /\ Go(t.pos, <<read>>)
  BY Zenon DEF ParseParam
<1>6. miss = 0 /\ Kind(tokens, t.pos) = "," => Goes(t.pos + 1)
  BY <1>1, <1>3, Eaten
<1> HIDE DEF miss, t, read
<1> QED BY <1>2, <1>3, <1>4, <1>5, <1>6, Alones DEF Go, Fail, Lands

LEMMA EndParamsLands == Placed /\ EndParams => Lands(pos', stack')
<1> SUFFICES ASSUME Placed, EndParams PROVE Lands(pos', stack')
  OBVIOUS
<1> DEFINE t == parse_type(pos + 2)
           head == [k |-> "body", loc |-> Top.loc, identifier |-> Top.identifier, params |-> Top.params,
                    type |-> t.tree[1]]
<1>1. tokens \in Sources /\ Goes(pos) /\ Goes(pos + 1)
  BY Here, Eaten DEF EndParams, kind
<1>2. Kind(tokens, pos + 1) = ":" => Goes(t.pos)
  BY <1>1, EatenTwo, TypeLands
<1>3. FrameOK(head)
  BY DEF FrameOK, Frames
<1>4. \/ Fail(pos + 1, <<>>)
      \/ Kind(tokens, pos + 1) = ":" /\ Fail(t.pos, <<>>)
      \/ Kind(tokens, pos + 1) = ":" /\ Kind(tokens, t.pos) = "{" /\ Go(t.pos + 1, <<head, Block>>)
  BY DEF EndParams
<1>5. Kind(tokens, pos + 1) = ":" /\ Kind(tokens, t.pos) = "{" => Goes(t.pos + 1)
  BY <1>1, <1>2, Eaten
<1> HIDE DEF t, head
<1> QED BY <1>1, <1>2, <1>3, <1>4, <1>5, Alones DEF Go, Fail, Lands

LEMMA EndsLand ==
  ASSUME Placed, EndFunction \/ EndBlock \/ UnclosedBlock \/ PassOn \/ EndWhile \/ EndTrueBlock \/ EndElse
  PROVE  Lands(pos', stack')
<1>1. tokens \in Sources /\ Goes(pos)
  BY Here
<1>2. CASE EndFunction
  BY <1>1, <1>2, Alones DEF EndFunction, Return, Lands
<1>3. CASE EndBlock
  <2>1. stack # <<>> /\ kind = "}" /\ pos' = pos + 1 /\ stack' = Below
    BY <1>3 DEF EndBlock, Running, Return
  <2>2. Goes(pos + 1)
    BY <1>1, <2>1, Eaten DEF kind
  <2> QED BY <2>1, <2>2, TopOfStack DEF Lands
<1>4. CASE UnclosedBlock \/ PassOn \/ EndWhile \/ EndTrueBlock \/ EndElse
  <2>1. stack # <<>> /\ pos' = pos /\ stack' = Below
    BY <1>4 DEF UnclosedBlock, PassOn, EndWhile, EndTrueBlock, EndElse, Running, Returned, Return, Fail
  <2> QED BY <1>1, <2>1, TopOfStack DEF Lands
<1> QED BY <1>2, <1>3, <1>4

LEMMA StatementParsedLands == Placed /\ StatementParsed => Lands(pos', stack')
<1> SUFFICES ASSUME Placed, StatementParsed PROVE Lands(pos', stack')
  OBVIOUS
<1> DEFINE f == [Top EXCEPT !.stmts = @ \o ret.v]
<1>1. stack # <<>> /\ Top.k = "block" /\ pos' = pos /\ stack' = Append(Below, f)
  BY DEF StatementParsed, Returned, Go
<1>2. FrameOK(Top) /\ Stacked(Below)
  BY <1>1, TopOfStack
<1>3. Top = [k |-> "block", stmts |-> Top.stmts]
  BY <1>1, <1>2 DEF FrameOK
<1>4. f = [k |-> "block", stmts |-> Top.stmts \o ret.v]
  <2> DEFINE all == Top.stmts \o ret.v
  <2>1. f = [Top EXCEPT !.stmts = all]
    OBVIOUS
  <2> HIDE DEF all, f
  <2>2. f = [k |-> "block", stmts |-> all]
    BY <1>3, <2>1
  <2> QED BY <2>2 DEF all
<1> HIDE DEF f
<1>5. FrameOK(f)
  BY <1>4 DEF FrameOK, Frames
<1> QED BY <1>1, <1>2, <1>5, Here, Pushed DEF Lands

(* A condition is read behind the place p. *)
LEMMA BeginBlockLands ==
  ASSUME Placed, NEW p, Goes(p), NEW stk, Stacked(stk),
         BeginBlock(p, stk, IfFrame) \/ BeginBlock(p, stk, WhileFrame)
  PROVE  Lands(pos', stack')
<1> DEFINE c == Expr(tokens, p)
           f == IfFrame(c.tree[1])
           w == WhileFrame(c.tree[1])
<1>1. Goes(c.pos)
  BY ExprLands DEF Placed
<1>2. Kind(tokens, c.pos) = "{" => Goes(c.pos + 1)
  BY <1>1, Eaten DEF Placed
<1>3. FrameOK(f) /\ FrameOK(w)
  BY DEF FrameOK, Frames, IfFrame, WhileFrame
<1>4. \/ Fail(c.pos, stk)
      \/ Kind(tokens, c.pos) = "{" /\ Go(c.pos + 1, stk \o <<f, Block>>)
      \/ Kind(tokens, c.pos) = "{" /\ Go(c.pos + 1, stk \o <<w, Block>>)
  <2>1. CASE c.tree = <<>> \/ Kind(tokens, c.pos) # "{"
    BY <2>1, Zenon DEF BeginBlock
  <2>2. CASE c.tree # <<>> /\ Kind(tokens, c.pos) = "{"
    BY <2>2, Zenon DEF BeginBlock
  <2> QED BY <2>1, <2>2
<1> HIDE DEF c, f, w
<1>5. Stacked(stk \o <<f, Block>>) /\ Stacked(stk \o <<w, Block>>)
  BY <1>3, Pushed
<1> QED BY <1>1, <1>2, <1>4, <1>5 DEF Go, Fail, Lands

LEMMA ElsesLand ==
  ASSUME Placed, BeginElse \/ BeginElseIf
  PROVE  Lands(pos', stack')
<1>1. /\ tokens \in Sources /\ Goes(pos) /\ Goes(pos + 1)
      /\ stack # <<>> /\ Stacked(Below)
  <2>1. stack # <<>> /\ kind = "else"
    BY DEF BeginElse, BeginElseIf, Returned
  <2> QED BY <2>1, Here, Eaten, TopOfStack DEF kind
<1>2. FrameOK(ElseFrame)
  BY DEF FrameOK, Frames, ElseFrame
<1>3. CASE BeginElse
  <2>1. \/ Fail(pos + 1, Below)
        \/ Kind(tokens, pos + 1) = "{" /\ Go(pos + 2, Below \o <<ElseFrame, Block>>)
    BY <1>3 DEF BeginElse
  <2>2. Kind(tokens, pos + 1) = "{" => Goes(pos + 2)
    BY <1>1, EatenTwo
  <2>3. Stacked(Below \o <<ElseFrame, Block>>)
    BY <1>1, <1>2, Pushed
  <2> QED BY <1>1, <2>1, <2>2, <2>3 DEF Go, Fail, Lands
<1>4. CASE BeginElseIf
  <2>1. Kind(tokens, pos + 1) = "if" /\ BeginBlock(pos + 2, Append(Below, ElseFrame), IfFrame)
    BY <1>4, Zenon DEF BeginElseIf
  <2>2. Goes(pos + 2)
    BY <1>1, <2>1, EatenTwo
  <2>3. Stacked(Append(Below, ElseFrame))
    BY <1>1, <1>2, Pushed
  <2> QED BY <2>1, <2>2, <2>3, BeginBlockLands
<1> QED BY <1>3, <1>4

LEMMA ReadsLand ==
  ASSUME Placed, ParseReturn \/ ParseDecl \/ ParseAssignmentOrExpr \/ BeginIf \/ BeginWhile
  PROVE  Lands(pos', stack')
<1>1. Running("block") /\ kind \notin {"}", "Eof", "fn"}
  BY DEF ParseReturn, ParseDecl, ParseAssignmentOrExpr, BeginIf, BeginWhile
<1>2. /\ tokens \in Sources /\ Goes(pos) /\ Goes(pos + 1) /\ Stacked(stack)
  BY <1>1, Here, Eaten DEF Placed, kind
<1>3. ASSUME NEW r, Goes(r.pos), Answer(r) PROVE Lands(pos', stack')
  BY <1>2, <1>3 DEF Answer, Fail, Return, Lands
<1>4. CASE ParseReturn \/ ParseDecl \/ ParseAssignmentOrExpr
  BY <1>1, <1>3, <1>4, StatementLands DEF ParseReturn, ParseDecl, ParseAssignmentOrExpr
<1>5. CASE BeginIf \/ BeginWhile
  <2>1. BeginBlock(pos + 1, stack, IfFrame) \/ BeginBlock(pos + 1, stack, WhileFrame)
    BY <1>5, Zenon DEF BeginIf, BeginWhile
  <2> QED BY <1>2, <2>1, BeginBlockLands
<1> QED BY <1>4, <1>5

-----------------------------------------------------------------------------
LEMMA InitPlaced == Init => Placed
<1> SUFFICES ASSUME Init PROVE Placed
  OBVIOUS
<1>1. tokens \in Sources /\ pos = 1 /\ stack = <<>> /\ ret = None
      /\ mode = "parse" /\ braces = 0 /\ result = "none"
  BY DEF Init
<1>2. pos \in Places /\ braces \in 0 .. Len(tokens)
  BY <1>1, SourceLength DEF Places
<1> QED BY <1>1, <1>2, Alones DEF Placed, None

LEMMA NextPlaced == Placed /\ [Next]_vars => Placed'
<1> SUFFICES ASSUME Placed, [Next]_vars PROVE Placed'
  OBVIOUS
<1>1. CASE NotAFunction \/ FunctionFailed \/ FunctionParsed \/ EndOfFile
  <2>1. UNCHANGED <<tokens, pos, stack, braces>> /\ mode' \in {"parse", "sync_on"}
    BY <1>1 DEF NotAFunction, FunctionFailed, FunctionParsed, EndOfFile, synchronize_on, AtTop, Parsing
  <2>2. ret'.is = "none" /\ result' \in {"none", "ok", "failed"}
    BY <1>1 DEF NotAFunction, FunctionFailed, FunctionParsed, EndOfFile, synchronize_on, AtTop, Parsing, None
  <2> QED BY <2>1, <2>2 DEF Placed, Places
<1>2. CASE StatementFailed
  <2>1. 0 < pos /\ 0 \in 0 .. Len(tokens)
    BY SourceLength DEF Placed, Places
  <2> QED BY <1>2, <2>1 DEF StatementFailed, Placed, Places, None
<1>3. ASSUME Move, pos' \in Places, Stacked(stack') PROVE Placed'
  <2>1. UNCHANGED <<tokens, mode, braces, result>> /\ mode = "parse"
    BY <1>3 DEF Move, quiet, Parsing
  <2>2. ret'.is \in {"none", "null", "value"}
    BY <1>3 DEF Move, Settled, nullptr
  <2> QED BY <1>3, <2>1, <2>2 DEF Placed, Places
<1>4. CASE Synchronize \/ SynchronizeOn
  <2>1. UNCHANGED skipping /\ mode \in {"sync", "sync_on"}
    BY <1>4 DEF Synchronize, SynchronizeTo, SynchronizeOn
  <2>2. \/ pos' = pos /\ mode' = "parse" /\ braces' = braces
        \/ kind # "Eof" /\ pos' = pos + 1 /\ mode' = "parse" /\ braces' = braces
        \/ kind # "Eof" /\ pos' = pos + 1 /\ mode' = mode /\ braces' = braces
        \/ kind # "Eof" /\ pos' = pos + 1 /\ mode' = mode /\ mode = "sync" /\ braces' = braces + 1
        \/ kind # "Eof" /\ pos' = pos + 1 /\ mode' = mode /\ mode = "sync" /\ braces > 1 /\ braces' = braces - 1
    <3>1. CASE Synchronize
      BY <3>1, Zenon DEF Synchronize, SynchronizeTo, Skip, Resume, eat_next
    <3>2. CASE SynchronizeOn
      BY <3>2 DEF SynchronizeOn, Skip, Resume, eat_next
    <3> QED BY <1>4, <3>1, <3>2
  <2>3. /\ tokens \in Sources /\ Len(tokens) \in Nat /\ pos \in Places
        /\ kind # "Eof" => pos \in 1 .. Len(tokens) /\ pos + 1 \in Places
    BY EatOne, SourceLength DEF Placed, kind, Places, Spots
  <2>4. pos' \in Places
    BY <2>2, <2>3
  <2>5. braces' \in 0 .. Len(tokens) /\ (mode' = "sync" => braces' < pos')
    BY <2>2, <2>3 DEF Placed, Places
  <2> QED BY <2>1, <2>2, <2>4, <2>5 DEF Placed, Places, skipping
<1>5. CASE UNCHANGED vars
  BY <1>5 DEF vars, Placed, Places
<1>6. CASE BeginFunction
  <2>1. pos' \in Places /\ Stacked(stack')
    BY <1>6, Here, BeginFunctionLands, Reached DEF Places, Spots
  <2> QED BY <1>3, <1>6, <2>1, FunctionMoves
<1>7. ASSUME Move, Lands(pos', stack') PROVE Placed'
  BY <1>3, <1>7, Here, GoesTo DEF Lands
<1> QED BY <1>1, <1>2, <1>4, <1>5, <1>6, <1>7, FunctionMoves, BlockMoves, ReadMoves, EndMoves,
           ParseParamLands, EndParamsLands, EndsLand, StatementParsedLands, ElsesLand, ReadsLand
        DEF Next, OtherStep, ReadStep

(* The types, for every set of sources; in particular Eof is never eaten,   *)
(* whatever the recoveries skip: the lexer is not called behind it.         *)
THEOREM TypeCorrect == Spec => []TypeOK
<1>1. Placed /\ ErrorKept => TypeOK
  <2> SUFFICES ASSUME Placed, ErrorKept PROVE TypeOK
    OBVIOUS
  <2>1. ASSUME NEW n \in DOMAIN stack PROVE stack[n].k \in Frames
    <3>1. PICK S : stack \in Seq(S) /\ \A f \in S : FrameOK(f)
      BY DEF Placed, Stacked
    <3> QED BY <3>1 DEF FrameOK
  <2>2. {incomplete_ast, reported} \subseteq BOOLEAN
    BY DEF ErrorKept
  <2> QED BY <2>1, <2>2 DEF Placed, Places, TypeOK
<1> QED BY InitPlaced, NextPlaced, InitErrorKept, NextErrorKept, <1>1, PTL DEF Spec

-----------------------------------------------------------------------------
(* Statements.  Where they cannot begin, the grammar has none. *)
LEMMA NextSpot ==
  ASSUME NEW t \in Sources, NEW p \in Spots(t), Kind(t, p) # "Eof"
  PROVE  p \in Int /\ p < p + 1 /\ p + 1 \in Spots(t)
  BY EatOne DEF Spots

LEMMA ExprExact ==
  ASSUME NEW t \in Sources, NEW p \in Spots(t), NEW j \in Spots(t), Kind(t, j) \notin Hungry
  PROVE  j \in Ends("expr", t, p) <=> Hits(Expr(t, p), j)
  BY ExpressionsRead DEF Reads, ExprReads

LEMMA Sated ==
  /\ Semicolon \notin Hungry /\ Open \notin Hungry /\ Close \notin Hungry /\ Comma \notin Hungry
  /\ Semicolon \notin First /\ Open \notin First /\ Close \notin First /\ Comma \notin First
<1>1. Semicolon \notin Hungry /\ Open \notin Hungry /\ Close \notin Hungry /\ Comma \notin Hungry
  BY Signs, Zenon DEF Hungry, Binary, Semicolon, Open, Close, Comma
<1>2. Semicolon \notin First /\ Open \notin First /\ Close \notin First /\ Comma \notin First
  BY Zenon DEF First, Semicolon, Open, Close, Comma
<1> QED BY <1>1, <1>2

LEMMA NoExpr ==
  ASSUME NEW t \in Sources, NEW p \in Spots(t), Kind(t, p) \notin First,
         NEW K, K \cap Hungry = {}
  PROVE  Eat(t, Ends("expr", t, p), K) = {}
<1>1. Expr(t, p).tree = <<>>
  BY NoStart DEF Null
<1>2. Ends("expr", t, p) \subseteq Spots(t)
  BY EndsInside
<1>3. ASSUME NEW j \in Ends("expr", t, p) PROVE Kind(t, j) \notin K
  BY <1>1, <1>2, <1>3, ExprExact DEF Hits
<1> QED BY <1>3 DEF Eat

LEMMA Heads ==
  ASSUME NEW t \in Sources, NEW p \in Spots(t)
  PROVE  /\ Kind(t, p) # "Identifier" => AssignEnds(t, p) = {} /\ ParamEnds(t, p) = {}
         /\ Kind(t, p) # "return" => ReturnEnds(t, p) = {}
         /\ Kind(t, p) \notin {"let", "var"} => DeclEnds(t, p) = {}
         /\ Kind(t, p) # "if" => Ends("if", t, p) = {}
         /\ Kind(t, p) # "while" => WhileEnds(t, p) = {}
         /\ Kind(t, p) # "fn" => FunctionEnds(t, p) = {}
<1>1. ASSUME Kind(t, p) # "Identifier" PROVE AssignEnds(t, p) = {} /\ ParamEnds(t, p) = {}
  <2>1. Eat(t, {p}, {"Identifier"}) = {}
    <3>1. Kind(t, p) \notin {"Identifier"}
      BY <1>1
    <3> QED BY <3>1, EatSingle, Zenon
  <2> QED BY <2>1, Nothing DEF AssignEnds, ParamEnds
<1>2. ASSUME Kind(t, p) # "return" PROVE ReturnEnds(t, p) = {}
  <2>1. Eat(t, {p}, {"return"}) = {}
    <3>1. Kind(t, p) \notin {"return"}
      BY <1>2
    <3> QED BY <3>1, EatSingle, Zenon
  <2> QED BY <2>1, Nothing DEF ReturnEnds
<1>3. ASSUME Kind(t, p) \notin {"let", "var"} PROVE DeclEnds(t, p) = {}
  <2>1. Eat(t, {p}, {"let", "var"}) = {}
    BY <1>3, EatSingle, Zenon
  <2>2. DeclEnds(t, p) = InitEnds(t, {} \cup {})
    BY <2>1, Nothing DEF DeclEnds
  <2>3. InitEnds(t, {}) = {}
    BY Nothing DEF InitEnds
  <2> QED BY <2>2, <2>3
<1>4. BlockEnds(t, {}) = {}
  BY Nothing, BlockRule
<1>5. ASSUME Kind(t, p) # "if" PROVE Ends("if", t, p) = {}
  <2>1. Eat(t, {p}, {"if"}) = {}
    BY <1>5, EatSingle
  <2>2. BlockEnds(t, Then(t, Eat(t, {p}, {"if"}), "expr")) = {}
    BY <1>4, <2>1, Nothing
  <2>3. IfEnds(t, p) = {}
    BY <1>4, <2>2, Nothing DEF IfEnds
  <2> QED BY <2>3, Rules
<1>6. ASSUME Kind(t, p) # "while" PROVE WhileEnds(t, p) = {}
  <2>1. Eat(t, {p}, {"while"}) = {}
    BY <1>6, EatSingle
  <2> QED BY <1>4, <2>1, Nothing DEF WhileEnds
<1>7. ASSUME Kind(t, p) # "fn" PROVE FunctionEnds(t, p) = {}
  <2>1. Eat(t, {p}, {"fn"}) = {}
    <3>1. Kind(t, p) \notin {"fn"}
      BY <1>7
    <3> QED BY <3>1, EatSingle, Zenon
  <2>2. FunctionEnds(t, p) = BodyEnds(t, {})
    BY <2>1, Nothing DEF FunctionEnds
  <2>3. BodyEnds(t, {}) = {}
    BY <1>4, Nothing DEF BodyEnds
  <2> QED BY <2>2, <2>3
<1> QED BY <1>1, <1>2, <1>3, <1>5, <1>6, <1>7

StmtFirst == First \cup {"return", "let", "var", "if", "while"}

LEMMA NoStmt ==
  ASSUME NEW t \in Sources, NEW p \in Spots(t), Kind(t, p) \notin StmtFirst
  PROVE  StmtEnds(t, p) = {}
<1>1. AssignEnds(t, p) = {} /\ ReturnEnds(t, p) = {} /\ DeclEnds(t, p) = {}
      /\ Ends("if", t, p) = {} /\ WhileEnds(t, p) = {}
  BY Heads DEF StmtFirst, First
<1>2. Eat(t, Ends("expr", t, p), {Semicolon}) = {}
  <2>1. {Semicolon} \cap Hungry = {}
    BY Sated
  <2> QED BY <2>1, NoExpr DEF StmtFirst
<1>3. SimpleEnds(t, p) = Ends("expr", t, p)
  BY <1>1 DEF SimpleEnds
<1> QED BY <1>1, <1>2, <1>3, StmtRule

(* A statement in one go, whose piece r before the ';' is read exactly. *)
Exact(r, S) ==
  /\ r.tree # <<>> => r.pos \in Spots(tokens)
  /\ S \subseteq Spots(tokens)
  /\ \A j \in Spots(tokens) : Kind(tokens, j) = Semicolon => (j \in S <=> Hits(r, j))

LEMMA SemiReads ==
  ASSUME NEW r, NEW S, Exact(r, S), NEW x
  PROVE  /\ x \in Eat(tokens, S, {Semicolon}) <=> Hits(Semi(r), x)
         /\ x \in Eat(tokens, S, {Semicolon}) <=> Hits(SemiAnyhow(r), x)
<1>1. x \in Eat(tokens, S, {Semicolon})
        <=> r.tree # <<>> /\ Kind(tokens, r.pos) = Semicolon /\ x = r.pos + 1
  BY InEat DEF Exact, Hits
<1>2. Hits(Semi(r), x) <=> r.tree # <<>> /\ Kind(tokens, r.pos) = Semicolon /\ x = r.pos + 1
  <2>1. CASE r.tree = <<>>
    BY <2>1 DEF Semi, Hits
  <2>2. CASE r.tree # <<>> /\ Kind(tokens, r.pos) # Semicolon
    <3>1. Semi(r) = Null(r.pos)
      BY <2>2, Zenon DEF Semi, Semicolon
    <3> QED BY <2>2, <3>1 DEF Null, Hits
  <2>3. CASE r.tree # <<>> /\ Kind(tokens, r.pos) = Semicolon
    <3>1. Semi(r) = Parsed(r.pos + 1, r.tree[1])
      BY <2>3, Zenon DEF Semi, Semicolon
    <3>2. Semi(r).tree # <<>> /\ Semi(r).pos = r.pos + 1
      BY <3>1 DEF Parsed
    <3> QED BY <2>3, <3>2 DEF Hits
  <2> QED BY <2>1, <2>2, <2>3
<1>3. Hits(SemiAnyhow(r), x) <=> r.tree # <<>> /\ Kind(tokens, r.pos) = Semicolon /\ x = r.pos + 1
  <2>1. CASE Kind(tokens, r.pos) # Semicolon
    <3>1. SemiAnyhow(r) = Null(r.pos)
      BY <2>1, Zenon DEF SemiAnyhow, Semicolon
    <3> QED BY <2>1, <3>1 DEF Null, Hits
  <2>2. CASE Kind(tokens, r.pos) = Semicolon
    <3>1. SemiAnyhow(r) = [pos |-> r.pos + 1, tree |-> r.tree]
      BY <2>2, Zenon DEF SemiAnyhow, Semicolon
    <3> QED BY <2>2, <3>1 DEF Hits
  <2> QED BY <2>1, <2>2
<1> QED BY <1>1, <1>2, <1>3

(* Statements without blocks, by their first token. *)
LEMMA SimpleCases ==
  ASSUME NEW t \in Sources, NEW p \in Spots(t)
  PROVE  /\ Kind(t, p) = "return" =>
              Eat(t, SimpleEnds(t, p), {Semicolon}) = Eat(t, ReturnEnds(t, p), {Semicolon})
         /\ Kind(t, p) \in {"let", "var"} =>
              Eat(t, SimpleEnds(t, p), {Semicolon}) = Eat(t, DeclEnds(t, p), {Semicolon})
         /\ Kind(t, p) \notin {"return", "let", "var"} =>
              SimpleEnds(t, p) = Ends("expr", t, p) \cup AssignEnds(t, p)
<1> DEFINE E == Ends("expr", t, p)
           A == AssignEnds(t, p)
           R == ReturnEnds(t, p)
           D == DeclEnds(t, p)
<1>1. SimpleEnds(t, p) = E \cup A \cup R \cup D
  BY DEF SimpleEnds
<1>2. /\ Kind(t, p) # "Identifier" => A = {}
      /\ Kind(t, p) # "return" => R = {}
      /\ Kind(t, p) \notin {"let", "var"} => D = {}
  BY Heads
<1>3. Kind(t, p) \notin First => Eat(t, E, {Semicolon}) = {}
  <2>1. {Semicolon} \cap Hungry = {}
    BY Sated
  <2> QED BY <2>1, NoExpr
<1> HIDE DEF E, A, R, D
<1>4. Eat(t, E \cup R, {Semicolon}) = Eat(t, E, {Semicolon}) \cup Eat(t, R, {Semicolon})
  BY DEF Eat
<1>5. Eat(t, E \cup D, {Semicolon}) = Eat(t, E, {Semicolon}) \cup Eat(t, D, {Semicolon})
  BY DEF Eat
<1>6. CASE Kind(t, p) = "return"
  <2>1. Kind(t, p) \notin First /\ A = {} /\ D = {}
    BY <1>2, <1>6 DEF First
  <2> QED BY <1>1, <1>3, <1>4, <1>6, <2>1 DEF R
<1>7. CASE Kind(t, p) \in {"let", "var"}
  <2>1. Kind(t, p) \notin First /\ A = {} /\ R = {}
    BY <1>2, <1>7 DEF First
  <2> QED BY <1>1, <1>3, <1>5, <1>7, <2>1 DEF D
<1>8. CASE Kind(t, p) \notin {"return", "let", "var"}
  <2>1. R = {} /\ D = {}
    BY <1>2, <1>8
  <2> QED BY <1>1, <1>8, <2>1 DEF E, A
<1> QED BY <1>6, <1>7, <1>8

(* What becomes of an expression read exactly. *)
Mapped(m, r) == m.pos = r.pos /\ (m.tree = <<>> <=> r.tree = <<>>)

LEMMA ExactMapped ==
  ASSUME NEW r, NEW m, Mapped(m, r), NEW S, Exact(r, S)
  PROVE  Exact(m, S)
  BY DEF Mapped, Exact, Hits

LEMMA ExactExpr ==
  ASSUME tokens \in Sources, NEW p \in Spots(tokens)
  PROVE  Exact(Expr(tokens, p), Ends("expr", tokens, p))
<1> DEFINE t == tokens
<1>1. t \in Sources /\ p \in Spots(t)
  OBVIOUS
<1> HIDE DEF t
<1>2. Expr(t, p).pos \in Spots(t) /\ Ends("expr", t, p) \subseteq Spots(t)
  BY <1>1, Inside, EndsInside
<1>3. ASSUME NEW j \in Spots(t), Kind(t, j) = Semicolon
      PROVE  j \in Ends("expr", t, p) <=> Hits(Expr(t, p), j)
  BY <1>1, <1>3, ExprExact, Sated
<1> QED BY <1>2, <1>3 DEF Exact, t

LEMMA ExactWider ==
  ASSUME NEW r, NEW S, Exact(r, S), NEW s \in Spots(tokens), Kind(tokens, s) # Semicolon
  PROVE  Exact(r, {s} \cup S)
  BY DEF Exact

LEMMA ReturnReads ==
  ASSUME tokens \in Sources, NEW p \in Spots(tokens), Kind(tokens, p) = "return", NEW x
  PROVE  x \in Eat(tokens, SimpleEnds(tokens, p), {Semicolon}) <=> Hits(parse_return_stmt(p), x)
<1> DEFINE E == Ends("expr", tokens, p + 1)
           m == Map(Expr(tokens, p + 1), LAMBDA e : return_stmt(<<e>>))
<1>1. p + 1 \in Spots(tokens)
  BY NextSpot
<1>2. ReturnEnds(tokens, p) = {p + 1} \cup E
  <2>1. Eat(tokens, {p}, {"return"}) = {p + 1}
    <3>1. Kind(tokens, p) \in {"return"}
      OBVIOUS
    <3> QED BY <3>1, EatSingle, Zenon
  <2> QED BY <2>1, ThenSingle DEF ReturnEnds
<1>3. Eat(tokens, SimpleEnds(tokens, p), {Semicolon}) = Eat(tokens, {p + 1} \cup E, {Semicolon})
  BY <1>2, SimpleCases
<1>4. CASE Kind(tokens, p + 1) = Semicolon
  <2>1. Eat(tokens, E, {Semicolon}) = {}
    <3>1. {Semicolon} \cap Hungry = {} /\ Semicolon \notin First
      BY Sated
    <3> QED BY <1>1, <1>4, <3>1, NoExpr
  <2>2. Eat(tokens, {p + 1}, {Semicolon}) = {(p + 1) + 1}
    BY <1>4, EatSingle
  <2>3. Eat(tokens, {p + 1} \cup E, {Semicolon}) = Eat(tokens, {p + 1}, {Semicolon}) \cup Eat(tokens, E, {Semicolon})
    BY DEF Eat
  <2>4. (p + 1) + 1 = p + 2
    BY SourceLength DEF Spots
  <2>5. parse_return_stmt(p) = Parsed(p + 2, return_stmt(<<>>))
    BY <1>4, Zenon DEF parse_return_stmt, Semicolon
  <2>6. Hits(parse_return_stmt(p), x) <=> x = p + 2
    BY <2>5 DEF Hits, Parsed
  <2> QED BY <1>3, <2>1, <2>2, <2>3, <2>4, <2>6
<1>5. CASE Kind(tokens, p + 1) # Semicolon
  <2>1. Mapped(m, Expr(tokens, p + 1))
    BY DEF Map, Parsed, Mapped
  <2>2. parse_return_stmt(p) = Semi(m)
    BY <1>5, Zenon DEF parse_return_stmt, Semicolon
  <2> HIDE DEF m, E
  <2>3. Exact(m, {p + 1} \cup E)
    BY <1>1, <1>5, <2>1, ExactExpr, ExactMapped, ExactWider DEF E
  <2> QED BY <1>3, <2>2, <2>3, SemiReads
<1> QED BY <1>4, <1>5

LEMMA NullExact ==
  ASSUME NEW r, r.tree = <<>>, NEW S, S \subseteq Spots(tokens), \A j \in S : Kind(tokens, j) # Semicolon
  PROVE  Exact(r, S)
  BY DEF Exact, Hits

LEMMA InitUnion ==
  ASSUME NEW t, NEW S, NEW T
  PROVE  InitEnds(t, S \cup T) = InitEnds(t, S) \cup InitEnds(t, T)
<1>1. Eat(t, S \cup T, {"="}) = Eat(t, S, {"="}) \cup Eat(t, T, {"="})
  BY DEF Eat
<1>2. \A A, B : Then(t, A \cup B, "expr") = Then(t, A, "expr") \cup Then(t, B, "expr")
  BY DEF Then
<1>3. Then(t, Eat(t, S, {"="}) \cup Eat(t, T, {"="}), "expr")
        = Then(t, Eat(t, S, {"="}), "expr") \cup Then(t, Eat(t, T, {"="}), "expr")
  BY <1>2
<1> DEFINE A == Then(t, Eat(t, S, {"="}), "expr")
           B == Then(t, Eat(t, T, {"="}), "expr")
<1>4. InitEnds(t, S \cup T) = (S \cup T) \cup (A \cup B) /\ InitEnds(t, S) = S \cup A /\ InitEnds(t, T) = T \cup B
  BY <1>1, <1>3, Zenon DEF InitEnds
<1> HIDE DEF A, B
<1> QED BY <1>4

(* An initializer, if there is one. *)
LEMMA InitReads ==
  ASSUME tokens \in Sources, NEW s \in Spots(tokens), NEW id, NEW ty, NEW is_mutable
  PROVE  Exact(Initialized(id, ty, is_mutable, s), InitEnds(tokens, {s}))
<1> DEFINE r == Initialized(id, ty, is_mutable, s)
           e == Expr(tokens, s + 1)
<1>1. CASE Kind(tokens, s) = "="
  <2>1. s + 1 \in Spots(tokens)
    BY <1>1, NextSpot
  <2>2. InitEnds(tokens, {s}) = {s} \cup Ends("expr", tokens, s + 1)
    <3>1. Eat(tokens, {s}, {"="}) = {s + 1}
      <4>1. Kind(tokens, s) \in {"="}
        BY <1>1
      <4> QED BY <4>1, EatSingle, Zenon
    <3> QED BY <3>1, ThenSingle DEF InitEnds
  <2>3. Mapped(r, e)
    BY <1>1 DEF Initialized, Map, Parsed, Mapped
  <2>4. Exact(r, Ends("expr", tokens, s + 1))
    BY <2>1, <2>3, ExactExpr, ExactMapped
  <2>5. Kind(tokens, s) # Semicolon
    BY <1>1, Signs
  <2> QED BY <2>2, <2>4, <2>5, ExactWider
<1>2. CASE Kind(tokens, s) # "="
  <2>1. InitEnds(tokens, {s}) = {s}
    <3>1. Eat(tokens, {s}, {"="}) = {}
      <4>1. Kind(tokens, s) \notin {"="}
        BY <1>2
      <4> QED BY <4>1, EatSingle, Zenon
    <3> QED BY <3>1, Nothing DEF InitEnds
  <2>2. r.tree # <<>> /\ r.pos = s
    BY <1>2 DEF Initialized, Parsed
  <2> HIDE DEF r
  <2>3. Exact(r, {s})
    BY <2>2 DEF Exact, Hits
  <2> QED BY <2>1, <2>3 DEF r
<1> QED BY <1>1, <1>2

LEMMA TypeReads ==
  ASSUME NEW p
  PROVE  /\ Kind(tokens, p) \in Types => parse_type(p).tree # <<>> /\ parse_type(p).pos = p + 1
         /\ Kind(tokens, p) \notin Types => parse_type(p) = Null(p)
<1>1. CASE Kind(tokens, p) \in Types
  <2>1. \E e : parse_type(p) = Parsed(p + 1, e)
    BY <1>1, Zenon DEF parse_type, Types
  <2> QED BY <1>1, <2>1 DEF Parsed
<1>2. CASE Kind(tokens, p) \notin Types
  BY <1>2, Zenon DEF parse_type, Types
<1> QED BY <1>1, <1>2

(* A name, and perhaps its type. *)
LEMMA VarReads ==
  ASSUME tokens \in Sources, NEW p \in Spots(tokens), Kind(tokens, p) = "Identifier", NEW is_mutable
  PROVE  Exact(parse_var_decl(p, is_mutable),
               InitEnds(tokens, {p + 1} \cup Eat(tokens, Eat(tokens, {p + 1}, {":"}), Types)))
<1> DEFINE r == parse_var_decl(p, is_mutable)
           ty == parse_type(p + 2)
<1>1. p + 1 \in Spots(tokens) /\ p \in Int
  BY NextSpot
<1>2. CASE Kind(tokens, p + 1) # ":"
  <2>1. Eat(tokens, {p + 1}, {":"}) = {}
    <3>1. Kind(tokens, p + 1) \notin {":"}
      BY <1>2
    <3> QED BY <3>1, EatSingle, Zenon
  <2>2. Eat(tokens, {}, Types) = {}
    BY Nothing
  <2>3. r = Initialized(tokens[p], <<>>, is_mutable, p + 1)
    BY <1>2 DEF parse_var_decl
  <2>4. {p + 1} \cup {} = {p + 1}
    OBVIOUS
  <2> QED BY <1>1, <2>1, <2>2, <2>3, <2>4, InitReads
<1>3. CASE Kind(tokens, p + 1) = ":"
  <2>1. p + 2 \in Spots(tokens) /\ (p + 1) + 1 = p + 2
    <3>1. (p + 1) + 1 \in Spots(tokens)
      BY <1>1, <1>3, NextSpot
    <3> QED BY <1>1, <3>1
  <2>2. Eat(tokens, {p + 1}, {":"}) = {p + 2}
    <3>1. Kind(tokens, p + 1) \in {":"}
      BY <1>3
    <3>2. Eat(tokens, {p + 1}, {":"}) = {(p + 1) + 1}
      BY <3>1, EatSingle, Zenon
    <3> QED BY <2>1, <3>2
  <2>3. InitEnds(tokens, {p + 1}) = {p + 1}
    <3>1. Eat(tokens, {p + 1}, {"="}) = {}
      <4>1. Kind(tokens, p + 1) \notin {"="}
        BY <1>3
      <4> QED BY <4>1, EatSingle, Zenon
    <3> QED BY <3>1, Nothing DEF InitEnds
  <2>4. Kind(tokens, p + 1) # Semicolon
    BY <1>3, Signs
  <2>5. CASE Kind(tokens, p + 2) \in Types
    <3>1. Eat(tokens, {p + 2}, Types) = {(p + 2) + 1}
      BY <2>5, EatSingle
    <3> DEFINE s == (p + 2) + 1
    <3>2. s \in Spots(tokens)
      <4>1. Kind(tokens, p + 2) # "Eof"
        BY <2>5 DEF Types
      <4> QED BY <2>1, <4>1, NextSpot
    <3>3. r = Initialized(tokens[p], ty.tree, is_mutable, s)
      BY <1>3, <2>5, TypeReads DEF parse_var_decl
    <3>4. InitEnds(tokens, {p + 1} \cup {s}) = {p + 1} \cup InitEnds(tokens, {s})
      BY <2>3, InitUnion
    <3> HIDE DEF r, s, ty
    <3>5. Exact(r, InitEnds(tokens, {s}))
      BY <3>2, <3>3, InitReads
    <3>6. Exact(r, {p + 1} \cup InitEnds(tokens, {s}))
      BY <1>1, <2>4, <3>5, ExactWider
    <3> QED BY <2>2, <3>1, <3>4, <3>6 DEF r, s
  <2>6. CASE Kind(tokens, p + 2) \notin Types
    <3>1. Eat(tokens, {p + 2}, Types) = {}
      BY <2>6, EatSingle
    <3>2. r = ty /\ ty.tree = <<>>
      BY <1>3, <2>6, TypeReads DEF parse_var_decl, Null
    <3>3. {p + 1} \cup {} = {p + 1}
      OBVIOUS
    <3> HIDE DEF r, ty
    <3>4. Exact(r, {p + 1})
      BY <1>1, <2>4, <3>2, NullExact
    <3> QED BY <2>2, <2>3, <3>1, <3>3, <3>4 DEF r
  <2> QED BY <2>5, <2>6
<1> QED BY <1>2, <1>3

LEMMA DeclReads ==
  ASSUME tokens \in Sources, NEW p \in Spots(tokens), Kind(tokens, p) \in {"let", "var"}, NEW x
  PROVE  x \in Eat(tokens, SimpleEnds(tokens, p), {Semicolon}) <=> Hits(parse_decl_stmt(p), x)
<1> DEFINE d == parse_var_decl(p + 1, Kind(tokens, p) = "var")
           m == Map(d, decl_stmt)
           name == Eat(tokens, {p + 1}, {"Identifier"})
<1>1. p + 1 \in Spots(tokens) /\ p \in Int
  BY NextSpot
<1>2. Eat(tokens, {p}, {"let", "var"}) = {p + 1}
  BY EatSingle, Zenon
<1>3. Eat(tokens, SimpleEnds(tokens, p), {Semicolon}) = Eat(tokens, DeclEnds(tokens, p), {Semicolon})
  BY SimpleCases
<1>4. DeclEnds(tokens, p) = InitEnds(tokens, name \cup Eat(tokens, Eat(tokens, name, {":"}), Types))
  BY <1>2 DEF DeclEnds
<1>5. CASE Kind(tokens, p + 1) # "Identifier"
  <2>1. name = {}
    <3>1. Kind(tokens, p + 1) \notin {"Identifier"}
      BY <1>5
    <3> QED BY <3>1, EatSingle, Zenon
  <2> HIDE DEF name
  <2>2. DeclEnds(tokens, p) = {}
    BY <1>4, <2>1, Nothing DEF InitEnds
  <2>3. Eat(tokens, DeclEnds(tokens, p), {Semicolon}) = {}
    BY <2>2, Nothing
  <2>4. parse_decl_stmt(p) = Null(p + 1)
    BY <1>5, Zenon DEF parse_decl_stmt
  <2>5. ~Hits(parse_decl_stmt(p), x)
    BY <2>4 DEF Hits, Null
  <2> QED BY <1>3, <2>3, <2>5
<1>6. CASE Kind(tokens, p + 1) = "Identifier"
  <2>1. name = {(p + 1) + 1}
    <3>1. Kind(tokens, p + 1) \in {"Identifier"}
      BY <1>6
    <3> QED BY <3>1, EatSingle, Zenon
  <2>2. Exact(d, DeclEnds(tokens, p))
    BY <1>1, <1>4, <1>6, <2>1, VarReads
  <2>3. parse_decl_stmt(p) = Semi(m)
    BY <1>6, Zenon DEF parse_decl_stmt
  <2>4. Mapped(m, d)
    <3> HIDE DEF d
    <3> QED BY DEF Map, Parsed, Mapped
  <2> HIDE DEF m, d
  <2>5. Exact(m, DeclEnds(tokens, p))
    BY <2>2, <2>4, ExactMapped
  <2> QED BY <1>3, <2>3, <2>5, SemiReads
<1> QED BY <1>5, <1>6

(* Operands that are a name alone. *)
LEMMA NameRead ==
  ASSUME NEW t \in Sources, NEW p \in Spots(t), Kind(t, p) = "Identifier", Kind(t, p + 1) = "="
  PROVE  Prefix(t, p) = Parsed(p + 1, decl_ref_expr(t[p]))
<1>1. Prefix(t, p) = parse_prefix_expr(t, p)
  BY UnfoldingAssumption DEF Spots
<1>2. parse_prefix_expr(t, p) = parse_postfix_expr(t, p)
  BY DEF parse_prefix_expr
<1> DEFINE e == decl_ref_expr(t[p])
<1>3. parse_primary(t, p) = Parsed(p + 1, e)
  BY Zenon DEF parse_primary
<1> HIDE DEF e
<1>4. Parsed(p + 1, e).pos = p + 1
  BY DEF Parsed
<1>5. parse_postfix_expr(t, p) = Parsed(p + 1, e)
  BY <1>3, <1>4 DEF parse_postfix_expr
<1> QED BY <1>1, <1>2, <1>5 DEF e

LEMMA NameOnly ==
  ASSUME NEW t \in Sources, NEW p \in Spots(t), Prefix(t, p).tree # <<>>, Prefix(t, p).tree[1].k = "ref"
  PROVE  Kind(t, p) = "Identifier" /\ Prefix(t, p).pos = p + 1
<1> DEFINE x == Prefix(t, p)
           e == parse_primary(t, p)
<1>1. x = parse_prefix_expr(t, p)
  BY UnfoldingAssumption DEF Spots
<1>2. ASSUME NEW r, NEW op, UnaryOf(op, r).tree # <<>> PROVE UnaryOf(op, r).tree[1].k = "unop"
  <2>1. UnaryOf(op, r) = Parsed(r.pos, unary_op(r.tree[1], op))
    BY <1>2, Zenon DEF UnaryOf
  <2> QED BY <2>1 DEF Parsed, unary_op
<1>3. ASSUME NEW r, NEW c, CallOf(c, r).tree # <<>> PROVE CallOf(c, r).tree[1].k = "call"
  <2>1. CallOf(c, r) = Parsed(r.pos, call_expr(c, r.tree[1]))
    BY <1>3, Zenon DEF CallOf
  <2> QED BY <2>1 DEF Parsed, call_expr
<1>4. x = parse_postfix_expr(t, p)
  <2>1. CASE Kind(t, p) \in {"-", "!"}
    <3>1. x = UnaryOf(t[p], Prefix(t, p + 1))
      BY <1>1, <2>1 DEF parse_prefix_expr
    <3>2. x.tree[1].k = "unop"
      <4> DEFINE y == Prefix(t, p + 1)
                 o == t[p]
      <4> HIDE DEF x, y, o
      <4>1. x = UnaryOf(o, y) /\ x.tree # <<>>
        BY <3>1 DEF x, y, o
      <4> QED BY <1>2, <4>1
    <3> QED BY <3>2
  <2>2. CASE Kind(t, p) \notin {"-", "!"}
    BY <1>1, <2>2 DEF parse_prefix_expr
  <2> QED BY <2>1, <2>2
<1>5. x = e
  <2>1. CASE e.tree = <<>> \/ Kind(t, e.pos) # "("
    BY <1>4, <2>1 DEF parse_postfix_expr
  <2>2. CASE ~(e.tree = <<>> \/ Kind(t, e.pos) # "(")
    <3>1. x = CallOf(e.tree[1], Args(t, e.pos + 1))
      BY <1>4, <2>2 DEF parse_postfix_expr
    <3>2. x.tree[1].k = "call"
      <4> DEFINE c == e.tree[1]
                 a == Args(t, e.pos + 1)
      <4> HIDE DEF x, a, c
      <4>1. x = CallOf(c, a) /\ x.tree # <<>>
        BY <3>1 DEF x, a, c
      <4> QED BY <1>3, <4>1
    <3> QED BY <3>2
  <2> QED BY <2>1, <2>2
<1>6. CASE Kind(t, p) = "Identifier"
  <2> DEFINE d == decl_ref_expr(t[p])
  <2>1. e = Parsed(p + 1, d)
    BY <1>6, Zenon DEF parse_primary
  <2> HIDE DEF d
  <2>2. e.pos = p + 1
    BY <2>1 DEF Parsed
  <2> QED BY <1>5, <1>6, <2>2
<1>7. CASE Kind(t, p) = "Number"
  <2> DEFINE d == number_literal(t[p])
  <2>1. e = Parsed(p + 1, d)
    BY <1>7, Zenon DEF parse_primary
  <2>2. d.k = "num"
    BY DEF number_literal
  <2> HIDE DEF d
  <2>3. e.tree[1] = d
    BY <2>1 DEF Parsed
  <2> QED BY <1>5, <2>2, <2>3
<1>8. CASE Kind(t, p) = "("
  <2> DEFINE y == Expr(t, p + 1)
  <2>1. e = CloseGroup(t, y)
    BY <1>8, Zenon DEF parse_primary
  <2> HIDE DEF y
  <2>2. e = Null(y.pos) \/ e = Parsed(y.pos + 1, grouping_expr(y.tree[1]))
    BY <2>1, Zenon DEF CloseGroup
  <2>3. e.tree = <<>> \/ e.tree[1].k = "group"
    BY <2>2 DEF Null, Parsed, grouping_expr
  <2> QED BY <1>5, <2>3
<1>9. CASE Kind(t, p) \notin {"Identifier", "Number", "("}
  <2>1. e = Null(p)
    BY <1>9, Zenon DEF parse_primary
  <2> QED BY <1>5, <2>1 DEF Null
<1> QED BY <1>6, <1>7, <1>8, <1>9

LEMMA AssignRule ==
  ASSUME NEW t \in Sources, NEW p \in Spots(t)
  PROVE  /\ Kind(t, p) = "Identifier" /\ Kind(t, p + 1) = "=" => AssignEnds(t, p) = Ends("expr", t, (p + 1) + 1)
         /\ ~(Kind(t, p) = "Identifier" /\ Kind(t, p + 1) = "=") => AssignEnds(t, p) = {}
<1>1. CASE Kind(t, p) # "Identifier"
  BY <1>1, Heads
<1>2. CASE Kind(t, p) = "Identifier"
  <2>1. Eat(t, {p}, {"Identifier"}) = {p + 1}
    <3>1. Kind(t, p) \in {"Identifier"}
      BY <1>2
    <3> QED BY <3>1, EatSingle, Zenon
  <2>2. CASE Kind(t, p + 1) = "="
    <3>1. Kind(t, p + 1) \in {"="}
      BY <2>2
    <3>2. Eat(t, {p + 1}, {"="}) = {(p + 1) + 1}
      BY <3>1, EatSingle, Zenon
    <3>3. AssignEnds(t, p) = Ends("expr", t, (p + 1) + 1)
      BY <2>1, <3>2, ThenSingle DEF AssignEnds
    <3> QED BY <1>2, <2>2, <3>3
  <2>3. CASE Kind(t, p + 1) # "="
    <3>1. Kind(t, p + 1) \notin {"="}
      BY <2>3
    <3>2. Eat(t, {p + 1}, {"="}) = {}
      BY <3>1, EatSingle, Zenon
    <3>3. AssignEnds(t, p) = {}
      BY <2>1, <3>2, Nothing DEF AssignEnds
    <3> QED BY <2>3, <3>3
  <2> QED BY <2>2, <2>3
<1> QED BY <1>1, <1>2

LEMMA AssignReads ==
  ASSUME tokens \in Sources, NEW p \in Spots(tokens), Kind(tokens, p) \notin {"return", "let", "var"}, NEW x
  PROVE  x \in Eat(tokens, SimpleEnds(tokens, p), {Semicolon}) <=> Hits(parse_assignment_or_expr(p), x)
<1> DEFINE lhs == Prefix(tokens, p)
           E == Ends("expr", tokens, p)
           A == AssignEnds(tokens, p)
           r == parse_assignment_or_expr(p)
<1>1. SimpleEnds(tokens, p) = E \cup A
  BY SimpleCases
<1>2. E \subseteq Spots(tokens) /\ lhs.pos \in Spots(tokens)
  BY EndsInside, Inside
<1>3. \A j \in Spots(tokens) : Kind(tokens, j) = Semicolon =>
        (j \in E <=> lhs.tree # <<>> /\ Chain(tokens, lhs.pos, j))
  <2>1. PrefixReads(tokens, p)
    BY ExpressionsRead DEF Reads
  <2> QED BY <2>1, ChainFromPrefix, Sated
<1>4. A = {} \/ (A = Ends("expr", tokens, (p + 1) + 1) /\ lhs = Parsed(p + 1, decl_ref_expr(tokens[p]))
                 /\ Kind(tokens, p) = "Identifier" /\ Kind(tokens, p + 1) = "=")
  BY AssignRule, NameRead
<1>5. ASSUME r.tree = <<>>, \A j \in E \cup A : Kind(tokens, j) # Semicolon
      PROVE  x \in Eat(tokens, SimpleEnds(tokens, p), {Semicolon}) <=> Hits(r, x)
  <2> HIDE DEF E, A, r
  <2>1. ~Hits(r, x)
    BY <1>5 DEF Hits
  <2>2. Eat(tokens, E \cup A, {Semicolon}) = {}
    BY <1>5, InEat
  <2> QED BY <1>1, <2>1, <2>2
<1>6. ASSUME NEW m, r = SemiAnyhow(m), Exact(m, E \cup A)
      PROVE  x \in Eat(tokens, SimpleEnds(tokens, p), {Semicolon}) <=> Hits(r, x)
  BY <1>1, <1>6, SemiReads
<1>7. CASE lhs.tree = <<>>
  <2>1. r = lhs
    BY <1>7, Zenon DEF parse_assignment_or_expr
  <2>2. A = {}
    <3>1. Parsed(p + 1, decl_ref_expr(tokens[p])).tree # <<>>
      BY DEF Parsed
    <3> QED BY <1>4, <1>7, <3>1
  <2> HIDE DEF lhs, r, E, A
  <2>3. \A j \in E \cup A : Kind(tokens, j) # Semicolon
    BY <1>2, <1>3, <1>7, <2>2
  <2> QED BY <1>5, <1>7, <2>1, <2>3 DEF r
<1>8. CASE lhs.tree # <<>> /\ Kind(tokens, lhs.pos) # "="
  <2> DEFINE m == parse_expr_rhs(tokens, lhs, 0)
  <2>1. r = SemiAnyhow(m)
    BY <1>8, Zenon DEF parse_assignment_or_expr
  <2>2. A = {}
    BY <1>4, <1>8 DEF Parsed
  <2>3. Expr(tokens, p) = m
    <3>1. Expr(tokens, p) = parse_expr(tokens, p)
      BY UnfoldingAssumption DEF Spots
    <3> QED BY <1>8, <3>1 DEF parse_expr
  <2>4. Exact(m, E \cup A)
    <3>1. Exact(Expr(tokens, p), E)
      BY ExactExpr
    <3> QED BY <2>2, <2>3, <3>1
  <2> QED BY <1>6, <2>1, <2>4
<1>9. CASE lhs.tree # <<>> /\ Kind(tokens, lhs.pos) = "="
  <2>1. \A j \in E : Kind(tokens, j) # Semicolon
    <3>1. "=" # Semicolon /\ "=" \notin Binary
      BY Zenon DEF Semicolon, Binary
    <3> HIDE DEF lhs, E
    <3> QED BY <1>2, <1>3, <1>9, <3>1 DEF Chain
  <2>2. CASE lhs.tree[1].k # "ref"
    <3>1. r = Null(lhs.pos)
      BY <1>9, <2>2, Zenon DEF parse_assignment_or_expr
    <3>2. A = {}
      <4>1. ASSUME lhs = Parsed(p + 1, decl_ref_expr(tokens[p])) PROVE lhs.tree[1].k = "ref"
        <5> HIDE DEF lhs
        <5> QED BY <4>1 DEF Parsed, decl_ref_expr
      <4> QED BY <1>4, <2>2, <4>1
    <3>3. r.tree = <<>>
      BY <3>1 DEF Null
    <3> HIDE DEF r, E, A
    <3> QED BY <1>5, <2>1, <3>2, <3>3 DEF r
  <2>3. CASE lhs.tree[1].k = "ref"
    <3> DEFINE e == Expr(tokens, lhs.pos + 1)
               m == Map(e, LAMBDA b : assignment(lhs.tree[1], b))
    <3>1. r = SemiAnyhow(m)
      BY <1>9, <2>3, Zenon DEF parse_assignment_or_expr
    <3>2. Kind(tokens, p) = "Identifier" /\ lhs.pos = p + 1
      BY <1>9, <2>3, NameOnly
    <3>3. A = Ends("expr", tokens, lhs.pos + 1)
      BY <1>9, <3>2, AssignRule
    <3>4. lhs.pos + 1 \in Spots(tokens)
      BY <1>2, <1>9, NextSpot
    <3>5. Mapped(m, e)
      <4> HIDE DEF e
      <4> QED BY DEF Map, Parsed, Mapped
    <3>6. Exact(e, A)
      BY <3>3, <3>4, ExactExpr
    <3> HIDE DEF m, e, A
    <3>7. Exact(m, A)
      BY <3>5, <3>6, ExactMapped
    <3>8. Exact(m, E \cup A)
      <4> HIDE DEF E
      <4> QED BY <1>2, <2>1, <3>7 DEF Exact
    <3> QED BY <1>6, <3>1, <3>8 DEF A
  <2> QED BY <2>2, <2>3
<1> QED BY <1>7, <1>8, <1>9

(* A statement in one go is read exactly. *)
SimpleRead(p) ==
  CASE Kind(tokens, p) = "return" -> parse_return_stmt(p)
    [] Kind(tokens, p) \in {"let", "var"} -> parse_decl_stmt(p)
    [] OTHER -> parse_assignment_or_expr(p)

LEMMA SimpleReads ==
  ASSUME tokens \in Sources, NEW p \in Spots(tokens), Kind(tokens, p) \notin {"if", "while"}, NEW x
  PROVE  x \in StmtEnds(tokens, p) <=> Hits(SimpleRead(p), x)
<1>1. StmtEnds(tokens, p) = Eat(tokens, SimpleEnds(tokens, p), {Semicolon})
  <2>1. Ends("if", tokens, p) = {} /\ WhileEnds(tokens, p) = {}
    BY Heads
  <2> QED BY <2>1, StmtRule
<1>2. CASE Kind(tokens, p) = "return"
  BY <1>1, <1>2, ReturnReads DEF SimpleRead
<1>3. CASE Kind(tokens, p) \in {"let", "var"}
  <2>1. SimpleRead(p) = parse_decl_stmt(p)
    BY <1>3, Zenon DEF SimpleRead
  <2> QED BY <1>1, <1>3, <2>1, DeclReads
<1>4. CASE Kind(tokens, p) \notin {"return", "let", "var"}
  <2>1. SimpleRead(p) = parse_assignment_or_expr(p)
    BY <1>4, Zenon DEF SimpleRead
  <2> QED BY <1>1, <1>4, <2>1, AssignReads
<1> QED BY <1>2, <1>3, <1>4

-----------------------------------------------------------------------------
(* Blocks: what may come before the '}' that ends one. *)
BlockRest(t, q) == Eat(t, Ends("stmts", t, q), {Close})

LEMMA InBlock ==
  ASSUME NEW t, NEW S, NEW x
  PROVE  x \in BlockEnds(t, S) <=> \E s \in S : Kind(t, s) = Open /\ x \in BlockRest(t, s + 1)
<1>1. x \in BlockEnds(t, S) <=> \E i \in Then(t, Eat(t, S, {Open}), "stmts") : Kind(t, i) = Close /\ x = i + 1
  BY BlockRule, InEat
<1>2. ASSUME NEW i
      PROVE  i \in Then(t, Eat(t, S, {Open}), "stmts")
               <=> \E s \in S : Kind(t, s) = Open /\ i \in Ends("stmts", t, s + 1)
  <2>1. i \in Then(t, Eat(t, S, {Open}), "stmts") <=> \E o \in Eat(t, S, {Open}) : i \in Ends("stmts", t, o)
    BY InThen
  <2>2. \A o : o \in Eat(t, S, {Open}) <=> \E s \in S : Kind(t, s) = Open /\ o = s + 1
    BY InEat
  <2> QED BY <2>1, <2>2
<1>3. ASSUME NEW s
      PROVE  x \in BlockRest(t, s + 1) <=> \E i \in Ends("stmts", t, s + 1) : Kind(t, i) = Close /\ x = i + 1
  BY InEat DEF BlockRest
<1> QED BY <1>1, <1>2, <1>3

LEMMA OneBlock ==
  ASSUME NEW t, NEW s
  PROVE  /\ Kind(t, s) = Open => BlockEnds(t, {s}) = BlockRest(t, s + 1)
         /\ Kind(t, s) # Open => BlockEnds(t, {s}) = {}
<1>1. \A x : x \in BlockEnds(t, {s}) <=> Kind(t, s) = Open /\ x \in BlockRest(t, s + 1)
  BY InBlock
<1> QED BY <1>1

(* A block goes on with its end or with a statement. *)
LEMMA BlockStep ==
  ASSUME NEW t \in Sources, NEW q \in Spots(t), NEW x
  PROVE  x \in BlockRest(t, q)
           <=> (Kind(t, q) = Close /\ x = q + 1) \/ \E y \in StmtEnds(t, q) : x \in BlockRest(t, y)
<1>1. Ends("stmts", t, q) = {q} \cup Then(t, StmtEnds(t, q), "stmts")
  <2>1. Ends("stmts", t, q) = StmtsEnds(t, q)
    BY Rules
  <2> QED BY <2>1 DEF StmtsEnds
<1>2. x \in BlockRest(t, q) <=> \E i \in Ends("stmts", t, q) : Kind(t, i) = Close /\ x = i + 1
  BY InEat DEF BlockRest
<1>3. \A i : i \in Ends("stmts", t, q) <=> i = q \/ \E y \in StmtEnds(t, q) : i \in Ends("stmts", t, y)
  BY <1>1, InThen
<1>4. \A y : x \in BlockRest(t, y) <=> \E i \in Ends("stmts", t, y) : Kind(t, i) = Close /\ x = i + 1
  BY InEat DEF BlockRest
<1> QED BY <1>2, <1>3, <1>4

(* Nothing goes on with else. *)
LEMMA NoElse ==
  ASSUME NEW t \in Sources, NEW q \in Spots(t), Kind(t, q) = "else"
  PROVE  BlockRest(t, q) = {}
<1>1. StmtEnds(t, q) = {}
  <2>1. "else" \notin StmtFirst
    BY DEF StmtFirst, First
  <2> QED BY <2>1, NoStmt
<1>2. "else" # Close
  BY Signs
<1> QED BY <1>1, <1>2, BlockStep

(* A condition, and the block behind it. *)
LEMMA CondBlock ==
  ASSUME NEW t \in Sources, NEW p \in Spots(t), NEW x
  PROVE  x \in BlockEnds(t, Ends("expr", t, p))
           <=> Expr(t, p).tree # <<>> /\ Kind(t, Expr(t, p).pos) = Open /\ x \in BlockRest(t, Expr(t, p).pos + 1)
<1> DEFINE c == Expr(t, p)
           E == Ends("expr", t, p)
<1>1. E \subseteq Spots(t) /\ c.pos \in Spots(t)
  BY EndsInside, Inside
<1>2. \A j \in Spots(t) : Kind(t, j) = Open => (j \in E <=> Hits(c, j))
  BY ExprExact, Sated
<1>3. x \in BlockEnds(t, E) <=> \E s \in E : Kind(t, s) = Open /\ x \in BlockRest(t, s + 1)
  BY InBlock
<1> HIDE DEF c, E
<1>4. x \in BlockEnds(t, E) <=> c.tree # <<>> /\ Kind(t, c.pos) = Open /\ x \in BlockRest(t, c.pos + 1)
  BY <1>1, <1>2, <1>3 DEF Hits
<1> QED BY <1>4 DEF c, E

LEMMA WhileRule ==
  ASSUME NEW t \in Sources, NEW p \in Spots(t), Kind(t, p) = "while"
  PROVE  WhileEnds(t, p) = BlockEnds(t, Ends("expr", t, p + 1))
<1>1. Eat(t, {p}, {"while"}) = {p + 1}
  <2>1. Kind(t, p) \in {"while"}
    OBVIOUS
  <2> QED BY <2>1, EatSingle, Zenon
<1> QED BY <1>1, ThenSingle DEF WhileEnds

LEMMA IfRule ==
  ASSUME NEW t \in Sources, NEW p \in Spots(t), Kind(t, p) = "if", NEW x
  PROVE  x \in Ends("if", t, p)
           <=> \E b \in BlockEnds(t, Ends("expr", t, p + 1)) :
                  x = b \/ (Kind(t, b) = "else" /\ (x \in BlockEnds(t, {b + 1}) \/ x \in Ends("if", t, b + 1)))
<1> DEFINE B == BlockEnds(t, Ends("expr", t, p + 1))
           key == Eat(t, B, {"else"})
<1>1. Eat(t, {p}, {"if"}) = {p + 1}
  <2>1. Kind(t, p) \in {"if"}
    OBVIOUS
  <2> QED BY <2>1, EatSingle, Zenon
<1>2. Ends("if", t, p) = B \cup BlockEnds(t, key) \cup Then(t, key, "if")
  <2>1. Ends("if", t, p) = IfEnds(t, p)
    BY Rules
  <2> QED BY <1>1, <2>1, ThenSingle DEF IfEnds
<1>3. \A k : k \in key <=> \E b \in B : Kind(t, b) = "else" /\ k = b + 1
  BY InEat
<1>4. x \in Then(t, key, "if") <=> \E k \in key : x \in Ends("if", t, k)
  BY InThen
<1>5. x \in BlockEnds(t, key) <=> \E k \in key : x \in BlockEnds(t, {k})
  <2>1. x \in BlockEnds(t, key) <=> \E k \in key : Kind(t, k) = Open /\ x \in BlockRest(t, k + 1)
    BY InBlock
  <2>2. \A k : x \in BlockEnds(t, {k}) <=> Kind(t, k) = Open /\ x \in BlockRest(t, k + 1)
    BY OneBlock
  <2> HIDE DEF key
  <2> QED BY <2>1, <2>2
<1> HIDE DEF B, key
<1>6. x \in Ends("if", t, p)
        <=> \E b \in B : x = b \/ (Kind(t, b) = "else" /\ (x \in BlockEnds(t, {b + 1}) \/ x \in Ends("if", t, b + 1)))
  BY <1>2, <1>3, <1>4, <1>5
<1> QED BY <1>6 DEF B

-----------------------------------------------------------------------------
(* From the place p on, what may be left to come of the frame f of the      *)
(* stack before it returns: where its rest may end.                         *)
Rests(t, k, p) ==
  CASE k = "fn"    -> BodyEnds(t, Ends("params", t, p))
    [] k = "block" -> BlockRest(t, p)
    [] k = "if"    -> IF Kind(t, p) = "else" THEN BlockEnds(t, {p + 1}) \cup Ends("if", t, p + 1) ELSE {p}
    [] k = "else"  -> IF Kind(t, p) = "else" THEN {} ELSE {p}
    [] OTHER       -> {p}

(* The frames of the stack s, from the top on, take the source from p to x. *)
Path(t, s, e) ==
  /\ e \in [1 .. Len(s) + 1 -> Spots(t)]
  /\ \A n \in 1 .. Len(s) : e[n] \in Rests(t, s[n].k, e[n + 1])

Leads(t, s, p, x) == \E e : Path(t, s, e) /\ e[Len(s) + 1] = p /\ e[1] = x

(* What is left from q on makes a program, with a main function if m does   *)
(* not say that there is one.                                               *)
Finishes(t, q, m) ==
  \/ m /\ EndsIn(t, q)
  \/ \E i \in Ends("functions", t, q) : i <= Len(t) /\ EndsIn(t, i) /\ t[i + 1] = "main"

(* The places from which what is left makes a program. *)
Starts(t, m) == {q \in Spots(t) : Finishes(t, q, m)}

(* The parse that is at p with the stack s may still come to one of X. *)
Good(t, s, p, X) == \E x \in X : Leads(t, s, p, x)

LEMMA FinishesIff ==
  ASSUME NEW t, NEW q, NEW m, NEW n, m <=> n
  PROVE  Finishes(t, q, m) <=> Finishes(t, q, n)
  BY DEF Finishes

LEMMA GoodIff ==
  ASSUME NEW t, NEW s, NEW p, NEW m, NEW n, m <=> n
  PROVE  Good(t, s, p, Starts(t, m)) <=> Good(t, s, p, Starts(t, n))
  BY FinishesIff DEF Good, Starts

LEMMA GoodNil ==
  ASSUME NEW t, NEW p \in Spots(t), NEW X
  PROVE  Good(t, <<>>, p, X) <=> p \in X
<1>1. ASSUME NEW x, Leads(t, <<>>, p, x) PROVE x = p
  BY <1>1 DEF Leads
<1>2. Leads(t, <<>>, p, p)
  <2> DEFINE e == [n \in 1 .. Len(<<>>) + 1 |-> p]
  <2>1. Len(<<>>) = 0
    OBVIOUS
  <2>2. Path(t, <<>>, e)
    BY <2>1 DEF Path
  <2>3. e[Len(<<>>) + 1] = p /\ e[1] = p
    BY <2>1
  <2> HIDE DEF e
  <2> QED BY <2>2, <2>3 DEF Leads
<1> QED BY <1>1, <1>2 DEF Good

LEMMA Shorter ==
  ASSUME NEW S, NEW s \in Seq(S), s # <<>>
  PROVE  /\ Len(SubSeq(s, 1, Len(s) - 1)) = Len(s) - 1
         /\ \A i \in 1 .. Len(s) - 1 : SubSeq(s, 1, Len(s) - 1)[i] = s[i]
<1> DEFINE k == Len(s) - 1
<1>1. k \in Int /\ k \in Nat /\ 1 \in Int /\ \A i \in 1 .. k : s[i] \in S
  OBVIOUS
<1> HIDE DEF k
<1>2. /\ Len(SubSeq(s, 1, k)) = IF 1 <= k THEN k - 1 + 1 ELSE 0
      /\ \A i \in 1 .. k - 1 + 1 : SubSeq(s, 1, k)[i] = s[1 + i - 1]
  BY <1>1, SubSeqProperties
<1>3. Len(SubSeq(s, 1, k)) = k /\ \A i \in 1 .. k : SubSeq(s, 1, k)[i] = s[i]
  BY <1>1, <1>2
<1> QED BY <1>3 DEF k

LEMMA LeadsTop ==
  ASSUME NEW t, NEW S, NEW s \in Seq(S), s # <<>>, NEW p \in Spots(t), NEW x
  PROVE  Leads(t, s, p, x)
           <=> \E y \in Rests(t, s[Len(s)].k, p) : Leads(t, SubSeq(s, 1, Len(s) - 1), y, x)
<1> DEFINE n == Len(s)
           b == SubSeq(s, 1, n - 1)
<1>1. n \in Nat /\ n >= 1
  OBVIOUS
<1>2. Len(b) = n - 1 /\ \A i \in 1 .. n - 1 : b[i] = s[i]
  BY Shorter
<1> HIDE DEF n, b
<1>3. ASSUME Leads(t, s, p, x) PROVE \E y \in Rests(t, s[n].k, p) : Leads(t, b, y, x)
  <2>1. PICK e : Path(t, s, e) /\ e[n + 1] = p /\ e[1] = x
    BY <1>3 DEF Leads, n
  <2> DEFINE d == [i \in 1 .. n |-> e[i]]
  <2>2. e \in [1 .. n + 1 -> Spots(t)] /\ \A i \in 1 .. n : e[i] \in Rests(t, s[i].k, e[i + 1])
    BY <2>1 DEF Path, n
  <2>3. d \in [1 .. Len(b) + 1 -> Spots(t)]
    <3>1. Len(b) + 1 = n
      BY <1>1, <1>2
    <3>2. \A i \in 1 .. n : e[i] \in Spots(t)
      BY <1>1, <2>2
    <3> QED BY <3>1, <3>2
  <2>4. \A i \in 1 .. Len(b) : d[i] \in Rests(t, b[i].k, d[i + 1])
    <3> SUFFICES ASSUME NEW i \in 1 .. n - 1 PROVE d[i] \in Rests(t, b[i].k, d[i + 1])
      BY <1>2
    <3>1. i \in 1 .. n /\ i + 1 \in 1 .. n
      BY <1>1
    <3>2. d[i] = e[i] /\ d[i + 1] = e[i + 1] /\ b[i] = s[i]
      BY <1>2, <3>1
    <3>3. e[i] \in Rests(t, s[i].k, e[i + 1])
      BY <2>2, <3>1
    <3> HIDE DEF d
    <3> QED BY <3>2, <3>3
  <2>5. d[1] = x /\ d[n] = e[n] /\ e[n] \in Rests(t, s[n].k, p)
    BY <1>1, <2>1, <2>2
  <2>6. Len(b) + 1 = n
    BY <1>1, <1>2
  <2> HIDE DEF d
  <2>7. Path(t, b, d)
    BY <2>3, <2>4 DEF Path
  <2>8. Leads(t, b, e[n], x)
    BY <2>5, <2>6, <2>7 DEF Leads
  <2> QED BY <2>5, <2>8
<1>4. ASSUME NEW y \in Rests(t, s[n].k, p), Leads(t, b, y, x) PROVE Leads(t, s, p, x)
  <2>0. Len(b) + 1 = n
    BY <1>1, <1>2
  <2>1. PICK d : Path(t, b, d) /\ d[n] = y /\ d[1] = x
    BY <1>4, <2>0 DEF Leads
  <2>2. d \in [1 .. n -> Spots(t)] /\ \A i \in 1 .. n - 1 : d[i] \in Rests(t, b[i].k, d[i + 1])
    BY <1>2, <2>0, <2>1 DEF Path
  <2> DEFINE e == [i \in 1 .. n + 1 |-> IF i = n + 1 THEN p ELSE d[i]]
  <2>3. e \in [1 .. n + 1 -> Spots(t)]
    <3>1. ASSUME NEW i \in 1 .. n + 1, i # n + 1 PROVE d[i] \in Spots(t)
      BY <1>1, <2>2, <3>1
    <3> QED BY <3>1
  <2>4. \A i \in 1 .. n : e[i] \in Rests(t, s[i].k, e[i + 1])
    <3> SUFFICES ASSUME NEW i \in 1 .. n PROVE e[i] \in Rests(t, s[i].k, e[i + 1])
      OBVIOUS
    <3>1. i \in 1 .. n + 1 /\ i + 1 \in 1 .. n + 1 /\ i # n + 1 /\ e[i] = d[i]
      BY <1>1
    <3>2. CASE i = n
      <4>1. e[i + 1] = p
        BY <3>1, <3>2
      <4> HIDE DEF e
      <4> QED BY <2>1, <3>1, <3>2, <4>1
    <3>3. CASE i # n
      <4>1. i \in 1 .. n - 1 /\ i + 1 # n + 1
        BY <1>1, <3>3
      <4>2. e[i + 1] = d[i + 1] /\ b[i] = s[i]
        BY <1>2, <3>1, <4>1
      <4>3. d[i] \in Rests(t, b[i].k, d[i + 1])
        BY <2>2, <4>1
      <4> HIDE DEF e
      <4> QED BY <3>1, <4>2, <4>3
    <3> QED BY <3>2, <3>3
  <2>5. e[1] = x /\ e[n + 1] = p
    BY <1>1, <2>1
  <2> HIDE DEF e
  <2>6. Path(t, s, e)
    BY <2>3, <2>4 DEF Path, n
  <2> QED BY <2>5, <2>6 DEF Leads, n
<1> QED BY <1>3, <1>4 DEF n, b

LEMMA GoodTop ==
  ASSUME NEW t, NEW S, NEW s \in Seq(S), s # <<>>, NEW p \in Spots(t), NEW X
  PROVE  Good(t, s, p, X)
           <=> \E y \in Rests(t, s[Len(s)].k, p) : Good(t, SubSeq(s, 1, Len(s) - 1), y, X)
<1>1. \A x : Leads(t, s, p, x)
           <=> \E y \in Rests(t, s[Len(s)].k, p) : Leads(t, SubSeq(s, 1, Len(s) - 1), y, x)
  BY LeadsTop
<1> QED BY <1>1 DEF Good

LEMMA GoodPush ==
  ASSUME NEW t, NEW S, NEW s \in Seq(S), NEW f, NEW p \in Spots(t), NEW X
  PROVE  Good(t, Append(s, f), p, X) <=> \E y \in Rests(t, f.k, p) : Good(t, s, y, X)
<1> DEFINE T == S \cup {f}
           a == Append(s, f)
<1>1. s \in Seq(T) /\ f \in T
  OBVIOUS
<1>2. a \in Seq(T) /\ a # <<>> /\ Len(a) = Len(s) + 1 /\ a[Len(a)] = f
  BY <1>1
<1>3. SubSeq(a, 1, Len(a) - 1) = s
  <2>1. Len(a) - 1 = Len(s)
    BY <1>1, <1>2
  <2>2. SubSeq(a, 1, Len(s)) = s
    BY <1>1
  <2> QED BY <2>1, <2>2
<1> HIDE DEF a
<1>4. Good(t, a, p, X) <=> \E y \in Rests(t, a[Len(a)].k, p) : Good(t, SubSeq(a, 1, Len(a) - 1), y, X)
  BY <1>2, GoodTop
<1> QED BY <1>2, <1>3, <1>4 DEF a

-----------------------------------------------------------------------------
(* Functions: what is left behind a place between two of them. *)
LEMMA FunctionsRule ==
  ASSUME NEW t \in Sources, NEW q \in Spots(t), NEW j
  PROVE  j \in Ends("functions", t, q) <=> j = q \/ \E z \in FunctionEnds(t, q) : j \in Ends("functions", t, z)
<1>1. Ends("functions", t, q) = {q} \cup Then(t, FunctionEnds(t, q), "functions")
  <2>1. Ends("functions", t, q) = FunctionsEnds(t, q)
    BY Rules
  <2> QED BY <2>1 DEF FunctionsEnds
<1> QED BY <1>1, InThen

LEMMA AtFunction ==
  ASSUME NEW t \in Sources, NEW q \in Spots(t), Kind(t, q) = "fn", NEW m
  PROVE  Finishes(t, q, m) <=> \E z \in FunctionEnds(t, q) : Finishes(t, z, m \/ t[q + 1] = "main")
<1>1. q \in Int /\ q <= Len(t) /\ Len(t) \in Nat
  BY EatOne, SourceLength DEF Spots
<1>2. EndsIn(t, q) <=> \E z \in FunctionEnds(t, q) : EndsIn(t, z)
  BY <1>1, FunctionsRule DEF EndsIn
<1>3. \A i : i \in Ends("functions", t, q) <=> i = q \/ \E z \in FunctionEnds(t, q) : i \in Ends("functions", t, z)
  BY FunctionsRule
<1> HIDE DEF EndsIn
<1>4. (\E i \in Ends("functions", t, q) : i <= Len(t) /\ EndsIn(t, i) /\ t[i + 1] = "main")
        <=> \/ EndsIn(t, q) /\ t[q + 1] = "main"
            \/ \E z \in FunctionEnds(t, q) :
                 \E i \in Ends("functions", t, z) : i <= Len(t) /\ EndsIn(t, i) /\ t[i + 1] = "main"
  BY <1>1, <1>3
<1> QED BY <1>2, <1>4 DEF Finishes

LEMMA NotAtFunction ==
  ASSUME NEW t \in Sources, NEW q \in Spots(t), Kind(t, q) # "fn", NEW m
  PROVE  Finishes(t, q, m) <=> Kind(t, q) = "Eof" /\ m
<1>1. q \in Int /\ Len(t) \in Nat /\ q <= Len(t) + 1 /\ (Kind(t, q) = "Eof" <=> q = Len(t) + 1)
  <2>1. Len(t) \in Nat /\ \A p \in 1 .. Len(t) : Kind(t, p) # "Eof"
    BY SourceLength
  <2>2. Kind(t, Len(t) + 1) = "Eof"
    BY <2>1 DEF Kind
  <2> QED BY <2>1, <2>2 DEF Spots
<1>2. FunctionEnds(t, q) = {}
  BY Heads
<1>3. \A j : j \in Ends("functions", t, q) <=> j = q
  BY <1>2, FunctionsRule
<1>4. EndsIn(t, q) <=> q = Len(t) + 1
  BY <1>3 DEF EndsIn
<1>5. ~\E i \in Ends("functions", t, q) : i <= Len(t) /\ EndsIn(t, i) /\ t[i + 1] = "main"
  <2>1. CASE q = Len(t) + 1
    BY <1>1, <1>3, <2>1
  <2>2. CASE q # Len(t) + 1
    BY <1>3, <1>4, <2>2
  <2> QED BY <2>1, <2>2
<1> QED BY <1>1, <1>4, <1>5 DEF Finishes

LEMMA FunctionRule ==
  ASSUME NEW t \in Sources, NEW q \in Spots(t), Kind(t, q) = "fn"
  PROVE  /\ Kind(t, q + 1) = "Identifier" /\ Kind(t, q + 2) = "(" =>
              q + 3 \in Spots(t) /\ FunctionEnds(t, q) = BodyEnds(t, Ends("params", t, q + 3))
         /\ ~(Kind(t, q + 1) = "Identifier" /\ Kind(t, q + 2) = "(") => FunctionEnds(t, q) = {}
<1>1. q \in Int /\ q + 1 \in Spots(t)
  BY NextSpot
<1>2. Eat(t, {q}, {"fn"}) = {q + 1}
  <2>1. Kind(t, q) \in {"fn"}
    OBVIOUS
  <2> QED BY <2>1, EatSingle, Zenon
<1>3. BodyEnds(t, {}) = {}
  <2>1. BlockEnds(t, {}) = {}
    BY Nothing, BlockRule
  <2> QED BY <2>1, Nothing DEF BodyEnds
<1>4. CASE Kind(t, q + 1) = "Identifier"
  <2>1. (q + 1) + 1 \in Spots(t) /\ (q + 1) + 1 = q + 2 /\ (q + 2) + 1 = q + 3
    BY <1>1, <1>4, NextSpot
  <2>2. Eat(t, {q + 1}, {"Identifier"}) = {q + 2}
    <3>1. Kind(t, q + 1) \in {"Identifier"}
      BY <1>4
    <3>2. Eat(t, {q + 1}, {"Identifier"}) = {(q + 1) + 1}
      BY <3>1, EatSingle, Zenon
    <3> QED BY <2>1, <3>2
  <2>3. CASE Kind(t, q + 2) = "("
    <3>1. Eat(t, {q + 2}, {"("}) = {q + 3}
      <4>1. Kind(t, q + 2) \in {"("}
        BY <2>3
      <4>2. Eat(t, {q + 2}, {"("}) = {(q + 2) + 1}
        BY <4>1, EatSingle, Zenon
      <4> QED BY <2>1, <4>2
    <3>2. q + 3 \in Spots(t)
      BY <2>1, <2>3, NextSpot
    <3>3. FunctionEnds(t, q) = BodyEnds(t, Ends("params", t, q + 3))
      BY <1>2, <2>2, <3>1, ThenSingle DEF FunctionEnds
    <3> QED BY <1>4, <2>3, <3>2, <3>3
  <2>4. CASE Kind(t, q + 2) # "("
    <3>1. Eat(t, {q + 2}, {"("}) = {}
      <4>1. Kind(t, q + 2) \notin {"("}
        BY <2>4
      <4> QED BY <4>1, EatSingle, Zenon
    <3>2. FunctionEnds(t, q) = BodyEnds(t, {})
      BY <1>2, <2>2, <3>1, Nothing DEF FunctionEnds
    <3> QED BY <1>3, <2>4, <3>2
  <2> QED BY <2>3, <2>4
<1>5. CASE Kind(t, q + 1) # "Identifier"
  <2>1. Eat(t, {q + 1}, {"Identifier"}) = {}
    <3>1. Kind(t, q + 1) \notin {"Identifier"}
      BY <1>5
    <3> QED BY <3>1, EatSingle, Zenon
  <2>2. FunctionEnds(t, q) = BodyEnds(t, {})
    BY <1>2, <2>1, Nothing DEF FunctionEnds
  <2> QED BY <1>3, <1>5, <2>2
<1> QED BY <1>4, <1>5

(* Where ')' is: the body begins behind it. *)
LEMMA InBody ==
  ASSUME NEW t, NEW S, NEW x
  PROVE  x \in BodyEnds(t, S) <=> \E s \in S : Kind(t, s) = ")" /\ x \in BodyEnds(t, {s})
<1> DEFINE W(Q) == Eat(t, Eat(t, Eat(t, Q, {")"}), {":"}), Types)
<1>1. \A Q : BodyEnds(t, Q) = BlockEnds(t, W(Q))
  BY DEF BodyEnds
<1>2. ASSUME NEW y
      PROVE  y \in W(S) <=> \E s \in S : Kind(t, s) = ")" /\ y \in W({s})
  <2>1. ASSUME NEW Q
        PROVE  y \in W(Q) <=> \E s \in Q : /\ Kind(t, s) = ")"
                                           /\ Kind(t, s + 1) = ":"
                                           /\ Kind(t, (s + 1) + 1) \in Types
                                           /\ y = ((s + 1) + 1) + 1
    <3> DEFINE A == Eat(t, Q, {")"})
               B == Eat(t, A, {":"})
    <3>1. \A a : a \in A <=> \E s \in Q : Kind(t, s) = ")" /\ a = s + 1
      BY InEat
    <3>2. \A b : b \in B <=> \E a \in A : Kind(t, a) = ":" /\ b = a + 1
      BY InEat
    <3>3. y \in Eat(t, B, Types) <=> \E b \in B : Kind(t, b) \in Types /\ y = b + 1
      BY InEat
    <3> HIDE DEF A, B
    <3>4. y \in Eat(t, B, Types) <=> \E s \in Q : /\ Kind(t, s) = ")"
                                                  /\ Kind(t, s + 1) = ":"
                                                  /\ Kind(t, (s + 1) + 1) \in Types
                                                  /\ y = ((s + 1) + 1) + 1
      BY <3>1, <3>2, <3>3
    <3> QED BY <3>4 DEF A, B
  <2>2. y \in W(S) <=> \E s \in S : /\ Kind(t, s) = ")"
                                    /\ Kind(t, s + 1) = ":"
                                    /\ Kind(t, (s + 1) + 1) \in Types
                                    /\ y = ((s + 1) + 1) + 1
    BY <2>1
  <2>3. \A s : y \in W({s}) <=> /\ Kind(t, s) = ")"
                                /\ Kind(t, s + 1) = ":"
                                /\ Kind(t, (s + 1) + 1) \in Types
                                /\ y = ((s + 1) + 1) + 1
    <3> SUFFICES ASSUME NEW s
                 PROVE  y \in W({s}) <=> /\ Kind(t, s) = ")"
                                         /\ Kind(t, s + 1) = ":"
                                         /\ Kind(t, (s + 1) + 1) \in Types
                                         /\ y = ((s + 1) + 1) + 1
      OBVIOUS
    <3>1. y \in W({s}) <=> \E r \in {s} : /\ Kind(t, r) = ")"
                                          /\ Kind(t, r + 1) = ":"
                                          /\ Kind(t, (r + 1) + 1) \in Types
                                          /\ y = ((r + 1) + 1) + 1
      BY <2>1
    <3> HIDE DEF W
    <3> QED BY <3>1
  <2> HIDE DEF W
  <2> QED BY <2>2, <2>3
<1>3. \A Q : x \in BodyEnds(t, Q) <=> \E y \in W(Q) : Kind(t, y) = Open /\ x \in BlockRest(t, y + 1)
  <2> SUFFICES ASSUME NEW Q
               PROVE  x \in BodyEnds(t, Q) <=> \E y \in W(Q) : Kind(t, y) = Open /\ x \in BlockRest(t, y + 1)
    OBVIOUS
  <2>1. x \in BlockEnds(t, W(Q)) <=> \E y \in W(Q) : Kind(t, y) = Open /\ x \in BlockRest(t, y + 1)
    BY InBlock
  <2> QED BY <1>1, <2>1
<1>4. x \in BodyEnds(t, S) <=> \E y \in W(S) : Kind(t, y) = Open /\ x \in BlockRest(t, y + 1)
  BY <1>3
<1>5. \A s : x \in BodyEnds(t, {s}) <=> \E y \in W({s}) : Kind(t, y) = Open /\ x \in BlockRest(t, y + 1)
  BY <1>3
<1>6. \A y : y \in W(S) <=> \E s \in S : Kind(t, s) = ")" /\ y \in W({s})
  BY <1>2
<1> HIDE DEF W
<1> QED BY <1>4, <1>5, <1>6, Zenon

-----------------------------------------------------------------------------
(* Parameters. *)
IsParam(t, p) == Kind(t, p) = "Identifier" /\ Kind(t, p + 1) = ":" /\ Kind(t, p + 2) \in Types

LEMMA ParamRule ==
  ASSUME NEW t \in Sources, NEW p \in Spots(t)
  PROVE  /\ IsParam(t, p) => p + 3 \in Spots(t) /\ ParamEnds(t, p) = {p + 3}
         /\ ~IsParam(t, p) => ParamEnds(t, p) = {}
<1>1. p \in Int
  BY DEF Spots
<1>2. CASE Kind(t, p) # "Identifier"
  BY <1>2, Heads DEF IsParam
<1>3. CASE Kind(t, p) = "Identifier"
  <2>1. p + 1 \in Spots(t)
    BY <1>3, NextSpot
  <2>2. Eat(t, {p}, {"Identifier"}) = {p + 1}
    <3>1. Kind(t, p) \in {"Identifier"}
      BY <1>3
    <3> QED BY <3>1, EatSingle, Zenon
  <2>3. CASE Kind(t, p + 1) # ":"
    <3>1. Eat(t, {p + 1}, {":"}) = {}
      <4>1. Kind(t, p + 1) \notin {":"}
        BY <2>3
      <4> QED BY <4>1, EatSingle, Zenon
    <3>2. ParamEnds(t, p) = {}
      BY <2>2, <3>1, Nothing DEF ParamEnds
    <3> QED BY <2>3, <3>2 DEF IsParam
  <2>4. CASE Kind(t, p + 1) = ":"
    <3>1. p + 2 \in Spots(t) /\ (p + 1) + 1 = p + 2
      <4>1. (p + 1) + 1 \in Spots(t)
        BY <2>1, <2>4, NextSpot
      <4> QED BY <1>1, <4>1
    <3>2. Eat(t, {p + 1}, {":"}) = {p + 2}
      <4>1. Kind(t, p + 1) \in {":"}
        BY <2>4
      <4>2. Eat(t, {p + 1}, {":"}) = {(p + 1) + 1}
        BY <4>1, EatSingle, Zenon
      <4> QED BY <3>1, <4>2
    <3>3. ParamEnds(t, p) = Eat(t, {p + 2}, Types)
      BY <2>2, <3>2 DEF ParamEnds
    <3>4. CASE Kind(t, p + 2) \in Types
      <4>1. Kind(t, p + 2) # "Eof"
        BY <3>4 DEF Types
      <4>2. (p + 2) + 1 \in Spots(t) /\ (p + 2) + 1 = p + 3
        <5>1. (p + 2) + 1 \in Spots(t)
          BY <3>1, <4>1, NextSpot
        <5> QED BY <1>1, <5>1
      <4>3. Eat(t, {p + 2}, Types) = {(p + 2) + 1}
        BY <3>4, EatSingle
      <4>4. ParamEnds(t, p) = {p + 3} /\ p + 3 \in Spots(t)
        BY <3>3, <4>2, <4>3
      <4> QED BY <1>3, <2>4, <3>4, <4>4 DEF IsParam
    <3>5. CASE Kind(t, p + 2) \notin Types
      <4>1. ParamEnds(t, p) = {}
        BY <3>3, <3>5, EatSingle
      <4> QED BY <3>5, <4>1 DEF IsParam
    <3> QED BY <3>4, <3>5
  <2> QED BY <2>3, <2>4
<1> QED BY <1>2, <1>3

LEMMA NoParams ==
  ASSUME NEW t \in Sources, NEW p \in Spots(t), Kind(t, p) = ")"
  PROVE  Ends("params", t, p) = {p}
<1>1. ParamEnds(t, p) = {}
  BY Heads
<1>2. Ends("params", t, p) = ParamsEnds(t, p)
  BY Rules
<1> QED BY <1>1, <1>2, Nothing, ParamsRule

(* The end of a list of parameters, and one more of them. *)
LEMMA ParamsEnd ==
  ASSUME NEW t \in Sources, NEW p \in Spots(t), Kind(t, p) = ")", NEW x
  PROVE  x \in Rests(t, "fn", p)
           <=> Kind(t, p + 1) = ":" /\ Kind(t, p + 2) \in Types /\ Kind(t, p + 3) = Open /\ x \in BlockRest(t, p + 4)
<1>1. p \in Int /\ (p + 1) + 1 = p + 2 /\ (p + 2) + 1 = p + 3 /\ (p + 3) + 1 = p + 4
  BY DEF Spots
<1>2. Rests(t, "fn", p) = BodyEnds(t, {p})
  BY NoParams, Zenon DEF Rests
<1>3. Eat(t, {p}, {")"}) = {p + 1}
  <2>1. Kind(t, p) \in {")"}
    OBVIOUS
  <2> QED BY <2>1, EatSingle, Zenon
<1>4. BlockEnds(t, {}) = {}
  BY Nothing, BlockRule
<1>5. CASE Kind(t, p + 1) # ":"
  <2>1. Eat(t, {p + 1}, {":"}) = {}
    <3>1. Kind(t, p + 1) \notin {":"}
      BY <1>5
    <3> QED BY <3>1, EatSingle, Zenon
  <2>2. BodyEnds(t, {p}) = {}
    BY <1>3, <1>4, <2>1, Nothing DEF BodyEnds
  <2> QED BY <1>2, <1>5, <2>2
<1>6. CASE Kind(t, p + 1) = ":"
  <2>1. Eat(t, {p + 1}, {":"}) = {p + 2}
    <3>1. Kind(t, p + 1) \in {":"}
      BY <1>6
    <3>2. Eat(t, {p + 1}, {":"}) = {(p + 1) + 1}
      BY <3>1, EatSingle, Zenon
    <3> QED BY <1>1, <3>2
  <2>2. BodyEnds(t, {p}) = BlockEnds(t, Eat(t, {p + 2}, Types))
    BY <1>3, <2>1 DEF BodyEnds
  <2>3. CASE Kind(t, p + 2) \notin Types
    <3>1. Eat(t, {p + 2}, Types) = {}
      BY <2>3, EatSingle
    <3>2. BodyEnds(t, {p}) = {}
      BY <1>4, <2>2, <3>1
    <3> QED BY <1>2, <2>3, <3>2
  <2>4. CASE Kind(t, p + 2) \in Types
    <3>1. Eat(t, {p + 2}, Types) = {p + 3}
      <4>1. Eat(t, {p + 2}, Types) = {(p + 2) + 1}
        BY <2>4, EatSingle
      <4> QED BY <1>1, <4>1
    <3>2. BodyEnds(t, {p}) = BlockEnds(t, {p + 3})
      BY <2>2, <3>1
    <3>3. x \in BlockEnds(t, {p + 3}) <=> Kind(t, p + 3) = Open /\ x \in BlockRest(t, (p + 3) + 1)
      BY OneBlock
    <3>4. x \in Rests(t, "fn", p) <=> Kind(t, p + 3) = Open /\ x \in BlockRest(t, p + 4)
      BY <1>1, <1>2, <3>2, <3>3
    <3> QED BY <1>6, <2>4, <3>4
  <2> QED BY <2>3, <2>4
<1> QED BY <1>5, <1>6

LEMMA ParamsStep ==
  ASSUME NEW t \in Sources, NEW p \in Spots(t), Kind(t, p) # ")", NEW x
  PROVE  x \in Rests(t, "fn", p)
           <=> IsParam(t, p) /\ (\/ Kind(t, p + 3) = Comma /\ x \in Rests(t, "fn", p + 4)
                                 \/ Kind(t, p + 3) = ")" /\ x \in Rests(t, "fn", p + 3))
<1> DEFINE P == Ends("params", t, p)
           G(q) == Ends("params", t, q)
<1>1. p \in Int /\ (p + 3) + 1 = p + 4
  BY DEF Spots
<1>2. \A q : Rests(t, "fn", q) = BodyEnds(t, G(q))
  BY Zenon DEF Rests
<1>3. \A q : x \in Rests(t, "fn", q) <=> \E s \in G(q) : Kind(t, s) = ")" /\ x \in BodyEnds(t, {s})
  <2> SUFFICES ASSUME NEW q PROVE x \in Rests(t, "fn", q) <=> \E s \in G(q) : Kind(t, s) = ")" /\ x \in BodyEnds(t, {s})
    OBVIOUS
  <2>1. x \in BodyEnds(t, G(q)) <=> \E s \in G(q) : Kind(t, s) = ")" /\ x \in BodyEnds(t, {s})
    BY InBody
  <2> QED BY <1>2, <2>1
<1>4. P = {p} \cup ParamEnds(t, p) \cup Then(t, Eat(t, ParamEnds(t, p), {Comma}), "params")
  <2>1. P = ParamsEnds(t, p)
    BY Rules
  <2> QED BY <2>1, ParamsRule
<1>5. x \in Rests(t, "fn", p) <=> \E s \in P : Kind(t, s) = ")" /\ x \in BodyEnds(t, {s})
  BY <1>3
<1>6. CASE ~IsParam(t, p)
  <2>1. P = {p}
    BY <1>4, <1>6, ParamRule, Nothing
  <2> QED BY <1>5, <1>6, <2>1
<1>7. CASE IsParam(t, p)
  <2>1. p + 3 \in Spots(t) /\ ParamEnds(t, p) = {p + 3}
    BY <1>7, ParamRule
  <2>2. CASE Kind(t, p + 3) = Comma
    <3>1. Eat(t, {p + 3}, {Comma}) = {p + 4}
      <4>1. Eat(t, {p + 3}, {Comma}) = {(p + 3) + 1}
        BY <2>2, EatSingle
      <4> QED BY <1>1, <4>1
    <3>2. P = {p} \cup {p + 3} \cup G(p + 4)
      BY <1>4, <2>1, <3>1, ThenSingle
    <3>3. Comma # ")"
      BY Signs
    <3>4. x \in Rests(t, "fn", p + 4) <=> \E s \in G(p + 4) : Kind(t, s) = ")" /\ x \in BodyEnds(t, {s})
      BY <1>3
    <3> HIDE DEF P, G
    <3>5. x \in Rests(t, "fn", p) <=> x \in Rests(t, "fn", p + 4)
      BY <1>5, <2>2, <3>2, <3>3, <3>4
    <3> QED BY <1>7, <2>2, <3>3, <3>5
  <2>3. CASE Kind(t, p + 3) # Comma
    <3>1. Eat(t, {p + 3}, {Comma}) = {}
      <4>1. Kind(t, p + 3) \notin {Comma}
        BY <2>3
      <4> QED BY <4>1, EatSingle, Zenon
    <3>2. P = {p} \cup {p + 3}
      BY <1>4, <2>1, <3>1, Nothing
    <3>3. x \in Rests(t, "fn", p) <=> Kind(t, p + 3) = ")" /\ x \in BodyEnds(t, {p + 3})
      <4> HIDE DEF P
      <4> QED BY <1>5, <3>2
    <3>4. Kind(t, p + 3) = ")" => Rests(t, "fn", p + 3) = BodyEnds(t, {p + 3})
      BY <1>2, <2>1, NoParams
    <3> QED BY <1>7, <2>3, <3>3, <3>4
  <2> QED BY <2>2, <2>3
<1> QED BY <1>6, <1>7

(* Nothing is missed exactly if all the kinds are there. *)
LEMMA MissMeans ==
  ASSUME NEW p, NEW S, NEW kinds \in Seq(S), Len(kinds) \in {2, 3}
  PROVE  Miss(p, kinds) = 0 <=> \A i \in 1 .. Len(kinds) : Kind(tokens, p + i - 1) = kinds[i]
<1> DEFINE wrong == {i \in DOMAIN kinds : Kind(tokens, p + i - 1) # kinds[i]}
<1>1. CASE wrong = {}
  <2>1. Miss(p, kinds) = 0
    BY <1>1 DEF Miss
  <2>2. \A i \in 1 .. Len(kinds) : Kind(tokens, p + i - 1) = kinds[i]
    BY <1>1
  <2> QED BY <2>1, <2>2
<1>2. CASE wrong # {}
  <2>1. \E i \in wrong : \A j \in wrong : i <= j
    <3>1. wrong \subseteq {1, 2, 3}
      OBVIOUS
    <3>2. CASE 1 \in wrong
      BY <3>1, <3>2
    <3>3. CASE 1 \notin wrong /\ 2 \in wrong
      BY <3>1, <3>3
    <3>4. CASE 1 \notin wrong /\ 2 \notin wrong
      BY <1>2, <3>1, <3>4
    <3> QED BY <3>2, <3>3, <3>4
  <2>2. Miss(p, kinds) = CHOOSE i \in wrong : \A j \in wrong : i <= j
    BY <1>2 DEF Miss
  <2>3. Miss(p, kinds) \in wrong
    BY <2>1, <2>2
  <2>4. Miss(p, kinds) # 0
    BY <2>3
  <2>5. ~\A i \in 1 .. Len(kinds) : Kind(tokens, p + i - 1) = kinds[i]
    BY <2>3
  <2> QED BY <2>4, <2>5
<1> QED BY <1>1, <1>2

LEMMA Misses ==
  ASSUME NEW p \in Int, NEW a, NEW b
  PROVE  Miss(p, <<a, b>>) = 0 <=> Kind(tokens, p) = a /\ Kind(tokens, p + 1) = b
<1>0. p + 1 - 1 = p /\ p + 2 - 1 = p + 1
  OBVIOUS
<1> DEFINE kinds == <<a, b>>
<1>1. kinds \in Seq({a, b}) /\ Len(kinds) = 2 /\ kinds[1] = a /\ kinds[2] = b
  OBVIOUS
<1> HIDE DEF kinds
<1>2. Miss(p, kinds) = 0 <=> \A i \in 1 .. 2 : Kind(tokens, p + i - 1) = kinds[i]
  BY <1>1, MissMeans
<1>3. (\A i \in 1 .. 2 : Kind(tokens, p + i - 1) = kinds[i])
        <=> Kind(tokens, p + 1 - 1) = kinds[1] /\ Kind(tokens, p + 2 - 1) = kinds[2]
  <2>1. 1 .. 2 = {1, 2}
    OBVIOUS
  <2> QED BY <2>1, Zenon
<1> QED BY <1>0, <1>1, <1>2, <1>3 DEF kinds

LEMMA MissesThree ==
  ASSUME NEW p \in Int, NEW a, NEW b, NEW c, NEW kinds, kinds = <<a, b, c>>
  PROVE  Miss(p, kinds) = 0
           <=> Kind(tokens, p) = a /\ Kind(tokens, p + 1) = b /\ Kind(tokens, p + 2) = c
<1>0. p + 1 - 1 = p /\ p + 2 - 1 = p + 1 /\ p + 3 - 1 = p + 2
  OBVIOUS
<1>1. kinds \in Seq({a, b, c}) /\ Len(kinds) = 3 /\ kinds[1] = a /\ kinds[2] = b /\ kinds[3] = c
  OBVIOUS
<1>2. Miss(p, kinds) = 0 <=> \A i \in 1 .. 3 : Kind(tokens, p + i - 1) = kinds[i]
  BY <1>1, MissMeans
<1>3. (\A i \in 1 .. 3 : Kind(tokens, p + i - 1) = kinds[i])
        <=> /\ Kind(tokens, p + 1 - 1) = kinds[1] /\ Kind(tokens, p + 2 - 1) = kinds[2]
            /\ Kind(tokens, p + 3 - 1) = kinds[3]
  <2>1. 1 .. 3 = {1, 2, 3}
    OBVIOUS
  <2> QED BY <2>1, Zenon
<1> QED BY <1>0, <1>1, <1>2, <1>3

-----------------------------------------------------------------------------
(* The frames of a stack: the one of a function is the lowest, and what is  *)
(* not a block stands on a block or, behind an else, on an if.              *)
Fits(f, g) ==
  /\ f.k # "fn" /\ g.k \notin {"fn", "body"}
  /\ g.k # "block" => f.k \in {"block", "else"}

Shape(s) ==
  /\ s # <<>> => s[1].k \in {"fn", "body"}
  /\ \A n \in 2 .. Len(s) : Fits(s[n - 1], s[n])

LEMMA ShapeTop ==
  ASSUME NEW s, Stacked(s), Shape(s), s # <<>>
  PROVE  /\ s[Len(s)].k \in {"fn", "body"} => Len(s) = 1 /\ SubSeq(s, 1, Len(s) - 1) = <<>>
         /\ s[Len(s)].k \notin {"fn", "body"} => Len(s) >= 2
         /\ Shape(SubSeq(s, 1, Len(s) - 1))
<1> DEFINE n == Len(s)
           b == SubSeq(s, 1, n - 1)
<1>1. PICK S : s \in Seq(S) /\ \A f \in S : FrameOK(f)
  BY DEF Stacked
<1>2. n \in Nat /\ n >= 1
  BY <1>1
<1>3. Len(b) = n - 1 /\ \A i \in 1 .. n - 1 : b[i] = s[i]
  BY <1>1, Shorter
<1>4. s[n].k \in {"fn", "body"} => n = 1
  <2>1. n # 1 => n \in 2 .. Len(s)
    BY <1>1, <1>2, SMTT(30)
  <2>2. n # 1 => Fits(s[n - 1], s[n])
    BY <2>1, Zenon DEF Shape
  <2> QED BY <2>2 DEF Fits
<1>5. n = 1 => b = <<>>
  BY <1>1
<1>6. n = 1 => s[n].k \in {"fn", "body"}
  BY DEF Shape
<1> HIDE DEF n, b
<1>7. Shape(b)
  <2>1. b # <<>> => b[1] = s[1]
    BY <1>2, <1>3, <1>5
  <2>2. ASSUME NEW i \in 2 .. Len(b) PROVE Fits(b[i - 1], b[i])
    <3>1. i \in 1 .. n - 1 /\ i - 1 \in 1 .. n - 1 /\ i \in 2 .. n
      BY <1>2, <1>3
    <3>2. Fits(s[i - 1], s[i])
      BY <3>1 DEF Shape, n
    <3> QED BY <1>3, <3>1, <3>2
  <2> QED BY <2>1, <2>2 DEF Shape
<1> QED BY <1>2, <1>4, <1>5, <1>6, <1>7 DEF n, b

LEMMA ShapePush ==
  ASSUME NEW s, Stacked(s), Shape(s), NEW f,
         IF s = <<>> THEN f.k \in {"fn", "body"} ELSE Fits(s[Len(s)], f)
  PROVE  /\ Shape(Append(s, f))
         /\ s # <<>> => Append(s, f)[1] = s[1]
         /\ Append(s, f) # <<>> /\ Append(s, f)[Len(Append(s, f))] = f
<1>1. PICK S : s \in Seq(S)
  BY DEF Stacked
<1> DEFINE a == Append(s, f)
           n == Len(s)
<1>2. n \in Nat /\ Len(a) = n + 1 /\ a[n + 1] = f /\ \A i \in 1 .. n : a[i] = s[i]
  BY <1>1
<1>3. a # <<>> /\ (s = <<>> <=> n = 0)
  BY <1>1
<1> HIDE DEF a, n
<1>4. s # <<>> => a[1] = s[1]
  BY <1>2, <1>3
<1>5. s = <<>> => a[1] = f
  BY <1>2, <1>3
<1>6. ASSUME NEW i \in 2 .. Len(a) PROVE Fits(a[i - 1], a[i])
  <2>1. CASE i = n + 1
    <3>1. s # <<>> /\ i - 1 = n /\ n \in 1 .. n
      BY <1>2, <1>3, <2>1
    <3> QED BY <1>2, <2>1, <3>1 DEF n
  <2>2. CASE i # n + 1
    <3>1. i \in 1 .. n /\ i - 1 \in 1 .. n /\ i \in 2 .. n
      BY <1>2, <2>2
    <3>2. Fits(s[i - 1], s[i])
      BY <3>1 DEF Shape, n
    <3> QED BY <1>2, <3>1, <3>2
  <2> QED BY <2>1, <2>2
<1>7. Shape(a)
  BY <1>3, <1>4, <1>5, <1>6 DEF Shape
<1> QED BY <1>2, <1>3, <1>4, <1>7 DEF a

(* Behind a block whose if or else does not go on, no else makes a program. *)
LEMMA DeadElse ==
  ASSUME NEW t \in Sources, NEW p \in Spots(t), Kind(t, p) = "else",
         NEW s, Stacked(s), s # <<>>, s[Len(s)].k \in {"block", "else"}, NEW X
  PROVE  ~Good(t, s, p, X)
<1>1. PICK S : s \in Seq(S)
  BY DEF Stacked
<1> DEFINE k == s[Len(s)].k
<1>2. Rests(t, k, p) = {}
  <2>1. CASE k = "block"
    <3>1. Rests(t, k, p) = BlockRest(t, p)
      BY <2>1, Zenon DEF Rests
    <3> QED BY <3>1, NoElse
  <2>2. CASE k = "else"
    BY <2>2, Zenon DEF Rests
  <2> QED BY <2>1, <2>2
<1>3. Good(t, s, p, X) <=> \E y \in Rests(t, k, p) : Good(t, SubSeq(s, 1, Len(s) - 1), y, X)
  BY <1>1, GoodTop
<1> HIDE DEF k
<1> QED BY <1>2, <1>3

-----------------------------------------------------------------------------
LEMMA BlockRestIn ==
  ASSUME NEW t \in Sources, NEW q \in Spots(t)
  PROVE  BlockRest(t, q) \subseteq Spots(t)
<1>1. Ends("stmts", t, q) \subseteq Spots(t)
  BY EndsInside
<1>2. ASSUME NEW x \in BlockRest(t, q) PROVE x \in Spots(t)
  <2>1. PICK i \in Ends("stmts", t, q) : Kind(t, i) = Close /\ x = i + 1
    BY InEat DEF BlockRest
  <2>2. Close # "Eof"
    BY Signs
  <2> QED BY <1>1, <2>1, <2>2, EatOne
<1> QED BY <1>2

LEMMA StmtInside ==
  ASSUME NEW t \in Sources, NEW q \in Spots(t)
  PROVE  StmtEnds(t, q) \subseteq Spots(t)
<1>1. WideBehind(t, q)
  BY AllWide
<1>2. StmtEnds(t, q) \subseteq Rest(t, q + 1)
  BY <1>1, StmtIn
<1> QED BY <1>2 DEF Rest, Spots

(* Statements with blocks are the only ones that begin as they do. *)
LEMMA StmtRules ==
  ASSUME NEW t \in Sources, NEW p \in Spots(t)
  PROVE  /\ Kind(t, p) = "if" => StmtEnds(t, p) = Ends("if", t, p)
         /\ Kind(t, p) = "while" => StmtEnds(t, p) = WhileEnds(t, p)
<1>1. /\ Kind(t, p) # "Identifier" => AssignEnds(t, p) = {}
      /\ Kind(t, p) # "return" => ReturnEnds(t, p) = {}
      /\ Kind(t, p) \notin {"let", "var"} => DeclEnds(t, p) = {}
      /\ Kind(t, p) # "if" => Ends("if", t, p) = {}
      /\ Kind(t, p) # "while" => WhileEnds(t, p) = {}
  BY Heads
<1>2. ASSUME Kind(t, p) \in {"if", "while"} PROVE Eat(t, SimpleEnds(t, p), {Semicolon}) = {}
  <2>1. SimpleEnds(t, p) = Ends("expr", t, p)
    BY <1>1, <1>2 DEF SimpleEnds
  <2>2. {Semicolon} \cap Hungry = {} /\ Kind(t, p) \notin First
    BY <1>2, Sated DEF First
  <2> QED BY <2>1, <2>2, NoExpr
<1> QED BY <1>1, <1>2, StmtRule

(* A block makes a program with its end, or behind a statement. *)
LEMMA GoodBlock ==
  ASSUME NEW t \in Sources, NEW s, Stacked(s), s # <<>>, s[Len(s)].k = "block",
         NEW p \in Spots(t), NEW X
  PROVE  Good(t, s, p, X)
           <=> \/ Kind(t, p) = Close /\ Good(t, SubSeq(s, 1, Len(s) - 1), p + 1, X)
               \/ \E x \in StmtEnds(t, p) : Good(t, s, x, X)
<1> DEFINE b == SubSeq(s, 1, Len(s) - 1)
<1>1. PICK S : s \in Seq(S)
  BY DEF Stacked
<1>2. ASSUME NEW q \in Spots(t) PROVE Good(t, s, q, X) <=> \E y \in BlockRest(t, q) : Good(t, b, y, X)
  <2>1. Rests(t, s[Len(s)].k, q) = BlockRest(t, q)
    BY Zenon DEF Rests
  <2>2. Good(t, s, q, X) <=> \E y \in Rests(t, s[Len(s)].k, q) : Good(t, b, y, X)
    BY <1>1, GoodTop
  <2> QED BY <2>1, <2>2
<1> HIDE DEF b
<1>3. \A y : y \in BlockRest(t, p)
        <=> (Kind(t, p) = Close /\ y = p + 1) \/ \E x \in StmtEnds(t, p) : y \in BlockRest(t, x)
  BY BlockStep
<1>4. \A x \in StmtEnds(t, p) : Good(t, s, x, X) <=> \E y \in BlockRest(t, x) : Good(t, b, y, X)
  BY <1>2, StmtInside
<1>5. Good(t, s, p, X) <=> \E y \in BlockRest(t, p) : Good(t, b, y, X)
  BY <1>2
<1>6. Good(t, s, p, X)
        <=> \/ Kind(t, p) = Close /\ Good(t, b, p + 1, X)
            \/ \E x \in StmtEnds(t, p) : Good(t, s, x, X)
  BY <1>3, <1>4, <1>5
<1> QED BY <1>6 DEF b

(* A frame put on a stack, with a block on top of it. *)
LEMMA GoodGrown ==
  ASSUME NEW t \in Sources, NEW s, Stacked(s), NEW f, NEW p \in Spots(t), NEW X
  PROVE  /\ s \o <<f, Block>> = Append(Append(s, f), Block)
         /\ Good(t, s \o <<f, Block>>, p, X)
              <=> \E y \in BlockRest(t, p) : \E x \in Rests(t, f.k, y) : Good(t, s, x, X)
<1>1. PICK S : s \in Seq(S)
  BY DEF Stacked
<1> DEFINE a == Append(s, f)
           g == Block
<1>2. s \o <<f, g>> = Append(a, g)
  <2> DEFINE T == S \cup {f, g}
  <2>1. s \in Seq(T) /\ f \in T /\ g \in T
    BY <1>1
  <2> HIDE DEF T, g
  <2> QED BY <2>1
<1>3. a \in Seq(S \cup {f})
  BY <1>1
<1>4. Rests(t, g.k, p) = BlockRest(t, p)
  <2>1. g.k = "block"
    BY DEF Block
  <2> HIDE DEF g
  <2> QED BY <2>1, Zenon DEF Rests
<1> HIDE DEF a, g
<1>5. Good(t, Append(a, g), p, X) <=> \E y \in BlockRest(t, p) : Good(t, a, y, X)
  BY <1>3, <1>4, GoodPush
<1>6. \A y \in BlockRest(t, p) : Good(t, a, y, X) <=> \E x \in Rests(t, f.k, y) : Good(t, s, x, X)
  BY <1>1, BlockRestIn, GoodPush DEF a
<1> QED BY <1>2, <1>5, <1>6 DEF a, g

-----------------------------------------------------------------------------
(* A main function is in the tree, or is being parsed. *)
MainYet ==
  \/ HasMain
  \/ IF stack = <<>> THEN ret.is = "value" /\ ret.v[1].identifier = "main" ELSE stack[1].identifier = "main"

(* What is left of the source may still make it a program. *)
Hopeful == Good(tokens, stack, pos, Starts(tokens, MainYet))

Formed ==
  /\ Shape(stack)
  /\ \E S : functions \in Seq(S)
  /\ stack = <<>> /\ ret.is = "value" => \E g : ret.v = <<g>>

(* The inductive invariant: until an error is reported, the source is a     *)
(* program exactly if what is left of it may make it one.                   *)
Judged ==
  /\ reported => ~IsProgram(tokens)
  /\ mode # "parse" => reported
  /\ ~reported /\ result = "none" => (IsProgram(tokens) <=> Hopeful)
  /\ result # "none" => (result = "ok" <=> IsProgram(tokens))

(* A step that leaves open what was open, or finds the source to be none. *)
Turn ==
  \/ UNCHANGED reported /\ (Hopeful' <=> Hopeful)
  \/ reported' = TRUE /\ ~Hopeful

(* One step back on the stack, or one forth: the function stays the same. *)
SameFunction(s) ==
  /\ Shape(s) /\ s # <<>>
  /\ s[1].identifier = stack[1].identifier /\ s[1].loc = stack[1].loc

(* Nothing is wrong so far. *)
Fine == UNCHANGED reported /\ ret'.is # "null"

(* A step inside a function, seen from the places X: what was open stays    *)
(* open, or an error is reported where nothing was.                         *)
Inner(X) ==
  /\ stack # <<>> /\ UNCHANGED <<tokens, functions>>
  /\ \/ Fine /\ SameFunction(stack') /\ (Good(tokens, stack', pos', X) <=> Good(tokens, stack, pos, X))
     \/ /\ reported' = TRUE /\ ret' = nullptr /\ (stack' = <<>> \/ SameFunction(stack'))
        /\ ~Good(tokens, stack, pos, X)

LEMMA MainKept ==
  ASSUME UNCHANGED functions, stack # <<>>, SameFunction(stack')
  PROVE  MainYet' <=> MainYet
  BY DEF SameFunction, MainYet, HasMain

LEMMA InnerTurns ==
  ASSUME Formed, \A X : Inner(X)
  PROVE  Turn /\ Formed'
<1> DEFINE X == Starts(tokens, MainYet)
<1>1. Inner(X)
  OBVIOUS
<1>2. Hopeful <=> Good(tokens, stack, pos, X)
  BY DEF Hopeful
<1>3. Hopeful' <=> Good(tokens, stack', pos', Starts(tokens, MainYet'))
  BY <1>1 DEF Hopeful, Inner
<1>4. CASE Fine /\ SameFunction(stack') /\ (Good(tokens, stack', pos', X) <=> Good(tokens, stack, pos, X))
  <2>1. MainYet' <=> MainYet
    BY <1>1, <1>4, MainKept DEF Inner
  <2>2. Good(tokens, stack', pos', Starts(tokens, MainYet')) <=> Good(tokens, stack', pos', X)
    BY <2>1, GoodIff
  <2>3. Formed'
    BY <1>1, <1>4 DEF Formed, Inner, SameFunction
  <2> QED BY <1>2, <1>3, <1>4, <2>2, <2>3 DEF Turn, Fine
<1>5. CASE /\ reported' = TRUE /\ ret' = nullptr /\ (stack' = <<>> \/ SameFunction(stack'))
           /\ ~Good(tokens, stack, pos, X)
  <2>1. Formed'
    <3>1. Shape(stack')
      BY <1>5 DEF SameFunction, Shape
    <3>2. ret'.is # "value"
      BY <1>5 DEF nullptr
    <3> QED BY <1>1, <3>1, <3>2 DEF Formed, Inner
  <2> QED BY <1>2, <1>5, <2>1 DEF Turn
<1> HIDE DEF X
<1> QED BY <1>1, <1>4, <1>5 DEF Inner

(* The stack, seen from the top. *)
LEMMA Seen ==
  ASSUME Placed, Formed, stack # <<>>
  PROVE  /\ tokens \in Sources /\ pos \in Spots(tokens)
         /\ FrameOK(Top) /\ Stacked(stack) /\ Stacked(Below) /\ Shape(Below)
         /\ \A X : Good(tokens, stack, pos, X) <=> \E y \in Rests(tokens, Top.k, pos) : Good(tokens, Below, y, X)
         /\ Top.k \in {"fn", "body"} => Below = <<>> /\ stack[1] = Top
         /\ Top.k \notin {"fn", "body"} => SameFunction(Below) /\ Fits(Below[Len(Below)], Top)
<1>1. tokens \in Sources /\ pos \in Spots(tokens) /\ Stacked(stack) /\ Shape(stack)
  BY DEF Placed, Formed, Places, Spots
<1>2. FrameOK(Top) /\ Stacked(Below)
  BY TopOfStack
<1>3. PICK S : stack \in Seq(S)
  BY <1>1 DEF Stacked
<1>4. \A X : Good(tokens, stack, pos, X) <=> \E y \in Rests(tokens, Top.k, pos) : Good(tokens, Below, y, X)
  BY <1>1, <1>3, GoodTop DEF Top, Below
<1>5. /\ Top.k \in {"fn", "body"} => Len(stack) = 1 /\ Below = <<>>
      /\ Top.k \notin {"fn", "body"} => Len(stack) >= 2
      /\ Shape(Below)
  BY <1>1, ShapeTop DEF Top, Below
<1>6. ASSUME Len(stack) >= 2 PROVE SameFunction(Below) /\ Fits(Below[Len(Below)], Top)
  <2> DEFINE n == Len(stack)
  <2>1. n \in Nat /\ n >= 2
    BY <1>3, <1>6
  <2>2. Len(Below) = n - 1 /\ \A i \in 1 .. n - 1 : Below[i] = stack[i]
    BY <1>3, Shorter DEF Below
  <2>3. n \in 2 .. Len(stack)
    BY <2>1
  <2>4. Fits(stack[n - 1], stack[n])
    BY <1>1, <2>3, Zenon DEF Shape
  <2> HIDE DEF n
  <2>5. 1 \in 1 .. n - 1 /\ n - 1 \in 1 .. n - 1 /\ n - 1 # 0
    BY <2>1
  <2>6. Below # <<>>
    BY <2>2, <2>5
  <2>7. Below[Len(Below)] = stack[n - 1] /\ Below[1] = stack[1]
    BY <2>2, <2>5
  <2> QED BY <1>5, <2>4, <2>6, <2>7 DEF SameFunction, Top, n
<1> QED BY <1>1, <1>2, <1>4, <1>5, <1>6 DEF Top

LEMMA Topped ==
  ASSUME NEW s, Stacked(s), SameFunction(s), NEW f, FrameOK(f), Fits(s[Len(s)], f)
  PROVE  /\ SameFunction(Append(s, f)) /\ Stacked(Append(s, f))
         /\ Append(s, f)[Len(Append(s, f))] = f
         /\ SameFunction(s \o <<f, Block>>)
<1> DEFINE a == Append(s, f)
           g == Block
<1>1. Shape(s) /\ s # <<>> /\ s[1].identifier = stack[1].identifier /\ s[1].loc = stack[1].loc
  BY DEF SameFunction
<1>2. Shape(a) /\ a[1] = s[1] /\ a # <<>> /\ a[Len(a)] = f
  BY <1>1, ShapePush
<1>3. Stacked(a)
  BY Pushed
<1>4. Fits(f, g)
  BY DEF Fits, Block
<1>5. s \o <<f, g>> = Append(a, g)
  <2>1. PICK S : s \in Seq(S)
    BY DEF Stacked
  <2> DEFINE T == S \cup {f, g}
  <2>2. s \in Seq(T) /\ f \in T /\ g \in T
    BY <2>1
  <2> HIDE DEF T, g
  <2> QED BY <2>2
<1> HIDE DEF a, g
<1>6. Shape(Append(a, g)) /\ Append(a, g)[1] = a[1] /\ Append(a, g) # <<>>
  BY <1>2, <1>3, <1>4, ShapePush
<1>7. SameFunction(a) /\ SameFunction(Append(a, g))
  BY <1>1, <1>2, <1>6 DEF SameFunction
<1> QED BY <1>2, <1>3, <1>5, <1>7 DEF a, g

-----------------------------------------------------------------------------
(* The steps inside a function. *)
LEMMA FineSteps ==
  ASSUME NEW p, NEW s, NEW v
  PROVE  (Go(p, s) => Fine) /\ (Return(p, s, v) => Fine)
  BY DEF Go, Return, Fine, None, Value

LEMMA Going ==
  ASSUME UNCHANGED <<tokens, functions>>, Fine, stack # <<>>, SameFunction(stack'), NEW X,
         Good(tokens, stack', pos', X) <=> Good(tokens, stack, pos, X)
  PROVE  Inner(X)
  BY DEF Inner

LEMMA Failing ==
  ASSUME UNCHANGED <<tokens, functions>>, stack # <<>>, NEW p, NEW s, Fail(p, s), s = <<>> \/ SameFunction(s),
         NEW X, ~Good(tokens, stack, pos, X)
  PROVE  Inner(X)
  BY DEF Inner, Fail

LEMMA EndBlockTurns ==
  ASSUME Placed, Formed, EndBlock \/ UnclosedBlock, NEW X
  PROVE  Inner(X)
<1>1. stack # <<>> /\ Top.k = "block" /\ UNCHANGED <<tokens, functions>>
  BY DEF EndBlock, UnclosedBlock, Running, quiet
<1>2. /\ tokens \in Sources /\ pos \in Spots(tokens) /\ Stacked(stack) /\ Shape(Below)
      /\ SameFunction(Below)
  BY <1>1, Seen
<1>3. Good(tokens, stack, pos, X)
               <=> \/ Kind(tokens, pos) = Close /\ Good(tokens, Below, pos + 1, X)
                   \/ \E x \in StmtEnds(tokens, pos) : Good(tokens, stack, x, X)
  BY <1>1, <1>2, GoodBlock DEF Top, Below
<1>4. CASE EndBlock
  <2>1. kind = Close /\ Return(pos + 1, Below, Top.stmts)
    BY <1>4, Zenon DEF EndBlock, Close
  <2>2. StmtEnds(tokens, pos) = {}
    <3>1. Close \notin StmtFirst
      BY Zenon DEF Close, StmtFirst, First
    <3> QED BY <1>2, <2>1, <3>1, NoStmt DEF kind
  <2>3. Good(tokens, Below, pos + 1, X) <=> Good(tokens, stack, pos, X)
    BY <1>3, <2>1, <2>2 DEF kind
  <2>4. stack' = Below /\ pos' = pos + 1 /\ Fine
    BY <2>1 DEF Return, Fine, Value
  <2> HIDE DEF Below
  <2> QED BY <1>1, <1>2, <2>3, <2>4, Going
<1>5. CASE UnclosedBlock
  <2>1. kind \in {"Eof", "fn"} /\ Fail(pos, Below)
    BY <1>5, Zenon DEF UnclosedBlock
  <2>2. StmtEnds(tokens, pos) = {}
    <3>1. kind \notin StmtFirst
      BY <2>1 DEF StmtFirst, First
    <3> QED BY <1>2, <3>1, NoStmt DEF kind
  <2>3. kind # Close
    BY <2>1, Signs
  <2>4. ~Good(tokens, stack, pos, X)
    BY <1>3, <2>2, <2>3 DEF kind
  <2> QED BY <1>1, <1>2, <2>1, <2>4, Failing
<1> QED BY <1>4, <1>5

LEMMA StatementParsedTurns ==
  ASSUME Placed, Formed, StatementParsed, NEW X
  PROVE  Inner(X)
<1> DEFINE f == [Top EXCEPT !.stmts = @ \o ret.v]
<1>1. /\ stack # <<>> /\ Top.k = "block" /\ UNCHANGED <<tokens, functions>> /\ Fine
      /\ pos' = pos /\ stack' = Append(Below, f)
  BY DEF StatementParsed, Returned, Go, quiet, Fine, None
<1>2. /\ tokens \in Sources /\ pos \in Spots(tokens) /\ FrameOK(Top) /\ Stacked(Below)
      /\ SameFunction(Below) /\ Fits(Below[Len(Below)], Top)
      /\ Good(tokens, stack, pos, X) <=> \E y \in Rests(tokens, Top.k, pos) : Good(tokens, Below, y, X)
  BY <1>1, Seen
<1>3. f.k = "block"
  <2>1. Top = [k |-> "block", stmts |-> Top.stmts]
    BY <1>1, <1>2 DEF FrameOK
  <2> DEFINE all == Top.stmts \o ret.v
  <2>2. f = [Top EXCEPT !.stmts = all]
    OBVIOUS
  <2> HIDE DEF all, f
  <2> QED BY <2>1, <2>2
<1> HIDE DEF f
<1>4. FrameOK(f)
  <2>1. f = [k |-> "block", stmts |-> f.stmts]
    <3>1. Top = [k |-> "block", stmts |-> Top.stmts]
      BY <1>1, <1>2 DEF FrameOK
    <3> DEFINE all == Top.stmts \o ret.v
    <3>2. f = [Top EXCEPT !.stmts = all]
      BY DEF f
    <3> HIDE DEF all
    <3> QED BY <3>1, <3>2
  <2> QED BY <1>3, <2>1 DEF FrameOK, Frames
<1>5. Fits(Below[Len(Below)], f)
  BY <1>1, <1>2, <1>3 DEF Fits
<1>6. SameFunction(stack')
  BY <1>1, <1>2, <1>4, <1>5, Topped
<1>7. PICK S : Below \in Seq(S)
  BY <1>2 DEF Stacked
<1>8. Good(tokens, stack', pos', X) <=> Good(tokens, stack, pos, X)
  <2>1. Good(tokens, Append(Below, f), pos, X)
          <=> \E y \in Rests(tokens, f.k, pos) : Good(tokens, Below, y, X)
    BY <1>2, <1>7, GoodPush
  <2> QED BY <1>1, <1>2, <1>3, <2>1
<1> QED BY <1>1, <1>6, <1>8, Going

(* A statement read in one go. *)
LEMMA AnswerTurns ==
  ASSUME Placed, Formed, ParseReturn \/ ParseDecl \/ ParseAssignmentOrExpr, NEW X
  PROVE  Inner(X)
<1> DEFINE r == SimpleRead(pos)
<1>1. /\ stack # <<>> /\ Top.k = "block" /\ UNCHANGED <<tokens, functions>>
      /\ kind \notin {Close, "if", "while"}
  <2>1. CASE ParseReturn
    BY <2>1, Zenon DEF ParseReturn, Running, quiet, Close
  <2>2. CASE ParseDecl
    BY <2>2, Zenon DEF ParseDecl, Running, quiet, Close
  <2>3. CASE ParseAssignmentOrExpr
    BY <2>3, Zenon DEF ParseAssignmentOrExpr, Running, quiet, Close
  <2> QED BY <2>1, <2>2, <2>3
<1>2. /\ tokens \in Sources /\ pos \in Spots(tokens) /\ Stacked(stack) /\ Shape(stack)
  BY <1>1, Seen DEF Formed
<1>3. Answer(r)
  <2>1. CASE ParseReturn
    <3>1. kind = "return" /\ Answer(parse_return_stmt(pos))
      BY <2>1, Zenon DEF ParseReturn
    <3> QED BY <3>1, Zenon DEF SimpleRead, kind
  <2>2. CASE ParseDecl
    <3>1. kind \in {"let", "var"} /\ Answer(parse_decl_stmt(pos))
      BY <2>2, Zenon DEF ParseDecl
    <3>2. r = parse_decl_stmt(pos)
      BY <3>1, Zenon DEF SimpleRead, kind
    <3> QED BY <3>1, <3>2, Zenon
  <2>3. CASE ParseAssignmentOrExpr
    <3>1. kind \notin {"return", "let", "var"} /\ Answer(parse_assignment_or_expr(pos))
      BY <2>3, Zenon DEF ParseAssignmentOrExpr
    <3>2. r = parse_assignment_or_expr(pos)
      BY <3>1, Zenon DEF SimpleRead, kind
    <3> QED BY <3>1, <3>2, Zenon
  <2> QED BY <2>1, <2>2, <2>3
<1>4. \A x : x \in StmtEnds(tokens, pos) <=> Hits(r, x)
  BY <1>1, <1>2, SimpleReads DEF kind
<1>5. Good(tokens, stack, pos, X) <=> \E x \in StmtEnds(tokens, pos) : Good(tokens, stack, x, X)
  <2>1. Good(tokens, stack, pos, X)
          <=> \/ Kind(tokens, pos) = Close /\ Good(tokens, Below, pos + 1, X)
              \/ \E x \in StmtEnds(tokens, pos) : Good(tokens, stack, x, X)
    BY <1>1, <1>2, GoodBlock DEF Top, Below
  <2> QED BY <1>1, <2>1 DEF kind
<1> HIDE DEF r
<1>6. CASE r.tree = <<>>
  <2>1. Fail(r.pos, stack)
    BY <1>3, <1>6 DEF Answer
  <2>2. ~Good(tokens, stack, pos, X)
    BY <1>4, <1>5, <1>6 DEF Hits
  <2> QED BY <1>1, <1>2, <2>1, <2>2, Failing DEF SameFunction
<1>7. CASE r.tree # <<>>
  <2>1. pos' = r.pos /\ stack' = stack /\ Fine
    BY <1>3, <1>7 DEF Answer, Return, Fine, Value
  <2>2. Good(tokens, stack, r.pos, X) <=> Good(tokens, stack, pos, X)
    BY <1>4, <1>5, <1>7 DEF Hits
  <2>3. SameFunction(stack')
    BY <1>1, <1>2, <2>1 DEF SameFunction
  <2> QED BY <1>1, <2>1, <2>2, <2>3, Going
<1> QED BY <1>6, <1>7

(* A condition and the '{' behind it, or not. *)
LEMMA Begins ==
  ASSUME NEW p, NEW stk
  PROVE  /\ BeginBlock(p, stk, IfFrame) => \E f :
              /\ f.k = "if" /\ FrameOK(f)
              /\ IF Expr(tokens, p).tree # <<>> /\ Kind(tokens, Expr(tokens, p).pos) = Open
                   THEN Go(Expr(tokens, p).pos + 1, stk \o <<f, Block>>)
                   ELSE Fail(Expr(tokens, p).pos, stk)
         /\ BeginBlock(p, stk, WhileFrame) => \E f :
              /\ f.k = "while" /\ FrameOK(f)
              /\ IF Expr(tokens, p).tree # <<>> /\ Kind(tokens, Expr(tokens, p).pos) = Open
                   THEN Go(Expr(tokens, p).pos + 1, stk \o <<f, Block>>)
                   ELSE Fail(Expr(tokens, p).pos, stk)
<1> DEFINE c == Expr(tokens, p)
           f == IfFrame(c.tree[1])
           w == WhileFrame(c.tree[1])
           ok == c.tree # <<>> /\ Kind(tokens, c.pos) = Open
<1>1. f.k = "if" /\ FrameOK(f) /\ w.k = "while" /\ FrameOK(w)
  BY DEF FrameOK, Frames, IfFrame, WhileFrame
<1>2. CASE ~ok
  <2>1. c.tree = <<>> \/ Kind(tokens, c.pos) # "{"
    BY <1>2, Zenon DEF Open
  <2>2. BeginBlock(p, stk, IfFrame) \/ BeginBlock(p, stk, WhileFrame) => Fail(c.pos, stk)
    BY <2>1, Zenon DEF BeginBlock
  <2> HIDE DEF f, w
  <2> QED BY <1>1, <1>2, <2>2
<1>3. CASE ok
  <2>1. ~(c.tree = <<>> \/ Kind(tokens, c.pos) # "{")
    BY <1>3, Zenon DEF Open
  <2>2. /\ BeginBlock(p, stk, IfFrame) => Go(c.pos + 1, stk \o <<f, Block>>)
        /\ BeginBlock(p, stk, WhileFrame) => Go(c.pos + 1, stk \o <<w, Block>>)
    BY <2>1, Zenon DEF BeginBlock
  <2> HIDE DEF f, w
  <2> QED BY <1>1, <1>3, <2>2
<1> QED BY <1>2, <1>3

LEMMA BeginWhileTurns ==
  ASSUME Placed, Formed, BeginWhile, NEW X
  PROVE  Inner(X)
<1> DEFINE c == Expr(tokens, pos + 1)
           ok == c.tree # <<>> /\ Kind(tokens, c.pos) = Open
<1>1. /\ stack # <<>> /\ Top.k = "block" /\ UNCHANGED <<tokens, functions>>
      /\ kind = "while" /\ BeginBlock(pos + 1, stack, WhileFrame)
  BY Zenon DEF BeginWhile, Running, quiet
<1>2. /\ tokens \in Sources /\ pos \in Spots(tokens) /\ Stacked(stack) /\ Shape(stack)
  BY <1>1, Seen DEF Formed
<1>3. pos + 1 \in Spots(tokens) /\ kind # Close
  BY <1>1, <1>2, NextSpot, Signs DEF kind
<1>4. PICK f : /\ f.k = "while" /\ FrameOK(f)
               /\ IF ok THEN Go(c.pos + 1, stack \o <<f, Block>>) ELSE Fail(c.pos, stack)
  BY <1>1, Begins
<1>5. Good(tokens, stack, pos, X) <=> \E x \in WhileEnds(tokens, pos) : Good(tokens, stack, x, X)
  <2>1. StmtEnds(tokens, pos) = WhileEnds(tokens, pos)
    BY <1>1, <1>2, StmtRules DEF kind
  <2>2. Good(tokens, stack, pos, X)
          <=> \/ Kind(tokens, pos) = Close /\ Good(tokens, Below, pos + 1, X)
              \/ \E x \in StmtEnds(tokens, pos) : Good(tokens, stack, x, X)
    BY <1>1, <1>2, GoodBlock DEF Top, Below
  <2> QED BY <1>3, <2>1, <2>2 DEF kind
<1>6. \A x : x \in WhileEnds(tokens, pos) <=> ok /\ x \in BlockRest(tokens, c.pos + 1)
  <2>1. WhileEnds(tokens, pos) = BlockEnds(tokens, Ends("expr", tokens, pos + 1))
    BY <1>1, <1>2, WhileRule DEF kind
  <2> QED BY <1>2, <1>3, <2>1, CondBlock
<1>7. c.pos \in Spots(tokens)
  BY <1>2, <1>3, Inside
<1> HIDE DEF c
<1>8. CASE ~ok
  <2>1. Fail(c.pos, stack)
    BY <1>4, <1>8
  <2>2. ~Good(tokens, stack, pos, X)
    BY <1>5, <1>6, <1>8
  <2> QED BY <1>1, <1>2, <2>1, <2>2, Failing DEF SameFunction
<1>9. CASE ok
  <2>1. pos' = c.pos + 1 /\ stack' = stack \o <<f, Block>> /\ Fine
    BY <1>4, <1>9 DEF Go, Fine, None
  <2>2. c.pos + 1 \in Spots(tokens)
    <3>1. Open # "Eof"
      BY Signs
    <3> QED BY <1>2, <1>7, <1>9, <3>1, NextSpot
  <2>3. Good(tokens, stack \o <<f, Block>>, c.pos + 1, X)
          <=> \E y \in BlockRest(tokens, c.pos + 1) : \E x \in Rests(tokens, f.k, y) : Good(tokens, stack, x, X)
    BY <1>2, <2>2, GoodGrown
  <2>4. \A y : Rests(tokens, f.k, y) = {y}
    BY <1>4, Zenon DEF Rests
  <2>5. SameFunction(stack')
    <3>1. SameFunction(stack) /\ Fits(stack[Len(stack)], f)
      BY <1>1, <1>2, <1>4 DEF SameFunction, Fits, Top
    <3> QED BY <1>2, <1>4, <2>1, <3>1, Topped
  <2>6. Good(tokens, stack', pos', X) <=> Good(tokens, stack, pos, X)
    BY <1>5, <1>6, <1>9, <2>1, <2>3, <2>4
  <2> QED BY <1>1, <2>1, <2>5, <2>6, Going
<1> QED BY <1>8, <1>9

LEMMA RestsIfIn ==
  ASSUME NEW t \in Sources, NEW b \in Spots(t)
  PROVE  Rests(t, "if", b) \subseteq Spots(t)
<1>1. CASE Kind(t, b) # "else"
  <2>1. Rests(t, "if", b) = {b}
    BY <1>1, Zenon DEF Rests
  <2> QED BY <2>1
<1>2. CASE Kind(t, b) = "else"
  <2>1. Rests(t, "if", b) = BlockEnds(t, {b + 1}) \cup Ends("if", t, b + 1)
    BY <1>2, Zenon DEF Rests
  <2>2. b + 1 \in Spots(t)
    BY <1>2, NextSpot
  <2>3. Ends("if", t, b + 1) \subseteq Spots(t)
    BY <2>2, EndsInside
  <2>4. BlockEnds(t, {b + 1}) \subseteq Spots(t)
    <3>1. CASE Kind(t, b + 1) = Open
      <4>1. Open # "Eof"
        BY Signs
      <4>2. (b + 1) + 1 \in Spots(t)
        BY <2>2, <3>1, <4>1, NextSpot
      <4> QED BY <3>1, <4>2, OneBlock, BlockRestIn
    <3>2. CASE Kind(t, b + 1) # Open
      BY <3>2, OneBlock
    <3> QED BY <3>1, <3>2
  <2> QED BY <2>1, <2>3, <2>4
<1> QED BY <1>1, <1>2

(* An if, where an else behind it makes no program. *)
LEMMA GoodIf ==
  ASSUME NEW t \in Sources, NEW p \in Spots(t), Kind(t, p) = "if", NEW s, NEW X,
         \A b \in Spots(t) : Kind(t, b) = "else" => ~Good(t, s, b, X)
  PROVE  (\E x \in Ends("if", t, p) : Good(t, s, x, X))
           <=> /\ Expr(t, p + 1).tree # <<>> /\ Kind(t, Expr(t, p + 1).pos) = Open
               /\ \E b \in BlockRest(t, Expr(t, p + 1).pos + 1) : \E x \in Rests(t, "if", b) : Good(t, s, x, X)
<1> DEFINE c == Expr(t, p + 1)
           ok == c.tree # <<>> /\ Kind(t, c.pos) = Open
           B == BlockEnds(t, Ends("expr", t, p + 1))
           more(b, x) == x \in BlockEnds(t, {b + 1}) \/ x \in Ends("if", t, b + 1)
<1>1. p + 1 \in Spots(t)
  BY NextSpot
<1>2. \A b : b \in B <=> ok /\ b \in BlockRest(t, c.pos + 1)
  BY <1>1, CondBlock
<1>3. \A x : x \in Ends("if", t, p) <=> \E b \in B : x = b \/ (Kind(t, b) = "else" /\ more(b, x))
  BY IfRule
<1>4. \A b : Kind(t, b) = "else" => \A x : x \in Rests(t, "if", b) <=> more(b, x)
  <2> SUFFICES ASSUME NEW b, Kind(t, b) = "else", NEW x PROVE x \in Rests(t, "if", b) <=> more(b, x)
    OBVIOUS
  <2>1. Rests(t, "if", b) = BlockEnds(t, {b + 1}) \cup Ends("if", t, b + 1)
    BY Zenon DEF Rests
  <2> QED BY <2>1
<1>5. \A b : Kind(t, b) # "else" => Rests(t, "if", b) = {b}
  BY Zenon DEF Rests
<1>6. ok => \A b \in BlockRest(t, c.pos + 1) : Kind(t, b) = "else" => ~Good(t, s, b, X)
  <2> SUFFICES ASSUME ok PROVE \A b \in BlockRest(t, c.pos + 1) : Kind(t, b) = "else" => ~Good(t, s, b, X)
    OBVIOUS
  <2>1. c.pos \in Spots(t) /\ Open # "Eof"
    BY <1>1, Inside, Signs
  <2>2. c.pos + 1 \in Spots(t)
    BY <2>1, NextSpot
  <2> QED BY <2>2, BlockRestIn
<1> HIDE DEF c, B, more
<1>7. (\E x \in Ends("if", t, p) : Good(t, s, x, X))
        <=> \E b \in B : Good(t, s, b, X) \/ (Kind(t, b) = "else" /\ \E x : more(b, x) /\ Good(t, s, x, X))
  BY <1>3
<1>8. \A b \in B : (Good(t, s, b, X) \/ (Kind(t, b) = "else" /\ \E x : more(b, x) /\ Good(t, s, x, X)))
                     <=> \E x \in Rests(t, "if", b) : Good(t, s, x, X)
  BY <1>2, <1>4, <1>5, <1>6
<1> QED BY <1>2, <1>7, <1>8 DEF c

LEMMA BeginIfTurns ==
  ASSUME Placed, Formed, BeginIf, NEW X
  PROVE  Inner(X)
<1> DEFINE c == Expr(tokens, pos + 1)
           ok == c.tree # <<>> /\ Kind(tokens, c.pos) = Open
<1>1. /\ stack # <<>> /\ Top.k = "block" /\ UNCHANGED <<tokens, functions>>
      /\ kind = "if" /\ BeginBlock(pos + 1, stack, IfFrame)
  BY Zenon DEF BeginIf, Running, quiet
<1>2. /\ tokens \in Sources /\ pos \in Spots(tokens) /\ Stacked(stack) /\ Shape(stack)
  BY <1>1, Seen DEF Formed
<1>3. pos + 1 \in Spots(tokens) /\ kind # Close
  BY <1>1, <1>2, NextSpot, Signs DEF kind
<1>4. PICK f : /\ f.k = "if" /\ FrameOK(f)
               /\ IF ok THEN Go(c.pos + 1, stack \o <<f, Block>>) ELSE Fail(c.pos, stack)
  BY <1>1, Begins
<1>5. Good(tokens, stack, pos, X) <=> \E x \in Ends("if", tokens, pos) : Good(tokens, stack, x, X)
  <2>1. StmtEnds(tokens, pos) = Ends("if", tokens, pos)
    BY <1>1, <1>2, StmtRules DEF kind
  <2>2. Good(tokens, stack, pos, X)
          <=> \/ Kind(tokens, pos) = Close /\ Good(tokens, Below, pos + 1, X)
              \/ \E x \in StmtEnds(tokens, pos) : Good(tokens, stack, x, X)
    BY <1>1, <1>2, GoodBlock DEF Top, Below
  <2> QED BY <1>3, <2>1, <2>2 DEF kind
<1>6. (\E x \in Ends("if", tokens, pos) : Good(tokens, stack, x, X))
        <=> ok /\ \E b \in BlockRest(tokens, c.pos + 1) : \E x \in Rests(tokens, "if", b) : Good(tokens, stack, x, X)
  <2>1. \A b \in Spots(tokens) : Kind(tokens, b) = "else" => ~Good(tokens, stack, b, X)
    BY <1>1, <1>2, DeadElse DEF Top
  <2> QED BY <1>1, <1>2, <2>1, GoodIf DEF kind
<1>7. c.pos \in Spots(tokens)
  BY <1>2, <1>3, Inside
<1> HIDE DEF c
<1>8. CASE ~ok
  <2>1. Fail(c.pos, stack)
    BY <1>4, <1>8
  <2>2. ~Good(tokens, stack, pos, X)
    BY <1>5, <1>6, <1>8
  <2> QED BY <1>1, <1>2, <2>1, <2>2, Failing DEF SameFunction
<1>9. CASE ok
  <2>1. pos' = c.pos + 1 /\ stack' = stack \o <<f, Block>> /\ Fine
    BY <1>4, <1>9 DEF Go, Fine, None
  <2>2. c.pos + 1 \in Spots(tokens)
    <3>1. Open # "Eof"
      BY Signs
    <3> QED BY <1>2, <1>7, <1>9, <3>1, NextSpot
  <2>3. Good(tokens, stack \o <<f, Block>>, c.pos + 1, X)
          <=> \E y \in BlockRest(tokens, c.pos + 1) : \E x \in Rests(tokens, f.k, y) : Good(tokens, stack, x, X)
    BY <1>2, <2>2, GoodGrown
  <2>4. SameFunction(stack')
    <3>1. SameFunction(stack) /\ Fits(stack[Len(stack)], f)
      BY <1>1, <1>2, <1>4 DEF SameFunction, Fits, Top
    <3> QED BY <1>2, <1>4, <2>1, <3>1, Topped
  <2>5. Good(tokens, stack', pos', X) <=> Good(tokens, stack, pos, X)
    BY <1>4, <1>5, <1>6, <1>9, <2>1, <2>3
  <2> QED BY <1>1, <2>1, <2>4, <2>5, Going
<1> QED BY <1>8, <1>9

(* The frame of an else lets through what makes a program below it. *)
LEMMA GoodElse ==
  ASSUME NEW t \in Sources, NEW s, Stacked(s), s # <<>>, s[Len(s)].k \in {"block", "else"},
         NEW x \in Spots(t), NEW X
  PROVE  (\E y \in Rests(t, "else", x) : Good(t, s, y, X)) <=> Good(t, s, x, X)
<1>1. CASE Kind(t, x) = "else"
  <2>1. Rests(t, "else", x) = {}
    BY <1>1, Zenon DEF Rests
  <2>2. ~Good(t, s, x, X)
    BY <1>1, DeadElse
  <2> QED BY <2>1, <2>2
<1>2. CASE Kind(t, x) # "else"
  <2>1. Rests(t, "else", x) = {x}
    BY <1>2, Zenon DEF Rests
  <2> QED BY <2>1
<1> QED BY <1>1, <1>2

LEMMA BeginElseIfTurns ==
  ASSUME Placed, Formed, BeginElseIf, NEW X
  PROVE  Inner(X)
<1> DEFINE p == pos + 1
           c == Expr(tokens, p + 1)
           ok == c.tree # <<>> /\ Kind(tokens, c.pos) = Open
           a == Append(Below, ElseFrame)
<1>1. /\ stack # <<>> /\ Top.k = "if" /\ UNCHANGED <<tokens, functions>>
      /\ kind = "else" /\ Kind(tokens, p) = "if" /\ BeginBlock(pos + 2, a, IfFrame)
  BY Zenon DEF BeginElseIf, Returned, quiet
<1>2. /\ tokens \in Sources /\ pos \in Spots(tokens) /\ Stacked(Below) /\ SameFunction(Below)
      /\ Fits(Below[Len(Below)], Top)
      /\ Good(tokens, stack, pos, X) <=> \E y \in Rests(tokens, Top.k, pos) : Good(tokens, Below, y, X)
  BY <1>1, Seen
<1>3. p \in Spots(tokens) /\ p + 1 = pos + 2 /\ p + 1 \in Spots(tokens)
  <2>1. pos + 1 \in Spots(tokens) /\ (pos + 1) + 1 = pos + 2
    BY <1>1, <1>2, NextSpot DEF kind, Spots
  <2>2. (pos + 1) + 1 \in Spots(tokens)
    BY <1>1, <1>2, <2>1, NextSpot
  <2> QED BY <2>1, <2>2
<1>4. PICK f : /\ f.k = "if" /\ FrameOK(f)
               /\ IF ok THEN Go(c.pos + 1, a \o <<f, Block>>) ELSE Fail(c.pos, a)
  <2>1. BeginBlock(p + 1, a, IfFrame)
    BY <1>1, <1>3, Zenon
  <2> HIDE DEF p, a
  <2> QED BY <2>1, Begins
<1>5. Below # <<>> /\ Below[Len(Below)].k \in {"block", "else"}
  BY <1>1, <1>2 DEF Fits, SameFunction
<1>6. Good(tokens, stack, pos, X) <=> \E x \in Ends("if", tokens, p) : Good(tokens, Below, x, X)
  <2>1. Rests(tokens, Top.k, pos) = BlockEnds(tokens, {p}) \cup Ends("if", tokens, p)
    BY <1>1, Zenon DEF Rests, kind
  <2>2. BlockEnds(tokens, {p}) = {}
    <3>1. "if" # Open
      BY Signs
    <3> QED BY <1>1, <3>1, OneBlock
  <2> QED BY <1>2, <2>1, <2>2
<1> HIDE DEF p
<1>7. (\E x \in Ends("if", tokens, p) : Good(tokens, Below, x, X))
        <=> ok /\ \E b \in BlockRest(tokens, c.pos + 1) : \E x \in Rests(tokens, "if", b) : Good(tokens, Below, x, X)
  <2>1. \A b \in Spots(tokens) : Kind(tokens, b) = "else" => ~Good(tokens, Below, b, X)
    BY <1>2, <1>5, DeadElse
  <2> QED BY <1>1, <1>2, <1>3, <2>1, GoodIf
<1>8. c.pos \in Spots(tokens)
  BY <1>2, <1>3, Inside
<1>9. /\ SameFunction(a) /\ Stacked(a) /\ a[Len(a)] = ElseFrame /\ ElseFrame.k = "else"
  <2>1. FrameOK(ElseFrame) /\ ElseFrame.k = "else"
    BY DEF FrameOK, Frames, ElseFrame
  <2>2. Fits(Below[Len(Below)], ElseFrame)
    BY <1>2, <1>5, <2>1 DEF Fits
  <2> QED BY <1>2, <2>1, <2>2, Topped
<1> HIDE DEF c
<1>10. CASE ~ok
  <2>1. Fail(c.pos, a)
    BY <1>4, <1>10
  <2>2. ~Good(tokens, stack, pos, X)
    BY <1>6, <1>7, <1>10
  <2>3. SameFunction(a)
    BY <1>9
  <2> HIDE DEF a
  <2> QED BY <1>1, <2>1, <2>2, <2>3, Failing
<1>11. CASE ok
  <2>1. pos' = c.pos + 1 /\ stack' = a \o <<f, Block>> /\ Fine
    BY <1>4, <1>11 DEF Go, Fine, None
  <2>2. c.pos + 1 \in Spots(tokens)
    <3>1. Open # "Eof"
      BY Signs
    <3> QED BY <1>2, <1>8, <1>11, <3>1, NextSpot
  <2>3. SameFunction(stack')
    <3>1. Fits(a[Len(a)], f)
      <4> HIDE DEF a
      <4> QED BY <1>4, <1>9 DEF Fits
    <3> HIDE DEF a
    <3> QED BY <1>4, <1>9, <2>1, <3>1, Topped
  <2>4. Good(tokens, a \o <<f, Block>>, c.pos + 1, X)
          <=> \E y \in BlockRest(tokens, c.pos + 1) : \E x \in Rests(tokens, f.k, y) : Good(tokens, a, x, X)
    <3> HIDE DEF a
    <3> QED BY <1>2, <1>9, <2>2, GoodGrown
  <2>5. \A x \in Spots(tokens) : Good(tokens, a, x, X) <=> Good(tokens, Below, x, X)
    <3> SUFFICES ASSUME NEW x \in Spots(tokens) PROVE Good(tokens, a, x, X) <=> Good(tokens, Below, x, X)
      OBVIOUS
    <3>1. PICK S : Below \in Seq(S)
      BY <1>2 DEF Stacked
    <3>2. Good(tokens, a, x, X) <=> \E y \in Rests(tokens, ElseFrame.k, x) : Good(tokens, Below, y, X)
      BY <1>2, <3>1, GoodPush
    <3>3. (\E y \in Rests(tokens, "else", x) : Good(tokens, Below, y, X)) <=> Good(tokens, Below, x, X)
      BY <1>2, <1>5, GoodElse
    <3> QED BY <1>9, <3>2, <3>3
  <2>6. \A y \in BlockRest(tokens, c.pos + 1) : Rests(tokens, "if", y) \subseteq Spots(tokens)
    BY <1>2, <2>2, BlockRestIn, RestsIfIn
  <2> HIDE DEF a
  <2>7. Good(tokens, stack', pos', X) <=> Good(tokens, stack, pos, X)
    BY <1>4, <1>6, <1>7, <1>11, <2>1, <2>4, <2>5, <2>6
  <2> QED BY <1>1, <2>1, <2>3, <2>7, Going
<1> QED BY <1>10, <1>11

LEMMA BeginElseTurns ==
  ASSUME Placed, Formed, BeginElse, NEW X
  PROVE  Inner(X)
<1> DEFINE p == pos + 1
           f == ElseFrame
<1>1. /\ stack # <<>> /\ Top.k = "if" /\ UNCHANGED <<tokens, functions>>
      /\ kind = "else" /\ Kind(tokens, p) # "if"
      /\ IF Kind(tokens, p) = Open THEN Go(pos + 2, Below \o <<f, Block>>) ELSE Fail(p, Below)
  BY Zenon DEF BeginElse, Returned, quiet, Open
<1>2. /\ tokens \in Sources /\ pos \in Spots(tokens) /\ Stacked(Below) /\ SameFunction(Below)
      /\ Fits(Below[Len(Below)], Top)
      /\ Good(tokens, stack, pos, X) <=> \E y \in Rests(tokens, Top.k, pos) : Good(tokens, Below, y, X)
  BY <1>1, Seen
<1>3. p \in Spots(tokens) /\ p + 1 = pos + 2
  BY <1>1, <1>2, NextSpot DEF kind, Spots
<1>4. Below # <<>> /\ Below[Len(Below)].k \in {"block", "else"}
  BY <1>1, <1>2 DEF Fits, SameFunction
<1>5. Good(tokens, stack, pos, X) <=> \E x \in BlockEnds(tokens, {p}) : Good(tokens, Below, x, X)
  <2>1. Rests(tokens, Top.k, pos) = BlockEnds(tokens, {p}) \cup Ends("if", tokens, p)
    BY <1>1, Zenon DEF Rests, kind
  <2>2. Ends("if", tokens, p) = {}
    BY <1>1, <1>2, <1>3, Heads
  <2> QED BY <1>2, <2>1, <2>2
<1>6. f.k = "else" /\ FrameOK(f)
  BY DEF FrameOK, Frames, ElseFrame
<1> HIDE DEF f
<1>7. CASE Kind(tokens, p) # Open
  <2>1. Fail(p, Below)
    BY <1>1, <1>7
  <2>2. BlockEnds(tokens, {p}) = {}
    BY <1>7, OneBlock
  <2>3. ~Good(tokens, stack, pos, X)
    BY <1>5, <2>2
  <2> HIDE DEF p
  <2> QED BY <1>1, <1>2, <2>1, <2>3, Failing
<1>8. CASE Kind(tokens, p) = Open
  <2>1. pos' = pos + 2 /\ stack' = Below \o <<f, Block>> /\ Fine
    BY <1>1, <1>8 DEF Go, Fine, None
  <2>2. pos + 2 \in Spots(tokens)
    <3>1. Open # "Eof"
      BY Signs
    <3>2. p + 1 \in Spots(tokens)
      BY <1>2, <1>3, <1>8, <3>1, NextSpot
    <3> QED BY <1>3, <3>2
  <2>3. BlockEnds(tokens, {p}) = BlockRest(tokens, pos + 2)
    BY <1>3, <1>8, OneBlock
  <2>4. SameFunction(stack')
    <3>1. Fits(Below[Len(Below)], f)
      BY <1>2, <1>4, <1>6 DEF Fits
    <3> QED BY <1>2, <1>6, <2>1, <3>1, Topped
  <2>5. Good(tokens, Below \o <<f, Block>>, pos + 2, X)
          <=> \E y \in BlockRest(tokens, pos + 2) : \E x \in Rests(tokens, f.k, y) : Good(tokens, Below, x, X)
    BY <1>2, <2>2, GoodGrown
  <2>6. \A y \in BlockRest(tokens, pos + 2) :
          (\E x \in Rests(tokens, f.k, y) : Good(tokens, Below, x, X)) <=> Good(tokens, Below, y, X)
    <3> SUFFICES ASSUME NEW y \in BlockRest(tokens, pos + 2)
                 PROVE  (\E x \in Rests(tokens, f.k, y) : Good(tokens, Below, x, X)) <=> Good(tokens, Below, y, X)
      OBVIOUS
    <3>1. y \in Spots(tokens)
      BY <1>2, <2>2, BlockRestIn
    <3>2. (\E x \in Rests(tokens, "else", y) : Good(tokens, Below, x, X)) <=> Good(tokens, Below, y, X)
      BY <1>2, <1>4, <3>1, GoodElse
    <3> QED BY <1>6, <3>2
  <2>7. Good(tokens, stack', pos', X) <=> Good(tokens, stack, pos, X)
    BY <1>5, <2>1, <2>3, <2>5, <2>6
  <2> QED BY <1>1, <2>1, <2>4, <2>7, Going
<1> QED BY <1>7, <1>8

LEMMA EndsTurn ==
  ASSUME Placed, Formed, EndTrueBlock \/ EndElse \/ EndWhile, NEW X
  PROVE  Inner(X)
<1>1. /\ stack # <<>> /\ UNCHANGED <<tokens, functions>> /\ Fine /\ pos' = pos /\ stack' = Below
      /\ \/ Top.k = "if" /\ kind # "else"
         \/ Top.k = "else"
         \/ Top.k = "while"
  BY DEF EndTrueBlock, EndElse, EndWhile, Returned, Return, quiet, Fine, Value
<1>2. /\ tokens \in Sources /\ pos \in Spots(tokens) /\ Stacked(Below) /\ SameFunction(Below)
      /\ Fits(Below[Len(Below)], Top)
      /\ Good(tokens, stack, pos, X) <=> \E y \in Rests(tokens, Top.k, pos) : Good(tokens, Below, y, X)
  BY <1>1, Seen
<1>3. (\E y \in Rests(tokens, Top.k, pos) : Good(tokens, Below, y, X)) <=> Good(tokens, Below, pos, X)
  <2>1. CASE Top.k = "if" /\ kind # "else"
    <3>1. Rests(tokens, Top.k, pos) = {pos}
      BY <2>1, Zenon DEF Rests, kind
    <3> QED BY <3>1
  <2>2. CASE Top.k = "while"
    <3>1. Rests(tokens, Top.k, pos) = {pos}
      BY <2>2, Zenon DEF Rests
    <3> QED BY <3>1
  <2>3. CASE Top.k = "else"
    <3>1. Below # <<>> /\ Below[Len(Below)].k \in {"block", "else"}
      BY <1>2, <2>3 DEF Fits, SameFunction
    <3>2. (\E y \in Rests(tokens, "else", pos) : Good(tokens, Below, y, X)) <=> Good(tokens, Below, pos, X)
      BY <1>2, <3>1, GoodElse
    <3> QED BY <2>3, <3>2
  <2> QED BY <1>1, <2>1, <2>2, <2>3
<1>4. Good(tokens, stack', pos', X) <=> Good(tokens, stack, pos, X)
  BY <1>1, <1>2, <1>3
<1> QED BY <1>1, <1>2, <1>4, Going

-----------------------------------------------------------------------------
(* The steps around a function. *)
LEMMA Alone ==
  ASSUME Placed, Formed, stack # <<>>, Top.k \in {"fn", "body"}
  PROVE  /\ tokens \in Sources /\ pos \in Spots(tokens) /\ FrameOK(Top) /\ stack[1] = Top
         /\ MainYet <=> HasMain \/ Top.identifier = "main"
         /\ \A X : Good(tokens, stack, pos, X) <=> \E y \in Rests(tokens, Top.k, pos) : Good(tokens, <<>>, y, X)
  BY Seen DEF MainYet

LEMMA OneFrame ==
  ASSUME NEW t, NEW f, NEW s, s = <<f>>, NEW p \in Spots(t), NEW X
  PROVE  Good(t, s, p, X) <=> \E y \in Rests(t, f.k, p) : Good(t, <<>>, y, X)
<1>1. <<>> \in Seq({f}) /\ Append(<<>>, f) = <<f>>
  OBVIOUS
<1>2. Good(t, Append(<<>>, f), p, X) <=> \E y \in Rests(t, f.k, p) : Good(t, <<>>, y, X)
  BY <1>1, GoodPush
<1> QED BY <1>1, <1>2

LEMMA ShapeFunction ==
  ASSUME NEW f, f.k \in {"fn", "body"}, NEW s, s = <<f>> \/ (s = <<f, Block>> /\ f.k = "body")
  PROVE  Shape(s) /\ s # <<>> /\ s[1] = f
<1>1. CASE s = <<f>>
  <2>1. Len(s) = 1 /\ s[1] = f /\ s # <<>>
    BY <1>1
  <2> QED BY <2>1 DEF Shape
<1>2. CASE s = <<f, Block>> /\ f.k = "body"
  <2> DEFINE g == Block
  <2>1. Fits(f, g)
    BY <1>2 DEF Fits, Block
  <2> HIDE DEF g
  <2>2. s = <<f, g>>
    BY <1>2 DEF g
  <2>3. Len(s) = 2 /\ s[1] = f /\ s[2] = g /\ s # <<>>
    BY <2>2
  <2> QED BY <2>1, <2>3 DEF Shape
<1> QED BY <1>1, <1>2

(* Another frame of the same function alone on the stack. *)
LEMMA GoingAlone ==
  ASSUME Placed, Formed, stack # <<>>, Top.k \in {"fn", "body"},
         UNCHANGED <<tokens, functions>>, Fine,
         NEW f, f.identifier = Top.identifier, f.loc = Top.loc, f.k \in {"fn", "body"},
         stack' = <<f>> \/ (stack' = <<f, Block>> /\ f.k = "body"),
         NEW X, Good(tokens, stack', pos', X) <=> Good(tokens, stack, pos, X)
  PROVE  Inner(X)
<1>1. stack[1] = Top
  BY Alone
<1> DEFINE s == stack'
<1>2. s = <<f>> \/ (s = <<f, Block>> /\ f.k = "body")
  OBVIOUS
<1> HIDE DEF s
<1>3. s # <<>> /\ s[1] = f /\ Shape(s)
  BY <1>2, ShapeFunction
<1>4. SameFunction(stack')
  BY <1>1, <1>3 DEF SameFunction, s
<1> QED BY <1>4, Going

LEMMA TwoFrames ==
  ASSUME NEW t \in Sources, NEW f, NEW s, s = <<f, Block>>, NEW p \in Spots(t), NEW X
  PROVE  Good(t, s, p, X) <=> \E y \in BlockRest(t, p) : \E x \in Rests(t, f.k, y) : Good(t, <<>>, x, X)
<1> DEFINE g == Block
<1>1. <<>> \o <<f, g>> = <<f, g>>
  OBVIOUS
<1>2. Good(t, <<>> \o <<f, g>>, p, X)
        <=> \E y \in BlockRest(t, p) : \E x \in Rests(t, f.k, y) : Good(t, <<>>, x, X)
  BY Alones, GoodGrown
<1> QED BY <1>1, <1>2

LEMMA EndParamsTurns ==
  ASSUME Placed, Formed, EndParams, NEW X
  PROVE  Inner(X)
<1> DEFINE t == parse_type(pos + 2)
           head == [k |-> "body", loc |-> Top.loc, identifier |-> Top.identifier, params |-> Top.params,
                    type |-> t.tree[1]]
           ok == Kind(tokens, pos + 1) = ":" /\ Kind(tokens, pos + 2) \in Types /\ Kind(tokens, pos + 3) = Open
<1>1. /\ stack # <<>> /\ Top.k = "fn" /\ UNCHANGED <<tokens, functions>> /\ kind = ")"
      /\ IF Kind(tokens, pos + 1) # ":" THEN Fail(pos + 1, <<>>)
         ELSE IF t.tree = <<>> \/ Kind(tokens, t.pos) # Open THEN Fail(t.pos, <<>>)
         ELSE Go(t.pos + 1, <<head, Block>>)
  BY Zenon DEF EndParams, Running, quiet, Open
<1>2. /\ tokens \in Sources /\ pos \in Spots(tokens)
      /\ Good(tokens, stack, pos, X) <=> \E y \in Rests(tokens, Top.k, pos) : Good(tokens, <<>>, y, X)
  BY <1>1, Alone
<1>3. \A x : x \in Rests(tokens, Top.k, pos) <=> ok /\ x \in BlockRest(tokens, pos + 4)
  BY <1>1, <1>2, ParamsEnd DEF kind
<1>4. pos \in Int /\ (pos + 2) + 1 = pos + 3 /\ (pos + 3) + 1 = pos + 4 /\ (pos + 1) + 1 = pos + 2
  BY <1>2 DEF Spots
<1>5. /\ Kind(tokens, pos + 2) \in Types => t.tree # <<>> /\ t.pos = pos + 3
      /\ Kind(tokens, pos + 2) \notin Types => t.tree = <<>>
  BY <1>4, TypeReads DEF Null
<1>6. head.k = "body" /\ head.identifier = Top.identifier /\ head.loc = Top.loc
  OBVIOUS
<1> HIDE DEF t, head
<1>7. CASE ~ok
  <2>1. \E p : Fail(p, <<>>)
    BY <1>1, <1>5, <1>7
  <2>2. ~Good(tokens, stack, pos, X)
    BY <1>2, <1>3, <1>7
  <2> QED BY <1>1, <2>1, <2>2, Failing
<1>8. CASE ok
  <2>1. Go(pos + 4, <<head, Block>>)
    BY <1>1, <1>4, <1>5, <1>8
  <2>2. pos' = pos + 4 /\ stack' = <<head, Block>> /\ Fine
    BY <2>1 DEF Go, Fine, None
  <2>3. pos + 4 \in Spots(tokens)
    <3>1. pos + 1 \in Spots(tokens)
      BY <1>1, <1>2, NextSpot DEF kind
    <3>2. pos + 2 \in Spots(tokens)
      BY <1>2, <1>4, <1>8, <3>1, NextSpot
    <3>3. pos + 3 \in Spots(tokens)
      <4>1. Kind(tokens, pos + 2) # "Eof"
        BY <1>8 DEF Types
      <4> QED BY <1>2, <1>4, <3>2, <4>1, NextSpot
    <3>4. Open # "Eof"
      BY Signs
    <3> QED BY <1>2, <1>4, <1>8, <3>3, <3>4, NextSpot
  <2> DEFINE s == stack'
  <2>4. s = <<head, Block>>
    BY <2>2
  <2> HIDE DEF s
  <2>5. Good(tokens, s, pos + 4, X)
          <=> \E y \in BlockRest(tokens, pos + 4) : \E x \in Rests(tokens, head.k, y) : Good(tokens, <<>>, x, X)
    BY <1>2, <2>3, <2>4, TwoFrames
  <2>6. \A y : Rests(tokens, head.k, y) = {y}
    BY <1>6, Zenon DEF Rests
  <2>7. Good(tokens, s, pos + 4, X) <=> Good(tokens, stack, pos, X)
    BY <1>2, <1>3, <1>8, <2>5, <2>6
  <2>8. Good(tokens, stack', pos', X) <=> Good(tokens, stack, pos, X)
    BY <2>2, <2>7 DEF s
  <2> QED BY <1>1, <1>6, <2>2, <2>8, GoingAlone
<1> QED BY <1>7, <1>8

LEMMA ParseParamTurns ==
  ASSUME Placed, Formed, ParseParam, NEW X
  PROVE  Inner(X)
<1> DEFINE miss == Miss(pos, <<"Identifier", ":">>)
           t == parse_type(pos + 2)
           read == [Top EXCEPT !.params = Append(@, param_decl(tokens[pos], t.tree[1]))]
<1>1. /\ stack # <<>> /\ Top.k = "fn" /\ UNCHANGED <<tokens, functions>> /\ kind # ")"
  BY Zenon DEF ParseParam, Running, quiet
<1>2. IF miss # 0 THEN Fail(pos + miss - 1, <<>>)
      ELSE IF t.tree = <<>> THEN Fail(t.pos, <<>>)
      ELSE CASE Kind(tokens, t.pos) = Comma -> Go(t.pos + 1, <<read>>)
             [] Kind(tokens, t.pos) = ")" -> Go(t.pos, <<read>>)
             [] OTHER -> Fail(t.pos, <<>>)
  BY Zenon DEF ParseParam, Comma
<1>3. /\ tokens \in Sources /\ pos \in Spots(tokens) /\ FrameOK(Top)
      /\ Good(tokens, stack, pos, X) <=> \E y \in Rests(tokens, Top.k, pos) : Good(tokens, <<>>, y, X)
  BY <1>1, Alone
<1>4. pos \in Int /\ (pos + 2) + 1 = pos + 3 /\ (pos + 3) + 1 = pos + 4
  BY <1>3 DEF Spots
<1>5. IsParam(tokens, pos) <=> miss = 0 /\ Kind(tokens, pos + 2) \in Types
  <2>1. miss = 0 <=> Kind(tokens, pos) = "Identifier" /\ Kind(tokens, pos + 1) = ":"
    BY <1>4, Misses, Zenon
  <2> HIDE DEF miss
  <2> QED BY <2>1 DEF IsParam
<1>6. /\ Kind(tokens, pos + 2) \in Types => t.tree # <<>> /\ t.pos = pos + 3
      /\ Kind(tokens, pos + 2) \notin Types => t.tree = <<>>
  BY <1>4, TypeReads DEF Null
<1>7. \A x : x \in Rests(tokens, Top.k, pos)
        <=> IsParam(tokens, pos) /\ (\/ Kind(tokens, pos + 3) = Comma /\ x \in Rests(tokens, "fn", pos + 4)
                                     \/ Kind(tokens, pos + 3) = ")" /\ x \in Rests(tokens, "fn", pos + 3))
  <2> HIDE DEF miss, t, read
  <2> SUFFICES ASSUME NEW x
               PROVE  x \in Rests(tokens, "fn", pos)
                        <=> IsParam(tokens, pos) /\ (\/ Kind(tokens, pos + 3) = Comma /\ x \in Rests(tokens, "fn", pos + 4)
                                                     \/ Kind(tokens, pos + 3) = ")" /\ x \in Rests(tokens, "fn", pos + 3))
    BY <1>1
  <2>1. Kind(tokens, pos) # ")"
    BY <1>1 DEF kind
  <2> QED BY <1>3, <2>1, ParamsStep
<1>8. read.k = "fn" /\ read.identifier = Top.identifier /\ read.loc = Top.loc
  <2> DEFINE ps == Append(Top.params, param_decl(tokens[pos], t.tree[1]))
  <2>1. Top = [k |-> "fn", loc |-> Top.loc, identifier |-> Top.identifier, params |-> Top.params]
    BY <1>1, <1>3 DEF FrameOK
  <2>2. read = [Top EXCEPT !.params = ps]
    OBVIOUS
  <2> HIDE DEF ps, read
  <2>3. read = [k |-> "fn", loc |-> Top.loc, identifier |-> Top.identifier, params |-> ps]
    BY <2>1, <2>2
  <2> QED BY <2>3
<1> HIDE DEF miss, t, read
<1>9. Comma # ")" /\ Comma # "Eof"
  BY Signs
<1>10. ASSUME NEW p \in Spots(tokens), Go(p, <<read>>), IsParam(tokens, pos),
              \A x : x \in Rests(tokens, Top.k, pos) <=> x \in Rests(tokens, "fn", p)
       PROVE  Inner(X)
  <2>1. pos' = p /\ stack' = <<read>> /\ Fine
    BY <1>10 DEF Go, Fine, None
  <2> DEFINE s == stack'
  <2>2. s = <<read>>
    BY <2>1
  <2> HIDE DEF s
  <2>3. Good(tokens, s, p, X) <=> \E y \in Rests(tokens, read.k, p) : Good(tokens, <<>>, y, X)
    BY <2>2, OneFrame
  <2>4. Good(tokens, s, p, X) <=> Good(tokens, stack, pos, X)
    BY <1>3, <1>8, <1>10, <2>3
  <2>5. Good(tokens, stack', pos', X) <=> Good(tokens, stack, pos, X)
    BY <2>1, <2>4 DEF s
  <2> QED BY <1>1, <1>8, <2>1, <2>5, GoingAlone
<1>11. ASSUME NEW p, Fail(p, <<>>), Rests(tokens, Top.k, pos) = {}
       PROVE  Inner(X)
  <2>1. ~Good(tokens, stack, pos, X)
    BY <1>3, <1>11
  <2> QED BY <1>1, <1>11, <2>1, Failing
<1>12. CASE ~IsParam(tokens, pos)
  <2>1. \E p : Fail(p, <<>>)
    BY <1>2, <1>5, <1>6, <1>12
  <2>2. Rests(tokens, Top.k, pos) = {}
    BY <1>7, <1>12
  <2> QED BY <1>11, <2>1, <2>2
<1>13. CASE IsParam(tokens, pos)
  <2>1. pos + 3 \in Spots(tokens)
    BY <1>3, <1>13, ParamRule
  <2>2. miss = 0 /\ t.tree # <<>> /\ t.pos = pos + 3
    BY <1>5, <1>6, <1>13
  <2>3. CASE Kind(tokens, pos + 3) = Comma
    <3>1. Go(pos + 4, <<read>>)
      BY <1>2, <1>4, <1>9, <2>2, <2>3
    <3>2. pos + 4 \in Spots(tokens)
      BY <1>3, <1>4, <1>9, <2>1, <2>3, NextSpot
    <3>3. \A x : x \in Rests(tokens, Top.k, pos) <=> x \in Rests(tokens, "fn", pos + 4)
      <4> SUFFICES ASSUME NEW x
                   PROVE  x \in Rests(tokens, Top.k, pos) <=> x \in Rests(tokens, "fn", pos + 4)
        OBVIOUS
      <4>1. Kind(tokens, pos + 3) # ")"
        BY <1>9, <2>3
      <4> QED BY <1>7, <1>13, <2>3, <4>1, Zenon
    <3> QED BY <1>10, <1>13, <3>1, <3>2, <3>3
  <2>4. CASE Kind(tokens, pos + 3) = ")"
    <3>1. Go(pos + 3, <<read>>)
      BY <1>2, <1>9, <2>2, <2>4
    <3>2. \A x : x \in Rests(tokens, Top.k, pos) <=> x \in Rests(tokens, "fn", pos + 3)
      BY <1>7, <1>9, <1>13, <2>4
    <3> QED BY <1>10, <1>13, <2>1, <3>1, <3>2
  <2>5. CASE Kind(tokens, pos + 3) \notin {Comma, ")"}
    <3>1. Fail(t.pos, <<>>)
      BY <1>2, <2>2, <2>5
    <3>2. Rests(tokens, Top.k, pos) = {}
      BY <1>7, <2>5
    <3> QED BY <1>11, <3>1, <3>2
  <2> QED BY <2>3, <2>4, <2>5
<1> QED BY <1>12, <1>13

(* All the steps that take a function one piece further. *)
InnerStep ==
  \/ ReadStep \/ ParseParam \/ EndParams \/ EndBlock \/ UnclosedBlock \/ StatementParsed
  \/ EndWhile \/ EndTrueBlock \/ BeginElse \/ EndElse

LEMMA InnerSteps ==
  ASSUME Placed, Formed, InnerStep, NEW X
  PROVE  Inner(X) /\ Move
<1>1. CASE ReadStep
  BY <1>1, AnswerTurns, BeginIfTurns, BeginWhileTurns, BeginElseIfTurns, ReadMoves DEF ReadStep
<1>2. CASE ParseParam \/ EndParams
  BY <1>2, ParseParamTurns, EndParamsTurns, FunctionMoves
<1>3. CASE EndBlock \/ UnclosedBlock \/ StatementParsed
  BY <1>3, EndBlockTurns, StatementParsedTurns, BlockMoves
<1>4. CASE EndWhile \/ EndTrueBlock \/ BeginElse \/ EndElse
  BY <1>4, EndsTurn, BeginElseTurns, EndMoves
<1> QED BY <1>1, <1>2, <1>3, <1>4 DEF InnerStep

-----------------------------------------------------------------------------
(* The steps between functions: all that is left then is more functions. *)
LEMMA Between ==
  ASSUME Placed, stack = <<>>
  PROVE  /\ tokens \in Sources /\ pos \in Spots(tokens)
         /\ MainYet <=> HasMain \/ (ret.is = "value" /\ ret.v[1].identifier = "main")
         /\ Hopeful <=> Finishes(tokens, pos, MainYet)
<1>1. tokens \in Sources /\ pos \in Spots(tokens)
  BY DEF Placed, Places, Spots
<1>2. MainYet <=> HasMain \/ (ret.is = "value" /\ ret.v[1].identifier = "main")
  BY DEF MainYet
<1>3. Hopeful <=> Finishes(tokens, pos, MainYet)
  BY <1>1, GoodNil DEF Hopeful, Starts
<1> QED BY <1>1, <1>2, <1>3

LEMMA FunctionEndsIn ==
  ASSUME NEW t \in Sources, NEW p \in Spots(t), NEW x \in FunctionEnds(t, p)
  PROVE  x \in Spots(t)
<1>1. FunctionEnds(t, p) \subseteq Rest(t, p + 1)
  BY AllWide, FunctionIn
<1> QED BY <1>1 DEF Rest, Spots

(* A function is entered exactly if one may be there. *)
LEMMA BeginFunctionEnters ==
  ASSUME Placed, Formed, BeginFunction
  PROVE  /\ tokens \in Sources /\ pos \in Spots(tokens) /\ stack = <<>> /\ ret.is = "none"
         /\ Kind(tokens, pos) = "fn" /\ UNCHANGED <<tokens, functions>>
         /\ \/ /\ FunctionEnds(tokens, pos) = {} /\ reported' = TRUE /\ stack' = <<>> /\ ret' = nullptr
               /\ pos' = pos + Miss(pos, <<"fn", "Identifier", "(">>) - 1
            \/ /\ Fine /\ Shape(stack') /\ stack' # <<>>
               /\ stack'[1].identifier = tokens[pos + 1] /\ stack'[1].loc = pos
               /\ pos' = pos + 3 /\ Kind(tokens, pos + 1) = "Identifier" /\ Kind(tokens, pos + 2) = "("
               /\ \A X : Good(tokens, stack', pos', X) <=> \E z \in FunctionEnds(tokens, pos) : z \in X
<1> DEFINE miss == Miss(pos, <<"fn", "Identifier", "(">>)
           f == [k |-> "fn", loc |-> pos, identifier |-> tokens[pos + 1], params |-> <<>>]
<1>1. /\ stack = <<>> /\ ret.is = "none" /\ kind = "fn" /\ UNCHANGED <<tokens, functions>>
      /\ IF miss # 0 THEN Fail(pos + miss - 1, <<>>) ELSE Go(pos + 3, <<f>>)
  BY DEF BeginFunction, AtTop, quiet
<1>2. tokens \in Sources /\ pos \in Spots(tokens)
  BY <1>1, Between
<1>3. Kind(tokens, pos) = "fn"
  BY <1>1 DEF kind
<1>4. miss = 0 <=> Kind(tokens, pos + 1) = "Identifier" /\ Kind(tokens, pos + 2) = "("
  <2>1. pos \in Int
    BY <1>2 DEF Spots
  <2>2. miss = 0 <=> /\ Kind(tokens, pos) = "fn" /\ Kind(tokens, pos + 1) = "Identifier"
                     /\ Kind(tokens, pos + 2) = "("
    <3> DEFINE kinds == <<"fn", "Identifier", "(">>
    <3>1. kinds = <<"fn", "Identifier", "(">> /\ miss = Miss(pos, kinds)
      OBVIOUS
    <3> HIDE DEF kinds, miss
    <3> QED BY <2>1, <3>1, MissesThree
  <2> QED BY <1>3, <2>2
<1>5. miss # 0 => FunctionEnds(tokens, pos) = {}
  BY <1>2, <1>3, <1>4, FunctionRule
<1>6. ASSUME miss = 0
      PROVE  /\ Fine /\ Shape(stack') /\ stack' # <<>>
             /\ stack'[1].identifier = tokens[pos + 1] /\ stack'[1].loc = pos /\ pos' = pos + 3
             /\ \A X : Good(tokens, stack', pos', X) <=> \E z \in FunctionEnds(tokens, pos) : z \in X
  <2> DEFINE s == stack'
  <2>1. pos' = pos + 3 /\ s = <<f>> /\ Fine
    BY <1>1, <1>6, FineSteps DEF Go
  <2>2. f.k = "fn" /\ f.identifier = tokens[pos + 1] /\ f.loc = pos
    OBVIOUS
  <2> HIDE DEF f, s, miss
  <2>3. Shape(s) /\ s # <<>> /\ s[1] = f
    BY <2>1, <2>2, ShapeFunction
  <2>4. pos + 3 \in Spots(tokens) /\ Rests(tokens, f.k, pos + 3) = FunctionEnds(tokens, pos)
    <3>1. pos + 3 \in Spots(tokens) /\ FunctionEnds(tokens, pos) = BodyEnds(tokens, Ends("params", tokens, pos + 3))
      BY <1>2, <1>3, <1>4, <1>6, FunctionRule
    <3> QED BY <2>2, <3>1, Zenon DEF Rests
  <2>5. ASSUME NEW X PROVE Good(tokens, s, pos + 3, X) <=> \E z \in FunctionEnds(tokens, pos) : z \in X
    <3>1. Good(tokens, s, pos + 3, X) <=> \E y \in FunctionEnds(tokens, pos) : Good(tokens, <<>>, y, X)
      BY <1>2, <2>1, <2>4, OneFrame
    <3>2. \A y \in FunctionEnds(tokens, pos) : Good(tokens, <<>>, y, X) <=> y \in X
      BY <1>2, FunctionEndsIn, GoodNil
    <3> QED BY <3>1, <3>2
  <2> QED BY <2>1, <2>2, <2>3, <2>5 DEF s
<1>7. CASE miss # 0
  <2>1. reported' = TRUE /\ stack' = <<>> /\ ret' = nullptr /\ pos' = pos + miss - 1
    BY <1>1, <1>7 DEF Fail
  <2> QED BY <1>1, <1>2, <1>3, <1>5, <1>7, <2>1
<1>8. CASE miss = 0
  <2> HIDE DEF miss
  <2> QED BY <1>1, <1>2, <1>3, <1>4, <1>6, <1>8
<1> QED BY <1>7, <1>8

LEMMA BeginFunctionTurns ==
  ASSUME Placed, Formed, BeginFunction
  PROVE  Turn /\ Formed'
<1> DEFINE main == HasMain \/ tokens[pos + 1] = "main"
           F == FunctionEnds(tokens, pos)
<1>1. /\ tokens \in Sources /\ pos \in Spots(tokens) /\ stack = <<>> /\ ret.is = "none"
      /\ Kind(tokens, pos) = "fn" /\ UNCHANGED <<tokens, functions>>
      /\ \/ F = {} /\ reported' = TRUE /\ stack' = <<>> /\ ret' = nullptr
         \/ /\ Fine /\ Shape(stack') /\ stack' # <<>> /\ stack'[1].identifier = tokens[pos + 1]
            /\ \A X : Good(tokens, stack', pos', X) <=> \E z \in F : z \in X
  BY BeginFunctionEnters
<1>2. (MainYet <=> HasMain) /\ (Hopeful <=> Finishes(tokens, pos, MainYet))
  BY <1>1, Between
<1> HIDE DEF F
<1>3. Hopeful <=> \E z \in F : Finishes(tokens, z, main)
  <2>1. Finishes(tokens, pos, MainYet) <=> \E z \in F : Finishes(tokens, z, MainYet \/ tokens[pos + 1] = "main")
    BY <1>1, AtFunction DEF F
  <2>2. \A z : Finishes(tokens, z, MainYet \/ tokens[pos + 1] = "main") <=> Finishes(tokens, z, main)
    BY <1>2, FinishesIff
  <2> QED BY <1>2, <2>1, <2>2
<1>4. CASE F = {} /\ reported' = TRUE /\ stack' = <<>> /\ ret' = nullptr
  <2>1. Formed'
    BY <1>1, <1>4 DEF Formed, Shape, nullptr
  <2> QED BY <1>3, <1>4, <2>1 DEF Turn
<1>5. CASE /\ Fine /\ Shape(stack') /\ stack' # <<>> /\ stack'[1].identifier = tokens[pos + 1]
           /\ \A X : Good(tokens, stack', pos', X) <=> \E z \in F : z \in X
  <2>1. MainYet' <=> main
    BY <1>1, <1>5 DEF MainYet, HasMain
  <2> HIDE DEF main
  <2>2. Hopeful' <=> Good(tokens, stack', pos', Starts(tokens, main))
    <3>1. Hopeful' <=> Good(tokens, stack', pos', Starts(tokens, MainYet'))
      BY <1>1 DEF Hopeful
    <3> QED BY <2>1, <3>1, GoodIff
  <2>3. \A z \in F : z \in Starts(tokens, main) <=> Finishes(tokens, z, main)
    BY <1>1, FunctionEndsIn DEF F, Starts
  <2>4. Good(tokens, stack', pos', Starts(tokens, main)) <=> \E z \in F : z \in Starts(tokens, main)
    BY <1>5
  <2>5. Hopeful' <=> Hopeful
    BY <1>3, <2>2, <2>3, <2>4
  <2>6. Formed'
    BY <1>1, <1>5 DEF Formed
  <2> QED BY <1>5, <2>5, <2>6 DEF Turn, Fine
<1> QED BY <1>1, <1>4, <1>5

LEMMA EndFunctionTurns ==
  ASSUME Placed, Formed, EndFunction
  PROVE  Turn /\ Formed'
<1> DEFINE g == function_decl(Top.loc, Top.identifier, Top.params, Top.type, ret.v)
           main == HasMain \/ Top.identifier = "main"
<1>1. /\ stack # <<>> /\ Top.k = "body" /\ UNCHANGED <<tokens, functions>>
      /\ pos' = pos /\ stack' = <<>> /\ ret' = [is |-> "value", v |-> <<g>>] /\ UNCHANGED reported
  BY DEF EndFunction, Returned, Return, Value, quiet
<1>2. g.identifier = Top.identifier
  BY DEF function_decl
<1> HIDE DEF g
<1>3. ret'.is = "value" /\ ret'.v = <<g>> /\ ret'.v[1] = g
  BY <1>1
<1>4. /\ tokens \in Sources /\ pos \in Spots(tokens) /\ (MainYet <=> main)
      /\ \A m : Good(tokens, stack, pos, m) <=> \E y \in Rests(tokens, Top.k, pos) : Good(tokens, <<>>, y, m)
  BY <1>1, Alone
<1>5. MainYet' <=> main
  BY <1>1, <1>2, <1>3 DEF MainYet, HasMain
<1>6. Rests(tokens, Top.k, pos) = {pos}
  BY <1>1, Zenon DEF Rests
<1> HIDE DEF main
<1>7. Hopeful <=> Good(tokens, <<>>, pos, Starts(tokens, main))
  <2>1. Hopeful <=> Good(tokens, <<>>, pos, Starts(tokens, MainYet))
    BY <1>4, <1>6 DEF Hopeful
  <2>2. Good(tokens, <<>>, pos, Starts(tokens, MainYet)) <=> Good(tokens, <<>>, pos, Starts(tokens, main))
    BY <1>4, GoodIff
  <2> QED BY <2>1, <2>2
<1>8. Hopeful' <=> Good(tokens, <<>>, pos, Starts(tokens, main))
  <2>1. Hopeful' <=> Good(tokens, <<>>, pos, Starts(tokens, MainYet'))
    BY <1>1 DEF Hopeful
  <2>2. Good(tokens, <<>>, pos, Starts(tokens, MainYet')) <=> Good(tokens, <<>>, pos, Starts(tokens, main))
    BY <1>5, GoodIff
  <2> QED BY <2>1, <2>2
<1>9. Formed'
  BY <1>1, <1>3 DEF Formed, Shape
<1> QED BY <1>1, <1>7, <1>8, <1>9 DEF Turn

LEMMA FunctionParsedTurns ==
  ASSUME Placed, Formed, FunctionParsed
  PROVE  Turn /\ Formed'
<1>1. /\ stack = <<>> /\ ret.is = "value" /\ UNCHANGED <<tokens, pos, stack, reported>>
      /\ functions' = functions \o ret.v /\ ret' = [is |-> "none"]
  BY DEF FunctionParsed, AtTop, None
<1>2. PICK g, S : ret.v = <<g>> /\ functions \in Seq(S)
  BY <1>1 DEF Formed
<1>3. /\ functions' \in Seq(S \cup {g}) /\ Len(functions) \in Nat /\ Len(functions') = Len(functions) + 1
      /\ \A i \in 1 .. Len(functions) : functions'[i] = functions[i]
      /\ functions'[Len(functions) + 1] = g
  BY <1>1, <1>2
<1>4. /\ DOMAIN functions = 1 .. Len(functions)
      /\ DOMAIN functions' = 1 .. Len(functions) + 1
  BY <1>2, <1>3
<1>5. HasMain' <=> HasMain \/ g.identifier = "main"
  BY <1>3, <1>4 DEF HasMain
<1>6. MainYet' <=> MainYet
  <2>1. MainYet <=> HasMain \/ g.identifier = "main"
    BY <1>1, <1>2 DEF MainYet
  <2>2. MainYet' <=> HasMain'
    BY <1>1 DEF MainYet
  <2> QED BY <1>5, <2>1, <2>2
<1>7. Hopeful' <=> Hopeful
  <2>1. Hopeful' <=> Good(tokens, stack, pos, Starts(tokens, MainYet'))
    BY <1>1 DEF Hopeful
  <2> QED BY <1>6, <2>1, GoodIff DEF Hopeful
<1>8. Formed'
  <2>1. ret'.is = "none"
    BY <1>1
  <2> QED BY <1>1, <1>3, <2>1 DEF Formed
<1> QED BY <1>1, <1>7, <1>8 DEF Turn

LEMMA NotAFunctionTurns ==
  ASSUME Placed, Formed, NotAFunction
  PROVE  Turn /\ Formed'
<1>1. /\ stack = <<>> /\ kind \notin {"fn", "Eof"} /\ reported' = TRUE /\ UNCHANGED <<stack, functions>>
      /\ ret' = None
  BY DEF NotAFunction, AtTop, synchronize_on
<1>2. /\ tokens \in Sources /\ pos \in Spots(tokens)
      /\ Hopeful <=> Finishes(tokens, pos, MainYet)
  BY <1>1, Between
<1>3. ~Hopeful
  <2>1. Kind(tokens, pos) # "fn" /\ Kind(tokens, pos) # "Eof"
    BY <1>1 DEF kind
  <2> QED BY <1>2, <2>1, NotAtFunction
<1>4. Formed'
  BY <1>1 DEF Formed, None
<1> QED BY <1>1, <1>3, <1>4 DEF Turn

LEMMA EndOfFileJudged ==
  ASSUME Placed, ErrorKept, Formed, Judged, EndOfFile
  PROVE  Judged' /\ Formed'
<1>1. /\ stack = <<>> /\ ret.is = "none" /\ kind = "Eof" /\ mode = "parse" /\ result = "none"
      /\ result' = (IF ~incomplete_ast /\ HasMain THEN "ok" ELSE "failed")
      /\ reported' = (reported \/ (~incomplete_ast /\ ~HasMain))
      /\ UNCHANGED <<tokens, stack, ret, mode, functions>>
  BY DEF EndOfFile, AtTop, Parsing
<1>2. /\ tokens \in Sources /\ pos \in Spots(tokens) /\ (MainYet <=> HasMain)
      /\ Hopeful <=> Finishes(tokens, pos, MainYet)
  BY <1>1, Between
<1>3. Hopeful <=> HasMain
  <2>1. Kind(tokens, pos) = "Eof" /\ Kind(tokens, pos) # "fn"
    BY <1>1 DEF kind
  <2> QED BY <1>2, <2>1, NotAtFunction
<1>4. reported <=> incomplete_ast
  BY <1>1 DEF ErrorKept
<1>5. IsProgram(tokens)' <=> IsProgram(tokens)
  BY <1>1
<1>6. Judged'
  <2>1. CASE reported
    BY <1>1, <1>4, <1>5, <2>1 DEF Judged
  <2>2. CASE ~reported
    BY <1>1, <1>3, <1>4, <1>5, <2>2 DEF Judged
  <2> QED BY <2>1, <2>2
<1>7. Formed'
  BY <1>1 DEF Formed
<1> QED BY <1>6, <1>7

-----------------------------------------------------------------------------
(* The whole parser. *)
LEMMA TurnJudged ==
  ASSUME ErrorKept, Judged, Turn, UNCHANGED <<tokens, result>>, result = "none", mode = "parse",
         mode' = "parse" \/ reported' = TRUE
  PROVE  Judged'
<1>1. IsProgram(tokens)' <=> IsProgram(tokens)
  OBVIOUS
<1>2. reported = TRUE \/ reported = FALSE
  BY DEF ErrorKept
<1>3. CASE UNCHANGED reported /\ (Hopeful' <=> Hopeful)
  BY <1>1, <1>2, <1>3 DEF Judged
<1>4. CASE reported' = TRUE /\ ~Hopeful
  BY <1>1, <1>2, <1>4 DEF Judged
<1> QED BY <1>3, <1>4 DEF Turn

(* What is done about an error changes nothing. *)
LEMMA ErrorJudged ==
  ASSUME Judged, reported = TRUE, reported' = TRUE, UNCHANGED <<tokens, result>>, result = "none"
  PROVE  Judged'
<1>1. IsProgram(tokens)' <=> IsProgram(tokens)
  OBVIOUS
<1> QED BY <1>1 DEF Judged

LEMMA Recovers ==
  ASSUME Placed, ErrorKept, Formed, Judged,
         FunctionFailed \/ StatementFailed \/ PassOn \/ Synchronize \/ SynchronizeOn
  PROVE  Judged' /\ Formed'
<1>1. CASE FunctionFailed \/ StatementFailed
  <2>1. /\ result = "none" /\ ret.is = "null" /\ ret' = None
        /\ UNCHANGED <<tokens, reported, stack, functions, result>>
    BY <1>1 DEF FunctionFailed, StatementFailed, synchronize_on, AtTop, Parsing
  <2>2. reported = TRUE
    BY <2>1 DEF ErrorKept
  <2>3. Formed'
    BY <2>1 DEF Formed, None
  <2> QED BY <2>1, <2>2, <2>3, ErrorJudged
<1>2. CASE PassOn
  <2>1. /\ result = "none" /\ ret.is = "null" /\ stack # <<>> /\ stack' = Below
        /\ ret' = nullptr /\ reported' = TRUE /\ UNCHANGED <<tokens, functions, result>>
    BY <1>2 DEF PassOn, Parsing, Fail, quiet
  <2>2. reported = TRUE
    BY <2>1 DEF ErrorKept
  <2>3. Formed'
    BY <2>1, Seen DEF Formed, nullptr
  <2> QED BY <2>1, <2>2, <2>3, ErrorJudged
<1>3. CASE Synchronize \/ SynchronizeOn
  <2>1. mode # "parse" /\ UNCHANGED <<tokens, reported, stack, ret, functions, result>>
    BY <1>3 DEF Synchronize, SynchronizeTo, SynchronizeOn, skipping
  <2>2. result = "none" /\ reported = TRUE
    BY <2>1 DEF ErrorKept, Judged
  <2>3. Formed'
    BY <2>1 DEF Formed
  <2> QED BY <2>1, <2>2, <2>3, ErrorJudged
<1> QED BY <1>1, <1>2, <1>3

LEMMA InitJudged == Init => Formed /\ Judged
<1> SUFFICES ASSUME Init PROVE Formed /\ Judged
  OBVIOUS
<1>1. Placed /\ stack = <<>>
  BY InitPlaced DEF Init
<1>2. ~MainYet
  BY DEF Init, MainYet, HasMain, None
<1>3. IsProgram(tokens) <=> Hopeful
  <2>1. Hopeful <=> Finishes(tokens, 1, MainYet)
    BY <1>1, Between DEF Init
  <2> QED BY <1>2, <2>1 DEF Finishes, IsProgram
<1>4. Formed
  BY DEF Init, Formed, Shape, None
<1> QED BY <1>3, <1>4 DEF Init, Judged

LEMMA NextJudged ==
  ASSUME Placed, ErrorKept, Formed, Judged, [Next]_vars
  PROVE  Formed' /\ Judged'
<1>1. CASE UNCHANGED vars
  <2>1. UNCHANGED <<tokens, pos, reported, stack, ret, mode, functions, result>>
    BY <1>1 DEF vars
  <2>2. Formed' /\ (HasMain' <=> HasMain)
    BY <2>1 DEF Formed, HasMain
  <2>3. MainYet' <=> MainYet
    BY <2>1, <2>2 DEF MainYet
  <2>4. Hopeful' <=> Hopeful
    <3>1. Hopeful' <=> Good(tokens, stack, pos, Starts(tokens, MainYet'))
      BY <2>1 DEF Hopeful
    <3> QED BY <2>3, <3>1, GoodIff DEF Hopeful
  <2>5. IsProgram(tokens)' <=> IsProgram(tokens)
    BY <2>1
  <2> QED BY <2>1, <2>2, <2>4, <2>5 DEF Judged
<1>2. ASSUME Turn, Formed', Move PROVE Formed' /\ Judged'
  <2>1. mode = "parse" /\ result = "none" /\ UNCHANGED <<tokens, mode, result>>
    BY <1>2 DEF Move, Parsing, quiet
  <2> QED BY <1>2, <2>1, TurnJudged
<1>3. CASE InnerStep
  <2>1. Move /\ \A X : Inner(X)
    BY <1>3, InnerSteps
  <2> QED BY <1>2, <2>1, InnerTurns
<1>4. CASE BeginFunction \/ EndFunction
  <2>1. Turn /\ Formed'
    BY <1>4, BeginFunctionTurns, EndFunctionTurns
  <2> QED BY <1>2, <1>4, <2>1, FunctionMoves
<1>5. CASE FunctionParsed
  <2>1. mode = "parse" /\ result = "none" /\ UNCHANGED <<tokens, mode, result>>
    BY <1>5 DEF FunctionParsed, AtTop, Parsing
  <2> QED BY <1>5, <2>1, FunctionParsedTurns, TurnJudged
<1>6. CASE NotAFunction
  <2>1. mode = "parse" /\ result = "none" /\ reported' = TRUE /\ UNCHANGED <<tokens, result>>
    BY <1>6 DEF NotAFunction, AtTop, Parsing, synchronize_on
  <2> QED BY <1>6, <2>1, NotAFunctionTurns, TurnJudged
<1>7. CASE EndOfFile
  BY <1>7, EndOfFileJudged
<1>8. CASE FunctionFailed \/ StatementFailed \/ PassOn \/ Synchronize \/ SynchronizeOn
  BY <1>8, Recovers
<1> QED BY <1>1, <1>3, <1>4, <1>5, <1>6, <1>7, <1>8 DEF Next, OtherStep, InnerStep

(* The parser accepts a source exactly if the grammar derives it and it has *)
(* a main function, whatever statements and functions it goes through, and  *)
(* however long the source is.                                              *)
THEOREM ProgramsAccepted == Spec => []AcceptsGrammar
<1> DEFINE Inv == Placed /\ ErrorKept /\ Formed /\ Judged
<1>1. Init => Inv
  BY InitPlaced, InitErrorKept, InitJudged
<1>2. Inv /\ [Next]_vars => Inv'
  BY NextPlaced, NextErrorKept, NextJudged
<1>3. Inv => AcceptsGrammar
  BY DEF Judged, AcceptsGrammar
<1> HIDE DEF Inv
<1> QED BY <1>1, <1>2, <1>3, PTL DEF Spec

-----------------------------------------------------------------------------
(* A function that stands at i is in the tree, or read and about to be. *)
InTree(i) == \E n \in DOMAIN functions : functions[n].loc = i

Due(i) == stack = <<>> /\ ret.is = "value" /\ ret.v[1].loc = i

Kept(i) == FunctionEnds(tokens, i) # {} => InTree(i) \/ Due(i)

KeptTo(p) == \A i \in 1 .. p - 1 : Kept(i)

(* Where a function stands, the parser reads on until it has all of it. *)
Alive ==
  /\ stack[1].loc \in Spots(tokens) /\ Reach(tokens, stack[1].loc + 1, pos)
  /\ FunctionEnds(tokens, stack[1].loc) # {} =>
       mode = "parse" /\ ret.is # "null" /\ Good(tokens, stack, pos, Spots(tokens))

(* The inductive invariant: no function that is left behind is lost. *)
Survived ==
  /\ IF stack = <<>> THEN KeptTo(pos) ELSE Alive /\ KeptTo(stack[1].loc)
  /\ result # "none" => stack = <<>> /\ kind = "Eof"

LEMMA KeptOn ==
  ASSUME tokens \in Sources, NEW p, NEW q, KeptTo(p), Reach(tokens, p, q)
  PROVE  KeptTo(q)
<1>1. p \in Int /\ q \in Int /\ p <= q /\ 1 <= p /\ q <= Len(tokens) + 1 /\ Len(tokens) \in Nat
  BY Reached, SourceLength DEF Spots
<1>2. ASSUME NEW i \in p .. q - 1 PROVE Kept(i)
  <2>1. i \in Spots(tokens) /\ Kind(tokens, i) # "fn"
    BY <1>1, <1>2 DEF Reach, Spots
  <2> QED BY <2>1, Heads DEF Kept
<1>3. ASSUME NEW i \in 1 .. q - 1 PROVE Kept(i)
  <2>1. i \in 1 .. p - 1 \/ i \in p .. q - 1
    BY <1>1
  <2> QED BY <1>2, <2>1 DEF KeptTo
<1> QED BY <1>3 DEF KeptTo

LEMMA KeptBehind ==
  ASSUME tokens \in Sources, NEW p \in Spots(tokens), NEW q, KeptTo(p), Kept(p), Reach(tokens, p + 1, q)
  PROVE  KeptTo(q)
<1>1. p \in Int
  BY DEF Spots
<1>2. ASSUME NEW i \in 1 .. (p + 1) - 1 PROVE Kept(i)
  <2>1. i = p \/ i \in 1 .. p - 1
    BY <1>1
  <2> QED BY <2>1 DEF KeptTo
<1>3. KeptTo(p + 1)
  BY <1>2 DEF KeptTo
<1> QED BY <1>3, KeptOn

(* A step that takes nothing from the tree. *)
LEMMA Keeps ==
  ASSUME UNCHANGED tokens, NEW p, KeptTo(p), \A i : InTree(i) \/ Due(i) => InTree(i)'
  PROVE  \A i \in 1 .. p - 1 : Kept(i)'
<1> SUFFICES ASSUME NEW i \in 1 .. p - 1 PROVE Kept(i)'
  OBVIOUS
<1>1. FunctionEnds(tokens', i) = FunctionEnds(tokens, i)
  OBVIOUS
<1>2. Kept(i)
  BY DEF KeptTo
<1>3. FunctionEnds(tokens, i) # {} => InTree(i)'
  BY <1>2 DEF Kept
<1> QED BY <1>1, <1>3 DEF Kept

(* The same of a step that leaves the tree alone. *)
LEMMA KeepsAll ==
  ASSUME UNCHANGED <<tokens, functions>>, stack # <<>> \/ ret.is # "value", NEW p, KeptTo(p)
  PROVE  \A i \in 1 .. p - 1 : Kept(i)'
<1>1. ASSUME NEW i, InTree(i) \/ Due(i) PROVE InTree(i)'
  BY <1>1 DEF InTree, Due
<1> QED BY <1>1, Keeps

LEMMA KeptThere ==
  ASSUME NEW p, pos' = p, \A i \in 1 .. p - 1 : Kept(i)'
  PROVE  KeptTo(pos)'
  BY DEF KeptTo

-----------------------------------------------------------------------------
(* Between two functions. *)
LEMMA OutsideSurvives ==
  ASSUME tokens \in Sources, Survived, stack = <<>>, ret.is # "value", UNCHANGED <<tokens, functions, stack>>,
         Reach(tokens, pos, pos'), result' = "none" \/ kind' = "Eof"
  PROVE  Survived'
<1>1. KeptTo(pos)
  BY DEF Survived
<1> DEFINE p == pos'
<1>2. KeptTo(p)
  <2>1. Reach(tokens, pos, p)
    OBVIOUS
  <2> HIDE DEF p
  <2> QED BY <1>1, <2>1, KeptOn
<1>3. p = pos'
  OBVIOUS
<1> HIDE DEF p
<1>4. \A i \in 1 .. p - 1 : Kept(i)'
  BY <1>2, KeepsAll
<1>5. KeptTo(pos)'
  BY <1>3, <1>4, KeptThere
<1> QED BY <1>5 DEF Survived

LEMMA BeginFunctionSurvives ==
  ASSUME Placed, Formed, Survived, BeginFunction
  PROVE  Survived'
<1> DEFINE p == pos'
           F == FunctionEnds(tokens, pos)
<1>1. /\ tokens \in Sources /\ pos \in Spots(tokens) /\ stack = <<>> /\ ret.is = "none"
      /\ UNCHANGED <<tokens, functions>>
      /\ \/ F = {} /\ stack' = <<>> /\ ret' = nullptr
         \/ /\ Fine /\ stack' # <<>> /\ stack'[1].loc = pos
            /\ \A X : Good(tokens, stack', p, X) <=> \E z \in F : z \in X
  BY BeginFunctionEnters
<1>2. Reach(tokens, pos + 1, p)
  BY BeginFunctionLands
<1>3. mode = "parse" /\ UNCHANGED mode /\ result = "none" /\ UNCHANGED result
  BY DEF BeginFunction, AtTop, Parsing, quiet
<1>4. KeptTo(pos)
  BY <1>1 DEF Survived
<1>5. p = pos'
  OBVIOUS
<1>6. \A z \in F : z \in Spots(tokens)
  BY <1>1, FunctionEndsIn
<1>7. F = FunctionEnds(tokens, pos)
  OBVIOUS
<1> HIDE DEF p, F
<1>8. CASE F = {} /\ stack' = <<>> /\ ret' = nullptr
  <2>1. KeptTo(p)
    BY <1>1, <1>2, <1>4, <1>7, <1>8, KeptBehind DEF Kept
  <2>2. \A i \in 1 .. p - 1 : Kept(i)'
    BY <1>1, <2>1, KeepsAll
  <2>3. KeptTo(pos)'
    BY <1>5, <2>2, KeptThere
  <2> QED BY <1>3, <1>8, <2>3 DEF Survived
<1>9. CASE /\ Fine /\ stack' # <<>> /\ stack'[1].loc = pos
           /\ \A X : Good(tokens, stack', p, X) <=> \E z \in F : z \in X
  <2> DEFINE l == stack'[1].loc
  <2>1. l = pos
    BY <1>9
  <2>2. Alive'
    <3>1. F # {} => Good(tokens, stack', p, Spots(tokens))
      BY <1>6, <1>9
    <3>2. FunctionEnds(tokens', stack'[1].loc) = F /\ Spots(tokens') = Spots(tokens)
      BY <1>1, <1>7, <1>9
    <3> QED BY <1>1, <1>2, <1>3, <1>5, <1>9, <3>1, <3>2 DEF Alive, Fine
  <2>3. \A i \in 1 .. pos - 1 : Kept(i)'
    BY <1>1, <1>4, KeepsAll
  <2>4. KeptTo(stack[1].loc)'
    BY <2>1, <2>3 DEF KeptTo
  <2> QED BY <1>3, <1>9, <2>2, <2>4 DEF Survived
<1> QED BY <1>1, <1>8, <1>9

-----------------------------------------------------------------------------
(* Inside a function: it is gone on with, or what stands there is none. *)
LEMMA InsideSurvives ==
  ASSUME Placed, Survived, stack # <<>>, UNCHANGED <<tokens, functions>>, Goes(pos'),
         stack' = <<>> \/ (stack' # <<>> /\ stack'[1].loc = stack[1].loc),
         \/ FunctionEnds(tokens, stack[1].loc) = {}
         \/ /\ stack' # <<>> /\ mode' = "parse" /\ ret'.is # "null"
            /\ Good(tokens, stack', pos', Spots(tokens)),
         result' = "none"
  PROVE  Survived'
<1> DEFINE l == stack[1].loc
           p == pos'
<1>1. /\ tokens \in Sources /\ l \in Spots(tokens) /\ Reach(tokens, l + 1, pos) /\ KeptTo(l)
      /\ Reach(tokens, pos, p)
  BY Here DEF Survived, Alive, Goes
<1>2. l = stack[1].loc /\ p = pos'
  OBVIOUS
<1> HIDE DEF l, p
<1>3. Reach(tokens, l + 1, p)
  BY <1>1, ReachOn
<1>4. CASE stack' = <<>>
  <2>1. KeptTo(p)
    BY <1>1, <1>2, <1>3, <1>4, KeptBehind DEF Kept
  <2>2. \A i \in 1 .. p - 1 : Kept(i)'
    BY <2>1, KeepsAll
  <2>3. KeptTo(pos)'
    BY <1>2, <2>2, KeptThere
  <2> QED BY <1>4, <2>3 DEF Survived
<1>5. CASE stack' # <<>> /\ stack'[1].loc = stack[1].loc
  <2>1. Alive'
    <3>1. FunctionEnds(tokens', stack'[1].loc) = FunctionEnds(tokens, l) /\ Spots(tokens') = Spots(tokens)
      BY <1>2, <1>5
    <3>2. FunctionEnds(tokens, l) # {} => mode' = "parse" /\ ret'.is # "null" /\ Good(tokens, stack', p, Spots(tokens))
      BY <1>2
    <3> QED BY <1>1, <1>2, <1>3, <1>5, <3>1, <3>2 DEF Alive
  <2>2. \A i \in 1 .. l - 1 : Kept(i)'
    BY <1>1, KeepsAll
  <2>3. KeptTo(stack[1].loc)'
    BY <1>2, <1>5, <2>2 DEF KeptTo
  <2> QED BY <1>5, <2>1, <2>3 DEF Survived
<1> QED BY <1>4, <1>5

LEMMA InnerLands ==
  ASSUME Placed, InnerStep
  PROVE  Goes(pos')
<1>1. Lands(pos', stack')
  BY ReadsLand, ElsesLand, ParseParamLands, EndParamsLands, EndsLand, StatementParsedLands
     DEF InnerStep, ReadStep
<1> QED BY <1>1 DEF Lands

LEMMA InnerSurvives ==
  ASSUME Placed, Formed, Survived, InnerStep
  PROVE  Survived'
<1> DEFINE X == Spots(tokens)
<1>1. Inner(X) /\ Move
  BY InnerSteps
<1>2. /\ stack # <<>> /\ UNCHANGED <<tokens, functions>>
      /\ mode' = "parse" /\ result' = "none"
  BY <1>1 DEF Inner, Move, Parsing, quiet
<1>3. FunctionEnds(tokens, stack[1].loc) # {} => Good(tokens, stack, pos, X)
  BY <1>2 DEF Survived, Alive
<1> HIDE DEF X
<1>4. Goes(pos')
  BY InnerLands
<1>5. stack' = <<>> \/ (stack' # <<>> /\ stack'[1].loc = stack[1].loc)
  BY <1>1 DEF Inner, SameFunction
<1>6. \/ FunctionEnds(tokens, stack[1].loc) = {}
      \/ stack' # <<>> /\ ret'.is # "null" /\ Good(tokens, stack', pos', X)
  BY <1>1, <1>3 DEF Inner, SameFunction, Fine
<1> QED BY <1>2, <1>4, <1>5, <1>6, InsideSurvives DEF X

LEMMA EndFunctionSurvives ==
  ASSUME Placed, Formed, Survived, EndFunction
  PROVE  Survived'
<1> DEFINE g == function_decl(Top.loc, Top.identifier, Top.params, Top.type, ret.v)
<1>1. /\ stack # <<>> /\ Top.k = "body" /\ UNCHANGED <<tokens, functions>> /\ result' = "none"
      /\ pos' = pos /\ stack' = <<>> /\ ret' = [is |-> "value", v |-> <<g>>]
  BY DEF EndFunction, Returned, Return, Value, Parsing, quiet
<1>2. g.loc = Top.loc
  BY DEF function_decl
<1> HIDE DEF g
<1> DEFINE l == Top.loc
<1>3. l = stack[1].loc
  BY <1>1, Alone
<1>4. ret'.is = "value" /\ ret'.v[1].loc = l
  BY <1>1, <1>2
<1> HIDE DEF l
<1>5. tokens \in Sources /\ l \in Spots(tokens) /\ Reach(tokens, l + 1, pos) /\ KeptTo(l)
  BY <1>1, <1>3, Here DEF Survived, Alive
<1>6. \A i \in 1 .. l - 1 : Kept(i)'
  BY <1>1, <1>5, KeepsAll
<1>7. \A i : i = l => Kept(i)'
  BY <1>1, <1>4 DEF Kept, Due
<1>8. l \in Int /\ pos \in Int /\ \A i \in l + 1 .. pos - 1 : i \in Spots(tokens) /\ FunctionEnds(tokens, i) = {}
  <2>1. l \in Int /\ pos \in Int /\ 1 <= l /\ pos <= Len(tokens) + 1 /\ Len(tokens) \in Nat
    BY <1>5, Reached, SourceLength DEF Spots
  <2>2. ASSUME NEW i \in l + 1 .. pos - 1 PROVE i \in Spots(tokens) /\ FunctionEnds(tokens, i) = {}
    <3>1. i \in Spots(tokens)
      BY <2>1 DEF Spots
    <3>2. Kind(tokens, i) # "fn"
      BY <1>5 DEF Reach
    <3> QED BY <1>5, <3>1, <3>2, Heads
  <2> QED BY <2>1, <2>2
<1>9. ASSUME NEW i \in 1 .. pos - 1 PROVE Kept(i)'
  <2>1. i \in 1 .. l - 1 \/ i = l \/ i \in l + 1 .. pos - 1
    BY <1>8
  <2>2. i \in l + 1 .. pos - 1 => Kept(i)'
    BY <1>1, <1>8 DEF Kept
  <2> QED BY <1>6, <1>7, <2>1, <2>2
<1>10. KeptTo(pos)'
  BY <1>1, <1>9 DEF KeptTo
<1> QED BY <1>1, <1>10 DEF Survived

LEMMA FunctionParsedSurvives ==
  ASSUME Placed, Formed, Survived, FunctionParsed
  PROVE  Survived'
<1>1. /\ stack = <<>> /\ ret.is = "value" /\ UNCHANGED <<tokens, pos, stack, result>> /\ result = "none"
      /\ functions' = functions \o ret.v
  BY DEF FunctionParsed, AtTop, Parsing
<1>2. PICK g, S : ret.v = <<g>> /\ functions \in Seq(S)
  BY <1>1 DEF Formed
<1>3. /\ DOMAIN functions = 1 .. Len(functions) /\ Len(functions) \in Nat
      /\ DOMAIN functions' = 1 .. Len(functions) + 1
      /\ \A n \in 1 .. Len(functions) : functions'[n] = functions[n]
      /\ functions'[Len(functions) + 1] = g
  BY <1>1, <1>2
<1>4. ASSUME NEW i, InTree(i) \/ Due(i) PROVE InTree(i)'
  <2>1. CASE InTree(i)
    <3>1. PICK n \in DOMAIN functions : functions[n].loc = i
      BY <2>1 DEF InTree
    <3>2. n \in DOMAIN functions' /\ functions'[n].loc = i
      BY <1>3, <3>1
    <3> QED BY <3>2 DEF InTree
  <2>2. CASE Due(i)
    <3>1. g.loc = i
      BY <1>2, <2>2 DEF Due
    <3>2. Len(functions) + 1 \in DOMAIN functions' /\ functions'[Len(functions) + 1].loc = i
      BY <1>3, <3>1
    <3> QED BY <3>2 DEF InTree
  <2> QED BY <1>4, <2>1, <2>2
<1>5. KeptTo(pos)
  BY <1>1 DEF Survived
<1>6. \A i \in 1 .. pos - 1 : Kept(i)'
  BY <1>1, <1>4, <1>5, Keeps
<1>7. KeptTo(pos)'
  BY <1>1, <1>6, KeptThere
<1> QED BY <1>1, <1>7 DEF Survived

(* The recoveries skip no 'fn'. *)
LEMMA SkipLands ==
  ASSUME Placed, Synchronize \/ SynchronizeOn
  PROVE  Goes(pos')
<1>1. tokens \in Sources /\ Goes(pos)
  BY Here
<1>2. pos' = pos \/ (kind # "Eof" /\ kind # "fn" /\ pos' = pos + 1)
  <2>1. CASE Synchronize
    BY <2>1, Zenon DEF Synchronize, SynchronizeTo, Skip, Resume, eat_next
  <2>2. CASE SynchronizeOn
    BY <2>2 DEF SynchronizeOn, Skip, Resume, eat_next
  <2> QED BY <2>1, <2>2
<1> QED BY <1>1, <1>2, Eaten DEF kind

(* Errors and recoveries: by then, what stands where the function began is *)
(* none.                                                                    *)
LEMMA RecoverySurvives ==
  ASSUME Placed, ErrorKept, Formed, Survived,
         StatementFailed \/ PassOn \/ Synchronize \/ SynchronizeOn \/ NotAFunction \/ FunctionFailed
  PROVE  Survived'
<1>1. /\ UNCHANGED <<tokens, functions>> /\ result = "none" /\ result' = "none"
      /\ mode # "parse" => ret.is = "none"
  BY DEF StatementFailed, PassOn, Synchronize, SynchronizeTo, SynchronizeOn, NotAFunction, FunctionFailed,
         synchronize_on, AtTop, Parsing, quiet, skipping, ErrorKept
<1>2. Goes(pos')
  <2>1. CASE Synchronize \/ SynchronizeOn
    BY <2>1, SkipLands
  <2>2. CASE StatementFailed \/ PassOn \/ NotAFunction \/ FunctionFailed
    <3>1. pos' = pos
      BY <2>2 DEF StatementFailed, PassOn, Fail, NotAFunction, FunctionFailed, synchronize_on
    <3> QED BY <3>1, Here
  <2> QED BY <2>1, <2>2
<1>3. CASE stack # <<>>
  <2>1. mode # "parse" \/ ret.is = "null"
    BY <1>3 DEF StatementFailed, PassOn, Synchronize, SynchronizeTo, SynchronizeOn, NotAFunction, FunctionFailed, AtTop
  <2>2. FunctionEnds(tokens, stack[1].loc) = {}
    BY <1>3, <2>1 DEF Survived, Alive
  <2>3. stack' = <<>> \/ (stack' # <<>> /\ stack'[1].loc = stack[1].loc)
    <3>1. CASE PassOn
      <4>1. stack' = Below /\ Top.k # "block"
        BY <3>1 DEF PassOn, Fail
      <4>2. Below = <<>> \/ SameFunction(Below)
        BY <1>3, Seen
      <4> QED BY <4>1, <4>2 DEF SameFunction
    <3>2. CASE UNCHANGED stack
      BY <1>3, <3>2
    <3>3. PassOn \/ UNCHANGED stack
      BY DEF StatementFailed, Synchronize, SynchronizeTo, SynchronizeOn, NotAFunction, FunctionFailed,
             synchronize_on, skipping
    <3> QED BY <3>1, <3>2, <3>3
  <2> QED BY <1>1, <1>2, <1>3, <2>2, <2>3, InsideSurvives
<1>4. CASE stack = <<>>
  <2>1. ret.is # "value" /\ UNCHANGED stack
    BY <1>1, <1>4 DEF StatementFailed, PassOn, Synchronize, SynchronizeTo, SynchronizeOn, NotAFunction,
                      FunctionFailed, synchronize_on, skipping
  <2> QED BY <1>1, <1>2, <1>4, <2>1, Here, OutsideSurvives DEF Goes
<1> QED BY <1>3, <1>4

-----------------------------------------------------------------------------
LEMMA InitSurvived == Init => Survived
  BY DEF Init, Survived, KeptTo

LEMMA NextSurvived ==
  ASSUME Placed, ErrorKept, Formed, Survived, [Next]_vars
  PROVE  Survived'
<1>1. CASE EndOfFile
  <2>1. /\ stack = <<>> /\ ret.is # "value" /\ UNCHANGED <<tokens, functions, stack, pos>> /\ kind = "Eof"
    BY <1>1 DEF EndOfFile, AtTop
  <2>2. Reach(tokens, pos, pos') /\ kind' = "Eof"
    <3>1. pos' = pos /\ tokens' = tokens
      BY <2>1
    <3> QED BY <2>1, <3>1, Here DEF Goes, kind
  <2> QED BY <2>1, <2>2, Here, OutsideSurvives
<1>2. CASE UNCHANGED vars
  BY <1>2 DEF vars, Survived, Alive, KeptTo, Kept, InTree, Due, kind
<1> QED BY <1>1, <1>2, InnerSurvives, BeginFunctionSurvives, EndFunctionSurvives, FunctionParsedSurvives,
           RecoverySurvives DEF Next, OtherStep, InnerStep

(* An error in one function takes away no other one, however the recovery   *)
(* from it goes: wherever in a source a well-formed function stands, it is  *)
(* in the tree when the parse has ended.                                    *)
THEOREM FunctionsSurvive == Spec => []GoodFunctionsSurvive
<1> DEFINE Inv == Placed /\ ErrorKept /\ Formed /\ Judged /\ Survived
<1>1. Init => Inv
  BY InitPlaced, InitErrorKept, InitJudged, InitSurvived
<1>2. Inv /\ [Next]_vars => Inv'
  BY NextPlaced, NextErrorKept, NextJudged, NextSurvived
<1>3. Inv => GoodFunctionsSurvive
  <2> SUFFICES ASSUME Inv, result # "none", NEW i \in DOMAIN tokens, FunctionEnds(tokens, i) # {}
               PROVE  InTree(i)
    BY DEF GoodFunctionsSurvive, InTree
  <2>1. stack = <<>> /\ kind = "Eof" /\ KeptTo(pos) /\ ret.is = "none"
    BY DEF Survived, ErrorKept
  <2>2. i \in 1 .. pos - 1
    <3>1. tokens \in Sources /\ pos \in Places
      BY DEF Placed
    <3>2. Len(tokens) \in Nat /\ \A p \in 1 .. Len(tokens) : Kind(tokens, p) # "Eof"
      BY <3>1, SourceLength
    <3>3. i \in 1 .. Len(tokens)
      BY <3>1, SourcesAssumption
    <3> QED BY <2>1, <3>1, <3>2, <3>3 DEF Places, kind
  <2>3. Kept(i)
    BY <2>1, <2>2 DEF KeptTo
  <2> QED BY <2>1, <2>3 DEF Kept, Due
<1> HIDE DEF Inv
<1> QED BY <1>1, <1>2, <1>3, PTL DEF Spec

=============================================================================
