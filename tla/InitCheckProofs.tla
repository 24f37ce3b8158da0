--------------------------- MODULE InitCheckProofs --------------------------
(* check_variable_initialization implements the flow equations of Dataflow, *)
(* for every graph the builder can return.                                  *)
EXTENDS InitCheck, TLAPS

(* The predecessors joined so far. *)
Joined == Preds(graph, bb) \ preds

(* The lattice under construction is the flow equations' one, up to the     *)
(* predecessor or statement the loop has come to.                           *)
BlockProgress ==
  result = "none" /\ bb # graph.exit =>
    /\ preds # {} =>
         /\ i = Len(Stmts(graph, bb))
         /\ \A v \in Vars : tmp[v] = Abs!JoinAll({cur_lattices[p][v] : p \in Joined})
    /\ preds = {} =>
         \A v \in Vars : tmp[v] = Abs!At(graph, cur_lattices, bb, i, v)

(* Block b, statement j was visited in this sweep. *)
Passed(b, j) == b > bb \/ (b = bb /\ bb # graph.exit /\ j > i)

(* While the sweep is quiet its errors are those of the stored lattices. *)
QuietErrors ==
  ~changed /\ result = "none" =>
    \A b \in Blocks(graph) : \A j \in DOMAIN Stmts(graph, b) :
      <<b, j>> \in pending_errors <=>
        Passed(b, j) /\ Abs!IsError(graph, cur_lattices, b, j)

IInv == TypeOK /\ BlockProgress /\ QuietSweepSolved /\ QuietErrors

-----------------------------------------------------------------------------
(* Dataflow sees the graph through its own copy of the accessors. *)
LEMMA SameGraph ==
  ASSUME NEW g
  PROVE  /\ Abs!Blocks(g) = Blocks(g)
         /\ \A b : Abs!Stmts(g, b) = Stmts(g, b) /\ Abs!Preds(g, b) = Preds(g, b)
         /\ WellFormed(g, Vars) => Abs!WellFormed(g, Vars)
<1>1. Abs!Blocks(g) = Blocks(g)
  BY DEF Abs!Blocks, Blocks
<1>2. \A b : /\ Abs!Stmts(g, b) = Stmts(g, b)
            /\ Abs!Succ(g, b) = Succ(g, b) /\ Abs!Pred(g, b) = Pred(g, b)
  BY DEF Abs!Stmts, Stmts, Abs!Succ, Succ, Abs!Pred, Pred
<1>3. \A b : Abs!Succs(g, b) = Succs(g, b) /\ Abs!Preds(g, b) = Preds(g, b)
  BY <1>1, <1>2 DEF Abs!Succs, Succs, Abs!Preds, Preds
<1>4. \A it : IsItem(it, Vars) => Abs!IsItem(it, Vars)
  BY DEF Abs!IsItem, IsItem
<1>5. WellFormed(g, Vars) => Abs!WellFormed(g, Vars)
  BY <1>1, <1>2, <1>3, <1>4 DEF Abs!WellFormed, WellFormed
<1> QED BY <1>1, <1>2, <1>3, <1>5

(* Joining one more entry is the least upper bound of one more entry. *)
LEMMA JoinStep ==
  ASSUME NEW S \in SUBSET States, NEW s \in States
  PROVE  Abs!JoinAll(S \cup {s}) =
           IF s = "absent" THEN Abs!JoinAll(S) ELSE join(Entry(Abs!JoinAll(S)), s)
<1> DEFINE proper(T) == T \ {"absent", "bottom"}
<1>1. CASE s = "absent"
  <2>1. proper(S \cup {s}) = proper(S) /\ (S \cup {s} \subseteq {"absent"} <=> S \subseteq {"absent"})
    BY <1>1
  <2> QED BY <1>1, <2>1 DEF Abs!JoinAll
<1>2. CASE s = "bottom"
  <2>1. proper(S \cup {s}) = proper(S) /\ ~(S \cup {s} \subseteq {"absent"})
    BY <1>2
  <2>2. S \subseteq {"absent"} => proper(S) = {}
    OBVIOUS
  <2> QED BY <1>2, <2>1, <2>2 DEF Abs!JoinAll, join, Entry
<1>3. CASE s \notin {"absent", "bottom"}
  <2>1. proper(S \cup {s}) = proper(S) \cup {s} /\ ~(S \cup {s} \subseteq {"absent"})
    BY <1>3
  <2>2. S \subseteq {"absent"} => proper(S) = {}
    OBVIOUS
  <2>3. proper(S) \subseteq {"unassigned", "assigned", "top"} /\ s \in {"unassigned", "assigned", "top"}
    BY <1>3 DEF States
  <2> HIDE DEF proper
  <2>4. CASE proper(S) = {}
    BY <1>3, <2>1, <2>3, <2>4 DEF Abs!JoinAll, join, Entry, proper
  <2>5. CASE proper(S) # {}
    <3>1. ~(S \subseteq {"absent"})
      BY <2>2, <2>5
    <3> QED BY <1>3, <2>1, <2>3, <2>5, <3>1 DEF Abs!JoinAll, join, Entry, proper
  <2> QED BY <2>4, <2>5
<1> QED BY <1>1, <1>2, <1>3

LEMMA JoinAllType ==
  ASSUME NEW S PROVE Abs!JoinAll(S) \in States
BY DEF Abs!JoinAll, States

LEMMA AtType ==
  ASSUME NEW g, NEW lat, NEW b, NEW k, NEW v
  PROVE  Abs!At(g, lat, b, k, v) \in States
BY JoinAllType DEF Abs!At, Abs!In, States

(* Before the first statement the state is what comes in. *)
LEMMA AtStart ==
  ASSUME NEW g, NEW lat, NEW b, NEW v, Len(Stmts(g, b)) \in Nat
  PROVE  Abs!At(g, lat, b, Len(Stmts(g, b)), v) = Abs!In(g, lat, b, v)
<1>1. (Len(Stmts(g, b)) + 1) .. Len(Stmts(g, b)) = {}
  OBVIOUS
<1> QED BY <1>1 DEF Abs!At, Abs!LastWrite, Abs!WasRead, Stmts, Abs!Stmts

(* One statement further. *)
LEMMA AtStep ==
  ASSUME NEW g, NEW lat, NEW b, NEW v, Len(Stmts(g, b)) \in Nat,
         NEW k \in 1 .. Len(Stmts(g, b))
  PROVE  LET s == Stmts(g, b)[k] IN
         Abs!At(g, lat, b, k - 1, v) =
           IF Abs!Writes(s, v) THEN Abs!Effect(s)
           ELSE IF Abs!Reads(s, v) THEN Entry(Abs!At(g, lat, b, k, v))
           ELSE Abs!At(g, lat, b, k, v)
<1> DEFINE s == Stmts(g, b)[k]
           above == (k + 1) .. Len(Stmts(g, b))
<1>1. ((k - 1) + 1) .. Len(Stmts(g, b)) = above \cup {k}
  OBVIOUS
<1>2. k \notin above /\ \A j \in above : k <= j /\ ~(j <= k)
  OBVIOUS
<1>3. Abs!Effect(s) \in {"assigned", "unassigned"}
  BY DEF Abs!Effect
<1>4. ASSUME NEW e, Abs!Writes(s, v)
      PROVE  Abs!LastWrite(g, b, k - 1, v, e) <=> e = Abs!Effect(s)
  <2>1. Abs!LastWrite(g, b, k - 1, v, e) <=>
          \E j \in above \cup {k} :
            /\ Abs!Writes(Stmts(g, b)[j], v) /\ Abs!Effect(Stmts(g, b)[j]) = e
            /\ \A l \in above \cup {k} : Abs!Writes(Stmts(g, b)[l], v) => j <= l
    BY <1>1, SameGraph DEF Abs!LastWrite
  <2>2. k <= k
    OBVIOUS
  <2> QED BY <1>2, <1>4, <2>1, <2>2
<1>5. ASSUME NEW e, ~Abs!Writes(s, v)
      PROVE  Abs!LastWrite(g, b, k - 1, v, e) <=> Abs!LastWrite(g, b, k, v, e)
  BY <1>1, <1>5, SameGraph DEF Abs!LastWrite
<1>6. Abs!WasRead(g, b, k - 1, v) <=> Abs!Reads(s, v) \/ Abs!WasRead(g, b, k, v)
  BY <1>1, SameGraph DEF Abs!WasRead
<1>7. CASE Abs!Writes(s, v)
  BY <1>3, <1>4, <1>7 DEF Abs!At
<1>8. CASE ~Abs!Writes(s, v)
  BY <1>5, <1>6, <1>8 DEF Abs!At, Entry
<1> QED BY <1>7, <1>8

-----------------------------------------------------------------------------
(* Entering a block starts it off with nothing joined. *)
LEMMA EnterProgress ==
  ASSUME WellFormed(graph, Vars), NEW b \in Blocks(graph), EnterBlock(b),
         graph' = graph
  PROVE  BlockProgress'
<1>1. Len(Stmts(graph, b)) \in Nat
  BY DEF WellFormed
<1>2. Joined' = {}
  BY DEF EnterBlock, Joined
<1>3. Abs!JoinAll({}) = "absent"
  BY DEF Abs!JoinAll
<1>4. ASSUME Preds(graph, b) = {}, NEW v \in Vars
      PROVE  Abs!At(graph, cur_lattices', b, Len(Stmts(graph, b)), v) = "absent"
  <2>1. Abs!In(graph, cur_lattices', b, v) = Abs!JoinAll({})
    BY <1>4, SameGraph DEF Abs!In
  <2> QED BY <1>1, <1>3, <2>1, AtStart
<1>6. \A v \in Vars : {cur_lattices'[p][v] : p \in Joined'} = {}
  BY <1>2
<1> QED BY <1>2, <1>3, <1>4, <1>6 DEF BlockProgress, EnterBlock, Empty

(* Visiting a statement applies its effect, and notes its error. *)
LEMMA VisitStmt ==
  ASSUME IInv, AtStmt, i' = i - 1, tmp' \in Lattice,
         UNCHANGED <<graph, cur_lattices, changed, bb, preds, result, errors>>,
         \A v \in Vars : tmp'[v] = IF Abs!Writes(stmt, v) THEN Abs!Effect(stmt)
                                   ELSE IF Abs!Reads(stmt, v) THEN Entry(tmp[v])
                                   ELSE tmp[v],
         Pend(Abs!HasVar(stmt) /\ Abs!Faulty(stmt, tmp[stmt.var]))
  PROVE  IInv'
<1> USE DEF IInv
<1>1. /\ bb \in Blocks(graph) /\ Len(Stmts(graph, bb)) \in Nat
      /\ DOMAIN Stmts(graph, bb) = 1 .. Len(Stmts(graph, bb))
      /\ i \in 1 .. Len(Stmts(graph, bb)) /\ preds = {}
      /\ result = "none" /\ bb # graph.exit
      /\ stmt = Stmts(graph, bb)[i] /\ IsItem(stmt, Vars)
  BY DEF AtStmt, InBlock, TypeOK, WellFormed, stmt
<1>2. \A v \in Vars : tmp[v] = Abs!At(graph, cur_lattices, bb, i, v)
  BY <1>1 DEF BlockProgress
<1>3. \A v \in Vars : tmp'[v] = Abs!At(graph, cur_lattices, bb, i - 1, v)
  BY <1>1, <1>2, AtStep
<1>4. BlockProgress'
  BY <1>1, <1>3 DEF BlockProgress
<1>5. Abs!HasVar(stmt) => stmt.var \in Vars
  BY <1>1 DEF Abs!HasVar, IsItem
<1>6. Abs!IsError(graph, cur_lattices, bb, i) <=>
        Abs!HasVar(stmt) /\ Abs!Faulty(stmt, tmp[stmt.var])
  BY <1>1, <1>2, <1>5, SameGraph DEF Abs!IsError
<1>7. TypeOK'
  <2>1. \A e \in pending_errors' :
          \E b \in Blocks(graph) : \E j \in DOMAIN Stmts(graph, b) : e = <<b, j>>
    BY <1>1 DEF TypeOK, Pend
  <2>2. errors' \subseteq pending_errors' /\ (result' = "none" => errors' = {})
    BY DEF TypeOK, Pend
  <2>3. i' \in 0 .. Len(Stmts(graph, bb))
    BY <1>1
  <2> QED BY <2>1, <2>2, <2>3 DEF TypeOK
<1>8. QuietSweepSolved'
  BY DEF QuietSweepSolved
<1>9. QuietErrors'
  <2> SUFFICES ASSUME ~changed, NEW b \in Blocks(graph), NEW j \in DOMAIN Stmts(graph, b)
               PROVE  <<b, j>> \in pending_errors' <=>
                        Passed(b, j)' /\ Abs!IsError(graph, cur_lattices, b, j)
    BY DEF QuietErrors
  <2>1. <<b, j>> \in pending_errors <=>
          Passed(b, j) /\ Abs!IsError(graph, cur_lattices, b, j)
    BY <1>1 DEF QuietErrors
  <2>2. j \in Int
    BY DEF TypeOK, WellFormed
  <2>3. Passed(b, j)' <=> Passed(b, j) \/ (b = bb /\ j = i)
    BY <1>1, <2>2 DEF Passed, Blocks
  <2>4. ~Passed(bb, i)
    BY <1>1 DEF Passed, Blocks
  <2> QED BY <1>6, <2>1, <2>3, <2>4 DEF Pend
<1> QED BY <1>4, <1>7, <1>8, <1>9

LEMMA InitIInv == Init => IInv
<1> SUFFICES ASSUME Init PROVE IInv
  OBVIOUS
<1>1. WellFormed(graph, Vars)
  BY GraphsAssumption DEF Init
<1>2. graph.entry \in Blocks(graph)
  BY <1>1 DEF WellFormed, Blocks
<1>3. Len(Stmts(graph, bb)) \in Nat
  BY <1>1, <1>2 DEF Init, WellFormed
<1>4. TypeOK
  <2>1. Empty \in Lattice
    BY DEF Empty, Lattice, States
  <2>2. cur_lattices \in [Blocks(graph) -> Lattice] /\ tmp \in Lattice
    BY <2>1 DEF Init
  <2>3. i \in 0 .. Len(Stmts(graph, bb)) /\ bb \in Blocks(graph)
    BY <1>2, <1>3 DEF Init
  <2> QED BY <1>1, <2>2, <2>3 DEF Init, TypeOK
<1>5. BlockProgress
  <2>1. Joined = {}
    BY DEF Init, Joined
  <2>2. Abs!JoinAll({}) = "absent"
    BY DEF Abs!JoinAll
  <2>3. \A v \in Vars : {cur_lattices[p][v] : p \in Joined} = {}
    BY <2>1
  <2>4. preds = {} => \A v \in Vars : Abs!At(graph, cur_lattices, bb, i, v) = "absent"
    <3> SUFFICES ASSUME preds = {}, NEW v \in Vars
                 PROVE  Abs!At(graph, cur_lattices, bb, i, v) = "absent"
      OBVIOUS
    <3>1. Abs!In(graph, cur_lattices, bb, v) = Abs!JoinAll({})
      BY SameGraph DEF Init, Abs!In
    <3> QED BY <1>3, <2>2, <3>1, AtStart DEF Init
  <2> QED BY <2>2, <2>3, <2>4 DEF BlockProgress, Init, Empty
<1>6. QuietSweepSolved
  BY <1>1 DEF Init, QuietSweepSolved, WellFormed
<1>7. QuietErrors
  <2> SUFFICES ASSUME NEW b \in Blocks(graph), NEW j \in DOMAIN Stmts(graph, b)
               PROVE  ~Passed(b, j)
    BY DEF QuietErrors, Init
  <2>1. DOMAIN Stmts(graph, b) = 1 .. Len(Stmts(graph, b)) /\ graph.entry \in Nat
    BY <1>1 DEF WellFormed
  <2>2. ~(b > graph.entry)
    BY <2>1 DEF Blocks
  <2>3. b = graph.entry => ~(j > Len(Stmts(graph, graph.entry)))
    BY <1>3, <2>1 DEF Init
  <2> QED BY <2>2, <2>3 DEF Passed, Init
<1> QED BY <1>4, <1>5, <1>6, <1>7 DEF IInv

LEMMA NextIInv == IInv /\ [Next]_vars => IInv'
<1> SUFFICES ASSUME IInv, [Next]_vars PROVE IInv'
  OBVIOUS
<1> USE DEF IInv
<1>1. CASE JoinPred
  <2>1. PICK p \in preds :
          /\ preds' = preds \ {p}
          /\ tmp' = [v \in Vars |-> IF cur_lattices[p][v] = "absent" THEN tmp[v]
                                    ELSE join(Entry(tmp[v]), cur_lattices[p][v])]
    BY <1>1 DEF JoinPred
  <2>2. /\ p \in Preds(graph, bb) /\ p \in Blocks(graph) /\ i = Len(Stmts(graph, bb))
        /\ \A v \in Vars : tmp[v] = Abs!JoinAll({cur_lattices[q][v] : q \in Joined})
    BY <1>1 DEF JoinPred, InBlock, BlockProgress, TypeOK, Preds
  <2>3. Joined' = Joined \cup {p}
    BY <1>1, <2>1, <2>2 DEF JoinPred, Joined
  <2>4. ASSUME NEW v \in Vars
        PROVE  tmp'[v] = Abs!JoinAll({cur_lattices[q][v] : q \in Joined \cup {p}})
    <3> DEFINE S == {cur_lattices[q][v] : q \in Joined}
    <3>1. S \in SUBSET States /\ cur_lattices[p][v] \in States
      BY <2>2 DEF TypeOK, Lattice, Joined, Preds
    <3>2. {cur_lattices[q][v] : q \in Joined \cup {p}} = S \cup {cur_lattices[p][v]}
      OBVIOUS
    <3>3. tmp[v] = Abs!JoinAll(S)
      BY <2>2
    <3> HIDE DEF S
    <3>4. tmp'[v] = IF cur_lattices[p][v] = "absent" THEN Abs!JoinAll(S)
                    ELSE join(Entry(Abs!JoinAll(S)), cur_lattices[p][v])
      BY <2>1, <3>3
    <3> QED BY <3>1, <3>2, <3>4, JoinStep
  <2>5. BlockProgress'
    <3>1. ASSUME preds' = {}, NEW v \in Vars
          PROVE  tmp'[v] = Abs!At(graph, cur_lattices, bb, i, v)
      <4>1. Joined \cup {p} = Preds(graph, bb)
        BY <2>1, <2>2, <3>1 DEF Joined
      <4>2. Abs!In(graph, cur_lattices, bb, v) = tmp'[v]
        BY <2>4, <4>1, SameGraph DEF Abs!In
      <4>3. Len(Stmts(graph, bb)) \in Nat
        BY DEF TypeOK, WellFormed
      <4> QED BY <2>2, <4>2, <4>3, AtStart
    <3> QED BY <1>1, <2>2, <2>3, <2>4, <3>1 DEF JoinPred, BlockProgress
  <2>6. TypeOK'
    <3>1. tmp' \in Lattice
      BY <2>1, <2>2, <2>4, JoinAllType DEF Lattice
    <3> QED BY <1>1, <2>1, <3>1 DEF JoinPred, TypeOK
  <2>7. QuietSweepSolved' /\ QuietErrors'
    BY <1>1 DEF JoinPred, QuietSweepSolved, QuietErrors, Passed
  <2> QED BY <2>5, <2>6, <2>7
<1>2. CASE VisitDecl
  <2>1. IsItem(stmt, Vars) /\ stmt.k = "decl" /\ tmp \in Lattice
    BY <1>2 DEF VisitDecl, AtStmt, InBlock, TypeOK, WellFormed, stmt
  <2>2. stmt.var \in Vars /\ stmt.initialized \in BOOLEAN
    BY <2>1 DEF IsItem
  <2>3. tmp' \in Lattice
    BY <1>2, <2>1, <2>2 DEF VisitDecl, Lattice, States
  <2>4. \A v \in Vars : tmp'[v] = IF Abs!Writes(stmt, v) THEN Abs!Effect(stmt)
                                  ELSE IF Abs!Reads(stmt, v) THEN Entry(tmp[v])
                                  ELSE tmp[v]
    BY <1>2, <2>1, <2>2 DEF VisitDecl, Lattice, Abs!Writes, Abs!Reads, Abs!Effect
  <2>5. Pend(Abs!HasVar(stmt) /\ Abs!Faulty(stmt, tmp[stmt.var]))
    BY <1>2 DEF VisitDecl, Pend, Abs!Faulty
  <2> QED BY <1>2, <2>3, <2>4, <2>5, VisitStmt DEF VisitDecl
<1>3. CASE VisitAssign
  <2>1. IsItem(stmt, Vars) /\ stmt.k = "assign" /\ tmp \in Lattice
    BY <1>3 DEF VisitAssign, AtStmt, InBlock, TypeOK, WellFormed, stmt
  <2>2. stmt.var \in Vars
    BY <2>1 DEF IsItem
  <2>3. tmp' \in Lattice
    BY <1>3, <2>1, <2>2 DEF VisitAssign, Lattice, States
  <2>4. \A v \in Vars : tmp'[v] = IF Abs!Writes(stmt, v) THEN Abs!Effect(stmt)
                                  ELSE IF Abs!Reads(stmt, v) THEN Entry(tmp[v])
                                  ELSE tmp[v]
    BY <1>3, <2>1, <2>2 DEF VisitAssign, Lattice, Abs!Writes, Abs!Reads, Abs!Effect
  <2>5. Pend(Abs!HasVar(stmt) /\ Abs!Faulty(stmt, tmp[stmt.var]))
    BY <1>3, <2>1 DEF VisitAssign, Pend, Abs!HasVar, Abs!Faulty
  <2> QED BY <1>3, <2>3, <2>4, <2>5, VisitStmt DEF VisitAssign
<1>4. CASE VisitRef
  <2>1. IsItem(stmt, Vars) /\ stmt.k = "ref" /\ tmp \in Lattice
    BY <1>4 DEF VisitRef, AtStmt, InBlock, TypeOK, WellFormed, stmt
  <2>2. stmt.var \in Vars
    BY <2>1 DEF IsItem
  <2>3. tmp' \in Lattice
    BY <1>4, <2>1, <2>2 DEF VisitRef, Lattice, States, Entry
  <2>4. \A v \in Vars : tmp'[v] = IF Abs!Writes(stmt, v) THEN Abs!Effect(stmt)
                                  ELSE IF Abs!Reads(stmt, v) THEN Entry(tmp[v])
                                  ELSE tmp[v]
    BY <1>4, <2>1, <2>2 DEF VisitRef, Lattice, Abs!Writes, Abs!Reads, Abs!Effect
  <2>5. Pend(Abs!HasVar(stmt) /\ Abs!Faulty(stmt, tmp[stmt.var]))
    BY <1>4, <2>1 DEF VisitRef, Pend, Abs!HasVar, Abs!Faulty
  <2> QED BY <1>4, <2>3, <2>4, <2>5, VisitStmt DEF VisitRef
<1>5. CASE VisitOther
  <2>1. ~Abs!HasVar(stmt) /\ \A v \in Vars : ~Abs!Writes(stmt, v) /\ ~Abs!Reads(stmt, v)
    BY <1>5 DEF VisitOther, Abs!HasVar, Abs!Writes, Abs!Reads
  <2>2. Pend(Abs!HasVar(stmt) /\ Abs!Faulty(stmt, tmp[stmt.var]))
    BY <1>5, <2>1 DEF VisitOther, Pend
  <2> QED BY <1>5, <2>1, <2>2, VisitStmt DEF VisitOther, TypeOK
<1>6. CASE EndBlock
  <2>1. bb \in Blocks(graph) /\ bb # 0 /\ graph.entry \in Nat /\ bb - 1 \in Blocks(graph)
    BY <1>6 DEF EndBlock, InBlock, TypeOK, WellFormed, Blocks
  <2>2. BlockProgress'
    BY <1>6, <2>1, EnterProgress DEF EndBlock, TypeOK
  <2>3. TypeOK'
    <3>1. Len(Stmts(graph, bb - 1)) \in Nat
      BY <2>1 DEF TypeOK, WellFormed
    <3> QED BY <1>6, <2>1, <3>1 DEF EndBlock, EnterBlock, TypeOK, Lattice, Empty, States
  <2>4. ~changed' => ~changed /\ cur_lattices' = cur_lattices /\ cur_lattices[bb] = tmp
    BY <1>6 DEF EndBlock, TypeOK
  <2>5. tmp = Abs!Out(graph, cur_lattices, bb)
    BY <1>6 DEF EndBlock, InBlock, BlockProgress, TypeOK, Lattice, Abs!Out
  <2>6. QuietSweepSolved'
    <3>a. (bb' + 1) .. graph.entry = bb .. graph.entry /\ graph' = graph
      BY <1>6, <2>1 DEF EndBlock, EnterBlock, Blocks
    <3> SUFFICES ASSUME ~changed', NEW b \in bb .. graph.entry
                 PROVE  cur_lattices[b] = Abs!Out(graph, cur_lattices, b)
      BY <2>4, <3>a DEF QuietSweepSolved
    <3>1. CASE b = bb
      BY <2>4, <2>5, <3>1
    <3>2. CASE b # bb
      <4>1. b \in (bb + 1) .. graph.entry
        BY <2>1, <3>2 DEF Blocks
      <4> QED BY <1>6, <2>4, <4>1 DEF EndBlock, InBlock, QuietSweepSolved
    <3> QED BY <3>1, <3>2
  <2>7. QuietErrors'
    <3> SUFFICES ASSUME ~changed', NEW b \in Blocks(graph), NEW j \in DOMAIN Stmts(graph, b)
                 PROVE  Passed(b, j)' <=> Passed(b, j)
      BY <1>6, <2>4 DEF EndBlock, InBlock, QuietErrors
    <3>1. Len(Stmts(graph, b)) \in Nat /\ j \in 1 .. Len(Stmts(graph, b))
      BY DEF TypeOK, WellFormed
    <3>2. b \in Int /\ bb \in Int /\ j > 0
      BY <2>1, <3>1 DEF Blocks
    <3>3. Passed(b, j) <=> b > bb \/ b = bb
      BY <1>6, <3>1, <3>2 DEF Passed, EndBlock, InBlock
    <3>4. Passed(b, j)' <=> b > bb - 1
      BY <1>6, <3>1, <3>2 DEF Passed, EndBlock, EnterBlock
    <3> QED BY <3>2, <3>3, <3>4
  <2> QED BY <2>2, <2>3, <2>6, <2>7
<1>7. CASE Resweep
  <2>1. graph.entry \in Nat /\ graph.entry \in Blocks(graph)
    BY DEF TypeOK, WellFormed, Blocks
  <2>2. BlockProgress'
    BY <1>7, <2>1, EnterProgress DEF Resweep, TypeOK
  <2>3. TypeOK'
    <3>1. Len(Stmts(graph, graph.entry)) \in Nat
      BY <2>1 DEF TypeOK, WellFormed
    <3>2. i' \in 0 .. Len(Stmts(graph, graph.entry)) /\ bb' = graph.entry
      BY <1>7, <3>1 DEF Resweep, EnterBlock
    <3>3. tmp' \in Lattice
      BY <1>7 DEF Resweep, EnterBlock, Lattice, Empty, States
    <3>4. pending_errors' = {} /\ errors' = {}
      BY <1>7 DEF Resweep, TypeOK
    <3> QED BY <1>7, <2>1, <3>2, <3>3, <3>4 DEF Resweep, EnterBlock, TypeOK
  <2>4. QuietSweepSolved'
    BY <1>7, <2>1 DEF Resweep, EnterBlock, QuietSweepSolved
  <2>5. QuietErrors'
    <3> SUFFICES ASSUME NEW b \in Blocks(graph), NEW j \in DOMAIN Stmts(graph, b)
                 PROVE  ~Passed(b, j)'
      BY <1>7 DEF Resweep, QuietErrors
    <3>1. Len(Stmts(graph, b)) \in Nat /\ j \in 1 .. Len(Stmts(graph, b))
      BY DEF TypeOK, WellFormed
    <3> QED BY <1>7, <2>1, <3>1 DEF Resweep, EnterBlock, Passed, Blocks
  <2> QED BY <2>2, <2>3, <2>4, <2>5
<1>8. CASE Report
  <2>1. TypeOK'
    BY <1>8 DEF Report, control, TypeOK
  <2>2. result' # "none"
    BY <1>8 DEF Report
  <2> QED BY <2>1, <2>2 DEF BlockProgress, QuietSweepSolved, QuietErrors
<1>9. CASE UNCHANGED vars
  BY <1>9 DEF vars, TypeOK, BlockProgress, Joined, QuietSweepSolved, QuietErrors, Passed
<1> QED BY <1>1, <1>2, <1>3, <1>4, <1>5, <1>6, <1>7, <1>8, <1>9 DEF Next

-----------------------------------------------------------------------------
(* Refinement: storing a lattice relaxes its block, the last sweep proves   *)
(* the lattices a solution, everything else is a stutter.                   *)
LEMMA InitRefines == Init => Abs!Init
<1> SUFFICES ASSUME Init PROVE Abs!Init
  OBVIOUS
<1>1. Abs!WellFormed(graph, Vars) /\ Abs!Blocks(graph) = Blocks(graph)
  BY GraphsAssumption, SameGraph DEF Init
<1>2. Abs!Empty = Empty
  BY DEF Abs!Empty, Empty
<1> QED BY <1>1, <1>2 DEF Init, Abs!Init

LEMMA NextRefines == IInv /\ [Next]_vars => [Abs!Next]_(Abs!vars)
<1> SUFFICES ASSUME IInv, [Next]_vars PROVE [Abs!Next]_(Abs!vars)
  OBVIOUS
<1> USE DEF IInv
<1>1. Abs!Inner(graph) = Blocks(graph) \ {0} /\ graph.exit = 0 /\ graph.entry \in Nat
  BY SameGraph DEF Abs!Inner, TypeOK, WellFormed
<1>2. CASE JoinPred \/ VisitDecl \/ VisitAssign \/ VisitRef \/ VisitOther \/ Resweep
  BY <1>2 DEF JoinPred, VisitDecl, VisitAssign, VisitRef, VisitOther, Resweep, Abs!vars
<1>3. CASE EndBlock
  <2>1. tmp = Abs!Out(graph, cur_lattices, bb)
    BY <1>3 DEF EndBlock, InBlock, BlockProgress, TypeOK, Lattice, Abs!Out
  <2>2. bb \in Abs!Inner(graph)
    BY <1>1, <1>3 DEF EndBlock, InBlock, TypeOK
  <2>3. Abs!Relax(bb)
    BY <1>3, <2>1 DEF EndBlock, InBlock, Abs!Relax
  <2> QED BY <2>2, <2>3 DEF Abs!Next
<1>4. CASE Report
  <2>1. \A b \in Abs!Inner(graph) : b \in (bb + 1) .. graph.entry
    BY <1>1, <1>4 DEF Report, Blocks
  <2>2. Abs!Solved(graph, cur_lattices)
    BY <1>4, <2>1 DEF Report, QuietSweepSolved, Abs!Solved
  <2>3. pending_errors = Abs!AllErrors(graph, cur_lattices)
    <3>1. \A b \in Blocks(graph) : \A j \in DOMAIN Stmts(graph, b) :
            <<b, j>> \in pending_errors <=>
              b # 0 /\ Abs!IsError(graph, cur_lattices, b, j)
      <4>1. \A b \in Blocks(graph) : \A j : Passed(b, j) <=> b # 0
        BY <1>1, <1>4 DEF Report, Passed, Blocks
      <4> QED BY <1>4, <4>1 DEF Report, QuietErrors
    <3>2. ASSUME NEW e \in pending_errors PROVE e \in Abs!AllErrors(graph, cur_lattices)
      <4>1. PICK b \in Blocks(graph) : \E j \in DOMAIN Stmts(graph, b) : e = <<b, j>>
        BY DEF TypeOK
      <4>2. PICK j \in DOMAIN Stmts(graph, b) : e = <<b, j>>
        BY <4>1
      <4>3. b \in Abs!Inner(graph) /\ Abs!IsError(graph, cur_lattices, b, j)
        BY <1>1, <3>1, <4>2
      <4> QED BY <4>2, <4>3, SameGraph DEF Abs!AllErrors
    <3>3. ASSUME NEW e \in Abs!AllErrors(graph, cur_lattices) PROVE e \in pending_errors
      <4>1. PICK b \in Abs!Inner(graph) : \E j \in DOMAIN Stmts(graph, b) :
              Abs!IsError(graph, cur_lattices, b, j) /\ e = <<b, j>>
        BY SameGraph DEF Abs!AllErrors
      <4> QED BY <1>1, <3>1, <4>1
    <3> QED BY <3>2, <3>3
  <2> QED BY <1>4, <2>2, <2>3 DEF Report, Abs!Stop, Abs!Next
<1>5. CASE UNCHANGED vars
  BY <1>5 DEF vars, Abs!vars
<1> QED BY <1>2, <1>3, <1>4, <1>5 DEF Next

(* Type correctness of the sweeps. *)
THEOREM TypeCorrect == Spec => []TypeOK
<1>1. IInv => TypeOK
  BY DEF IInv
<1> QED BY InitIInv, NextIInv, <1>1, PTL DEF Spec

(* A sweep that changed nothing so far solves the equations it passed.      *)
THEOREM QuietSweepsSolve == Spec => []QuietSweepSolved
<1>1. IInv => QuietSweepSolved
  BY DEF IInv
<1> QED BY InitIInv, NextIInv, <1>1, PTL DEF Spec

(* check_variable_initialization implements its flow equations: it returns  *)
(* only at a solution, with exactly the errors of that solution.            *)
THEOREM ImplementsDataflowEquations == Spec => ImplementsDataflow
<1> QED BY InitIInv, NextIInv, InitRefines, NextRefines, PTL
        DEF Spec, ImplementsDataflow, Abs!Spec

-----------------------------------------------------------------------------
(* The lattices rise because every one of them is below what the equations  *)
(* give for it, and these are monotone.                                     *)
AllBelow(lat1, lat2) == \A b \in Blocks(graph), v \in Vars : Below(lat1[b][v], lat2[b][v])

Rising ==
  \A b \in Blocks(graph), v \in Vars :
    b # graph.exit => Below(cur_lattices[b][v], Abs!At(graph, cur_lattices, b, 0, v))

LEMMA BelowTransitive ==
  ASSUME NEW r \in States, NEW s \in States, NEW t \in States, Below(r, s), Below(s, t)
  PROVE  Below(r, t)
BY DEF Below, States

(* What the join says of the entries. *)
LEMMA JoinAllCases ==
  ASSUME NEW S \in SUBSET States
  PROVE  LET j == Abs!JoinAll(S) IN
         /\ j = "absent" <=> S \subseteq {"absent"}
         /\ j = "bottom" => "bottom" \in S
         /\ j = "unassigned" => "unassigned" \in S
         /\ j = "assigned" => "assigned" \in S
         /\ j = "top" => "top" \in S \/ {"unassigned", "assigned"} \subseteq S
         /\ "top" \in S => j = "top"
         /\ "unassigned" \in S => j \in {"unassigned", "top"}
         /\ "assigned" \in S => j \in {"assigned", "top"}
<1> DEFINE proper == S \ {"absent", "bottom"}
<1>1. proper \subseteq {"unassigned", "assigned", "top"}
  BY DEF States
<1>2. S \subseteq {"absent"} => proper = {}
  OBVIOUS
<1>3. proper = {} /\ ~(S \subseteq {"absent"}) => "bottom" \in S
  BY DEF States
<1>4. \A s \in {"unassigned", "assigned", "top"} : s \in proper <=> s \in S
  OBVIOUS
<1>5. Abs!JoinAll(S) =
        IF S \subseteq {"absent"} THEN "absent"
        ELSE IF proper = {} THEN "bottom"
        ELSE IF proper = {"unassigned"} THEN "unassigned"
        ELSE IF proper = {"assigned"} THEN "assigned"
        ELSE "top"
  BY DEF Abs!JoinAll
<1> HIDE DEF proper
<1>6. CASE proper = {}
  BY <1>1, <1>2, <1>3, <1>4, <1>5, <1>6
<1>7. CASE proper = {"unassigned"}
  BY <1>1, <1>2, <1>4, <1>5, <1>7
<1>8. CASE proper = {"assigned"}
  BY <1>1, <1>2, <1>4, <1>5, <1>8
<1>9. CASE proper # {} /\ proper # {"unassigned"} /\ proper # {"assigned"}
  <2>1. "top" \in proper \/ {"unassigned", "assigned"} \subseteq proper
    BY <1>1, <1>9
  <2> QED BY <1>1, <1>2, <1>4, <1>5, <1>9, <2>1
<1> QED BY <1>6, <1>7, <1>8, <1>9

LEMMA JoinAllMonotone ==
  ASSUME NEW S \in SUBSET States, NEW T \in SUBSET States,
         \A s \in S : \E t \in T : Below(s, t)
  PROVE  Below(Abs!JoinAll(S), Abs!JoinAll(T))
<1>1. Abs!JoinAll(S) \in States /\ Abs!JoinAll(T) \in States
  BY JoinAllType
<1>2. CASE Abs!JoinAll(S) = "absent"
  BY <1>2 DEF Below
<1>3. CASE Abs!JoinAll(S) = "bottom"
  <2>1. ~(T \subseteq {"absent"})
    BY <1>3, JoinAllCases DEF Below
  <2> QED BY <1>3, <2>1, JoinAllCases DEF Below
<1>4. CASE Abs!JoinAll(S) = "unassigned"
  <2>1. "unassigned" \in T \/ "top" \in T
    BY <1>4, JoinAllCases DEF Below
  <2> QED BY <1>4, <2>1, JoinAllCases DEF Below
<1>5. CASE Abs!JoinAll(S) = "assigned"
  <2>1. "assigned" \in T \/ "top" \in T
    BY <1>5, JoinAllCases DEF Below
  <2> QED BY <1>5, <2>1, JoinAllCases DEF Below
<1>6. CASE Abs!JoinAll(S) = "top"
  <2>1. "top" \in T \/ {"unassigned", "assigned"} \subseteq T
    BY <1>6, JoinAllCases DEF Below
  <2>2. Abs!JoinAll(T) = "top"
    BY <2>1, JoinAllCases
  <2> QED BY <1>6, <2>2 DEF Below
<1> QED BY <1>1, <1>2, <1>3, <1>4, <1>5, <1>6 DEF States

LEMMA AtMonotone ==
  ASSUME NEW lat1 \in [Blocks(graph) -> Lattice], NEW lat2 \in [Blocks(graph) -> Lattice],
         AllBelow(lat1, lat2), NEW b, NEW k, NEW v \in Vars
  PROVE  Below(Abs!At(graph, lat1, b, k, v), Abs!At(graph, lat2, b, k, v))
<1> DEFINE S == {lat1[p][v] : p \in Preds(graph, b)}
           T == {lat2[p][v] : p \in Preds(graph, b)}
<1>1. S \in SUBSET States /\ T \in SUBSET States
  BY DEF Preds, Lattice
<1>2. \A s \in S : \E t \in T : Below(s, t)
  BY DEF AllBelow, Preds
<1>3. Abs!In(graph, lat1, b, v) = Abs!JoinAll(S) /\ Abs!In(graph, lat2, b, v) = Abs!JoinAll(T)
  BY SameGraph DEF Abs!In
<1> HIDE DEF S, T
<1>4. Below(Abs!In(graph, lat1, b, v), Abs!In(graph, lat2, b, v))
  BY <1>1, <1>2, <1>3, JoinAllMonotone
<1> QED BY <1>4 DEF Abs!At, Below

LEMMA InitRising == Init => Rising
<1> SUFFICES ASSUME Init PROVE Rising
  OBVIOUS
<1>1. \A b \in Blocks(graph), v \in Vars : cur_lattices[b][v] = "absent"
  BY DEF Init, Empty
<1> QED BY <1>1 DEF Rising, Below

LEMMA NextRising ==
  ASSUME IInv, Rising, [Next]_vars
  PROVE  Rising' /\ AllBelow(cur_lattices, cur_lattices')
<1> USE DEF IInv
<1>1. CASE EndBlock
  <2>1. /\ bb \in Blocks(graph) /\ bb # graph.exit /\ graph' = graph
        /\ cur_lattices' = [cur_lattices EXCEPT ![bb] = tmp]
        /\ cur_lattices \in [Blocks(graph) -> Lattice] /\ cur_lattices' \in [Blocks(graph) -> Lattice]
        /\ \A v \in Vars : tmp[v] = Abs!At(graph, cur_lattices, bb, 0, v)
    BY <1>1 DEF EndBlock, InBlock, TypeOK, BlockProgress
  <2>2. AllBelow(cur_lattices, cur_lattices')
    BY <2>1 DEF AllBelow, Rising, Below
  <2>3. Rising'
    <3> SUFFICES ASSUME NEW b \in Blocks(graph), NEW v \in Vars, b # graph.exit
                 PROVE  Below(cur_lattices'[b][v], Abs!At(graph, cur_lattices', b, 0, v))
      BY <2>1 DEF Rising
    <3>1. Below(Abs!At(graph, cur_lattices, b, 0, v), Abs!At(graph, cur_lattices', b, 0, v))
      BY <2>1, <2>2, AtMonotone
    <3>2. CASE b = bb
      BY <2>1, <3>1, <3>2
    <3>3. CASE b # bb
      <4>1. cur_lattices'[b][v] = cur_lattices[b][v] /\ cur_lattices[b][v] \in States
        BY <2>1, <3>3 DEF Lattice
      <4>2. Below(cur_lattices[b][v], Abs!At(graph, cur_lattices, b, 0, v))
        BY DEF Rising
      <4> QED BY <3>1, <4>1, <4>2, AtType, BelowTransitive
    <3> QED BY <3>2, <3>3
  <2> QED BY <2>2, <2>3
<1>2. CASE UNCHANGED <<graph, cur_lattices>>
  BY <1>2 DEF Rising, AllBelow, Below
<1> QED BY <1>1, <1>2
        DEF Next, JoinPred, VisitDecl, VisitAssign, VisitRef, VisitOther, Resweep, Report, vars

(* The state of a variable only moves up, on every graph: absent, unknown,  *)
(* one of the two states, both.  Hence no entry changes more than three     *)
(* times, and the sweeps cannot go on for ever.                             *)
THEOREM LatticesOnlyAscend == Spec => LatticesAscend
<1>1. IInv /\ Rising /\ [Next]_vars =>
        [\A b \in Blocks(graph), v \in Vars : Below(cur_lattices[b][v], cur_lattices'[b][v])]_vars
  BY NextRising DEF AllBelow
<1>2. IInv /\ Rising /\ [Next]_vars => Rising'
  BY NextRising
<1> QED BY <1>1, <1>2, InitIInv, NextIInv, InitRising, PTL DEF Spec, LatticesAscend
=============================================================================
