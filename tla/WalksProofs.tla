---------------------------- MODULE WalksProofs ----------------------------
(* The initialization check is sound: on every graph, for every run.        *)
EXTENDS Walks, InitCheckProofs

(* What a state of the lattice says of a variable. *)
Covers(state) ==
  {"undeclared"} \cup (IF state \in {"unassigned", "top"} THEN {"unassigned"} ELSE {})
                 \cup (IF state \in {"assigned", "top"} THEN {"assigned"} ELSE {})

(* The lattices of an accepted function solve the equations and have no     *)
(* errors, and cover the run at every statement.                            *)
RunCovered ==
  /\ at \in Blocks(graph) /\ left \in 0 .. Len(Stmts(graph, at))
  /\ store \in [Vars -> Fates]
  /\ result # "ok" => \A v \in Vars : store[v] = "undeclared"
  /\ result = "ok" =>
       /\ Abs!Solved(graph, cur_lattices)
       /\ \A b \in Abs!Inner(graph) : \A j \in DOMAIN Stmts(graph, b) : ~Abs!IsError(graph, cur_lattices, b, j)
       /\ \A v \in Vars : store[v] \in Covers(Abs!At(graph, cur_lattices, at, left, v))

LEMMA CoversMore ==
  ASSUME NEW s \in States, NEW t \in States, Below(s, t)
  PROVE  Covers(s) \subseteq Covers(t)
BY DEF Below, Covers, States

(* A predecessor's state is covered where it enters.                        *)
LEMMA JoinCovers ==
  ASSUME NEW S \in SUBSET States, NEW s \in S
  PROVE  Covers(s) \subseteq Covers(Abs!JoinAll(S))
<1>1. s \in States
  OBVIOUS
<1>2. CASE s \in {"absent", "bottom"}
  BY <1>2 DEF Covers
<1>3. CASE s \in {"unassigned", "assigned", "top"}
  BY <1>3, JoinAllCases DEF Covers
<1> QED BY <1>1, <1>2, <1>3 DEF States

LEMMA InitCovered == WalkInit => RunCovered
<1> SUFFICES ASSUME WalkInit PROVE RunCovered
  OBVIOUS
<1>1. WellFormed(graph, Vars)
  BY GraphsAssumption DEF WalkInit, Init
<1>2. at \in Blocks(graph) /\ Len(Stmts(graph, at)) \in Nat
  BY <1>1 DEF WalkInit, WellFormed, Blocks
<1> QED BY <1>2 DEF WalkInit, Init, RunCovered, Fates

LEMMA CheckCovered ==
  ASSUME IInv, RunCovered, [Next]_vars, UNCHANGED walk
  PROVE  RunCovered'
<1> USE DEF IInv
<1>1. graph' = graph /\ UNCHANGED <<at, left, store>>
  BY DEF walk, Next, JoinPred, VisitDecl, VisitAssign, VisitRef, VisitOther, EndBlock, Resweep, Report, vars
<1>2. CASE Report
  <2>1. result = "none" /\ cur_lattices' = cur_lattices
    BY <1>2 DEF Report
  <2>2. Abs!Stop
    <3>1. [Abs!Next]_(Abs!vars)
      BY NextRefines
    <3>2. result' # result
      BY <1>2 DEF Report
    <3> QED BY <3>1, <3>2 DEF Abs!Next, Abs!Relax, Abs!vars
  <2>3. result' = "ok" => Abs!AllErrors(graph, cur_lattices) = {}
    BY <2>2 DEF Abs!Stop
  <2>4. result' = "ok" => \A b \in Abs!Inner(graph) : \A j \in DOMAIN Stmts(graph, b) :
                            ~Abs!IsError(graph, cur_lattices, b, j)
    <3> SUFFICES ASSUME Abs!AllErrors(graph, cur_lattices) = {}, NEW b \in Abs!Inner(graph),
                        NEW j \in DOMAIN Stmts(graph, b), Abs!IsError(graph, cur_lattices, b, j)
                 PROVE  FALSE
      BY <2>3
    <3>1. <<b, j>> \in Abs!AllErrors(graph, cur_lattices)
      BY SameGraph DEF Abs!AllErrors
    <3> QED BY <3>1
  <2>5. \A v \in Vars : store[v] \in Covers(Abs!At(graph, cur_lattices, at, left, v))
    BY <2>1 DEF RunCovered, Covers
  <2> QED BY <1>1, <2>1, <2>2, <2>4, <2>5 DEF RunCovered, Abs!Stop
<1>3. CASE UNCHANGED vars
  BY <1>1, <1>3 DEF RunCovered, vars
<1>4. CASE JoinPred \/ VisitDecl \/ VisitAssign \/ VisitRef \/ VisitOther \/ EndBlock \/ Resweep
  <2>1. result = "none" /\ result' = "none"
    BY <1>4 DEF JoinPred, VisitDecl, VisitAssign, VisitRef, VisitOther, EndBlock, Resweep, AtStmt, InBlock
  <2> QED BY <1>1, <2>1 DEF RunCovered
<1> QED BY <1>2, <1>3, <1>4 DEF Next

LEMMA RunStmtCovered ==
  ASSUME IInv, RunCovered, RunStmt
  PROVE  RunCovered'
<1> USE DEF IInv
<1>1. /\ Len(Stmts(graph, at)) \in Nat /\ left \in 1 .. Len(Stmts(graph, at))
      /\ IsItem(next_stmt, Vars) /\ result = "ok" /\ UNCHANGED <<vars, at>> /\ left' = left - 1
  BY DEF RunStmt, Walking, RunCovered, TypeOK, WellFormed, next_stmt
<1>2. store' \in [Vars -> Fates]
  BY DEF RunStmt, RunCovered, Fates
<1>3. ASSUME NEW v \in Vars
      PROVE  store'[v] \in Covers(Abs!At(graph, cur_lattices, at, left - 1, v))
  <2> DEFINE before == Abs!At(graph, cur_lattices, at, left, v)
  <2>1. store[v] \in Covers(before)
    BY <1>1 DEF RunCovered
  <2>2. Abs!At(graph, cur_lattices, at, left - 1, v) =
          IF Abs!Writes(next_stmt, v) THEN Abs!Effect(next_stmt)
          ELSE IF Abs!Reads(next_stmt, v) THEN Entry(before)
          ELSE before
    BY <1>1, AtStep DEF next_stmt
  <2>3. store'[v] = IF Abs!Writes(next_stmt, v) THEN Abs!Effect(next_stmt) ELSE store[v]
    BY <1>1 DEF RunStmt, IsItem, Abs!Writes, Abs!Effect
  <2> HIDE DEF before
  <2>4. Covers(before) \subseteq Covers(Entry(before))
    BY DEF Covers, Entry
  <2>5. Abs!Effect(next_stmt) \in Covers(Abs!Effect(next_stmt))
    BY DEF Covers, Abs!Effect
  <2> QED BY <2>1, <2>2, <2>3, <2>4, <2>5
<1> QED BY <1>1, <1>2, <1>3 DEF RunCovered, vars

LEMMA LeaveBlockCovered ==
  ASSUME IInv, RunCovered, LeaveBlock
  PROVE  RunCovered'
<1> USE DEF IInv
<1>1. /\ result = "ok" /\ at # graph.exit /\ left = 0 /\ at' \in Succs(graph, at)
      /\ UNCHANGED <<vars, store>> /\ left' = Len(Stmts(graph, at'))
  BY DEF LeaveBlock, Walking
<1>2. /\ at \in Blocks(graph) /\ at' \in Blocks(graph) /\ at \in Preds(graph, at')
      /\ Len(Stmts(graph, at')) \in Nat
  BY <1>1 DEF RunCovered, TypeOK, WellFormed, Succs, Preds
<1>3. ASSUME NEW v \in Vars
      PROVE  store[v] \in Covers(Abs!At(graph, cur_lattices, at', Len(Stmts(graph, at')), v))
  <2> DEFINE S == {cur_lattices[p][v] : p \in Preds(graph, at')}
  <2>1. S \in SUBSET States /\ cur_lattices[at][v] \in S
    <3>1. Preds(graph, at') \subseteq Blocks(graph)
      BY DEF Preds
    <3>2. \A p \in Blocks(graph) : cur_lattices[p][v] \in States
      BY DEF TypeOK, Lattice
    <3> QED BY <1>2, <3>1, <3>2
  <2>2. cur_lattices[at][v] = Abs!At(graph, cur_lattices, at, 0, v)
    <3>1. at \in Abs!Inner(graph)
      BY <1>1, <1>2, SameGraph DEF Abs!Inner
    <3>2. cur_lattices[at] = Abs!Out(graph, cur_lattices, at)
      BY <1>1, <3>1 DEF RunCovered, Abs!Solved
    <3>3. Abs!Out(graph, cur_lattices, at)[v] = Abs!At(graph, cur_lattices, at, 0, v)
      BY DEF Abs!Out
    <3> QED BY <3>2, <3>3
  <2>3. Abs!At(graph, cur_lattices, at', Len(Stmts(graph, at')), v) = Abs!JoinAll(S)
    <3>1. Abs!At(graph, cur_lattices, at', Len(Stmts(graph, at')), v) = Abs!In(graph, cur_lattices, at', v)
      BY <1>2, AtStart
    <3> QED BY <3>1, SameGraph DEF Abs!In
  <2>4. store[v] \in Covers(cur_lattices[at][v])
    BY <1>1, <2>2 DEF RunCovered
  <2> HIDE DEF S
  <2> QED BY <2>1, <2>3, <2>4, JoinCovers
<1>4. left' \in 0 .. Len(Stmts(graph, at'))
  BY <1>1, <1>2
<1> QED BY <1>1, <1>2, <1>3, <1>4 DEF RunCovered, vars

(* A statement without an error is covered by a state that allows it.       *)
LEMMA CoveredIsSafe == IInv /\ RunCovered => AcceptedRunsSafe
<1> SUFFICES ASSUME IInv, RunCovered, Walking, left > 0
             PROVE  /\ next_stmt.k = "ref" => store[next_stmt.var] # "unassigned"
                    /\ next_stmt.k = "assign" /\ ~next_stmt.is_mutable => store[next_stmt.var] # "assigned"
  BY DEF AcceptedRunsSafe
<1> USE DEF IInv
<1>1. /\ at \in Abs!Inner(graph) /\ left \in DOMAIN Stmts(graph, at) /\ IsItem(next_stmt, Vars)
      /\ result = "ok"
  BY SameGraph DEF Walking, RunCovered, TypeOK, WellFormed, Abs!Inner, next_stmt
<1>2. ~Abs!IsError(graph, cur_lattices, at, left)
  BY <1>1 DEF RunCovered
<1>3. ASSUME next_stmt.k \in {"ref", "assign"}
      PROVE  /\ next_stmt.var \in Vars
             /\ ~Abs!Faulty(next_stmt, Abs!At(graph, cur_lattices, at, left, next_stmt.var))
             /\ store[next_stmt.var] \in Covers(Abs!At(graph, cur_lattices, at, left, next_stmt.var))
  <2>1. next_stmt.var \in Vars
    BY <1>1, <1>3 DEF IsItem
  <2> QED BY <1>1, <1>2, <1>3, <2>1, SameGraph DEF Abs!IsError, Abs!HasVar, next_stmt, RunCovered
<1> QED BY <1>3 DEF Abs!Faulty, Covers

LEMMA NextCovered == IInv /\ RunCovered /\ [WalkNext]_walkVars => IInv' /\ RunCovered'
<1> SUFFICES ASSUME IInv, RunCovered, [WalkNext]_walkVars PROVE IInv' /\ RunCovered'
  OBVIOUS
<1>1. CASE Check \/ UNCHANGED walkVars
  BY <1>1, NextIInv, CheckCovered DEF Check, walkVars
<1>2. CASE RunStmt
  BY <1>2, NextIInv, RunStmtCovered DEF RunStmt
<1>3. CASE LeaveBlock
  BY <1>3, NextIInv, LeaveBlockCovered DEF LeaveBlock
<1> QED BY <1>1, <1>2, <1>3 DEF WalkNext

(* For every graph, every set of variables and every run, of any length: a  *)
(* function accepted by check_variable_initialization reads no unassigned   *)
(* variable and assigns no let twice.                                       *)
THEOREM InitializationSound == WalkSpec => []AcceptedRunsSafe
<1>1. WalkInit => IInv /\ RunCovered
  BY InitIInv, InitCovered DEF WalkInit
<1> QED BY <1>1, NextCovered, CoveredIsSafe, PTL DEF WalkSpec
=============================================================================
