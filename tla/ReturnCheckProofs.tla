-------------------------- MODULE ReturnCheckProofs -------------------------
(* The verdict of check_return_on_all_paths is right for every graph the    *)
(* builder can return.                                                      *)
EXTENDS ReturnCheck, FiniteSetTheorems, SequenceTheorems, TLAPS

(* A search that has returned looked at everything, or at nothing at all.   *)
ResultJustified ==
  \/ result = "none"
  \/ is_void /\ result = "ok"
  \/ /\ ~is_void /\ worklist = <<>>
     /\ result = IF exit_reached \/ return_count = 0 THEN "error" ELSE "ok"

(* The inductive invariant. *)
IInv == TypeOK /\ SearchFrontier /\ SearchSound /\ SummariesExact /\ ResultJustified

-----------------------------------------------------------------------------
(* Popping a non-empty sequence splits its elements. *)
LEMMA PopSplits ==
  ASSUME NEW S, NEW s \in Seq(S), s # <<>>
  PROVE  /\ Front(s) \in Seq(S) /\ Last(s) \in S
         /\ ToSet(s) = ToSet(Front(s)) \cup {Last(s)}
<1>1. Len(s) \in Nat /\ Len(s) > 0
  OBVIOUS
<1>2. /\ Front(s) \in Seq(S) /\ Len(Front(s)) = Len(s) - 1
      /\ \A i \in 1 .. (Len(s) - 1) : Front(s)[i] = s[i]
  <2> DEFINE n == Len(s) - 1
  <2>1. 1 \in Int /\ n \in Int /\ n >= 0 /\ \A i \in 1 .. n : s[i] \in S
    BY <1>1
  <2> HIDE DEF n
  <2>2. SubSeq(s, 1, n) \in Seq(S)
    BY <2>1, SubSeqProperties
  <2>3. Len(SubSeq(s, 1, n)) = n
    BY <2>1, SubSeqProperties
  <2>4. \A i \in 1 .. n : SubSeq(s, 1, n)[i] = s[i]
    BY <2>1, SubSeqProperties
  <2> QED BY <2>2, <2>3, <2>4 DEF Front, n
<1>3. Last(s) \in S
  BY <1>1 DEF Last
<1>4. ToSet(s) \subseteq ToSet(Front(s)) \cup {Last(s)}
  BY <1>1, <1>2 DEF ToSet, Last
<1>5. ToSet(Front(s)) \cup {Last(s)} \subseteq ToSet(s)
  BY <1>1, <1>2 DEF ToSet, Last
<1> QED BY <1>2, <1>3, <1>4, <1>5

(* The elements of a concatenation. *)
LEMMA ConcatElements ==
  ASSUME NEW S, NEW s \in Seq(S), NEW t \in Seq(S)
  PROVE  s \o t \in Seq(S) /\ ToSet(s \o t) = ToSet(s) \cup ToSet(t)
<1>1. ToSet(s \o t) \subseteq ToSet(s) \cup ToSet(t)
  BY DEF ToSet
<1>2. ToSet(s) \subseteq ToSet(s \o t)
  BY DEF ToSet
<1>3. ToSet(t) \subseteq ToSet(s \o t)
  <2> SUFFICES ASSUME NEW i \in 1 .. Len(t) PROVE t[i] \in ToSet(s \o t)
    BY DEF ToSet
  <2>1. (s \o t)[Len(s) + i] = t[i] /\ Len(s) + i \in DOMAIN (s \o t)
    OBVIOUS
  <2> QED BY <2>1 DEF ToSet
<1> QED BY <1>1, <1>2, <1>3

(* Reach is closed, and lies in every closed set. *)
LEMMA ReachClosed ==
  ASSUME NEW g, WellFormed(g, Vars)
  PROVE  /\ Reach(g) \subseteq Blocks(g)
         /\ g.entry \in Reach(g)
         /\ \A b \in Reach(g) : ~IsReturnBlock(g, b) =>
              ReachableSuccs(g, b) \subseteq Reach(g)
         /\ \A S \in SUBSET Blocks(g) : Closed(g, S) => Reach(g) \subseteq S
<1>1. g.entry \in Blocks(g)
  BY DEF WellFormed, Blocks
<1>2. \A b \in Blocks(g) : ReachableSuccs(g, b) \subseteq Blocks(g)
  BY DEF ReachableSuccs
<1> QED BY <1>1, <1>2 DEF Reach, Closed

LEMMA VisitedFinite ==
  ASSUME TypeOK
  PROVE  IsFiniteSet(visited)
<1>1. graph.entry \in Nat
  BY DEF TypeOK, WellFormed
<1>2. IsFiniteSet(0 .. graph.entry)
  BY <1>1, FS_Interval
<1> QED BY <1>2, FS_Subset DEF TypeOK, Blocks

-----------------------------------------------------------------------------
LEMMA InitIInv == Init => IInv
<1> SUFFICES ASSUME Init PROVE IInv
  OBVIOUS
<1>1. WellFormed(graph, Vars)
  BY GraphsAssumption DEF Init
<1>2. graph.entry \in Blocks(graph)
  BY <1>1 DEF WellFormed, Blocks
<1>3. TypeOK
  <2>1. <<graph.entry>> \in Seq(Blocks(graph))
    BY <1>2
  <2> QED BY <1>1, <2>1 DEF Init, TypeOK
<1>4. OnWorklist = {graph.entry}
  BY DEF Init, OnWorklist, ToSet
<1>5. SearchFrontier /\ SearchSound
  BY <1>1, <1>4, ReachClosed DEF Init, SearchFrontier, SearchSound
<1>6. SummariesExact
  <2>1. {b \in visited : IsReturnBlock(graph, b)} = {}
    BY DEF Init
  <2> QED BY <2>1, FS_EmptySet DEF Init, SummariesExact
<1> QED BY <1>3, <1>5, <1>6 DEF IInv, Init, ResultJustified

LEMMA NextIInv == IInv /\ [Next]_vars => IInv'
<1> SUFFICES ASSUME IInv, [Next]_vars PROVE IInv'
  OBVIOUS
<1> USE DEF IInv
<1>1. CASE SkipVoid
  <2>1. OnWorklist' = OnWorklist
    BY <1>1 DEF SkipVoid, OnWorklist
  <2> QED BY <1>1, <2>1 DEF SkipVoid, TypeOK, SearchFrontier, SearchSound, SummariesExact, ResultJustified
<1>2. CASE PopVisited
  <2>1. worklist # <<>> /\ worklist \in Seq(Blocks(graph))
    BY <1>2 DEF PopVisited, Searching, TypeOK
  <2>2. worklist' \in Seq(Blocks(graph)) /\ visited' \cup OnWorklist' = visited \cup OnWorklist
    BY <1>2, <2>1, PopSplits DEF PopVisited, OnWorklist
  <2>3. TypeOK'
    BY <1>2, <2>2 DEF PopVisited, TypeOK
  <2> QED BY <1>2, <2>2, <2>3 DEF PopVisited, Searching, SearchFrontier, SearchSound, SummariesExact, ResultJustified
<1>3. CASE VisitReturn
  <2> DEFINE bb == Last(worklist)
  <2>1. worklist # <<>> /\ worklist \in Seq(Blocks(graph)) /\ bb \in OnWorklist
    BY <1>3, PopSplits DEF VisitReturn, Searching, TypeOK, OnWorklist
  <2>2. /\ worklist' \in Seq(Blocks(graph)) /\ bb \in Blocks(graph)
        /\ visited' \cup OnWorklist' = visited \cup OnWorklist
    BY <1>3, <2>1, PopSplits DEF VisitReturn, OnWorklist
  <2>3. TypeOK'
    BY <1>3, <2>2 DEF VisitReturn, TypeOK
  <2>4. SearchFrontier' /\ SearchSound'
    BY <1>3, <2>2 DEF VisitReturn, SearchFrontier, SearchSound
  <2>5. SummariesExact'
    <3> DEFINE R == {b \in visited : IsReturnBlock(graph, b)}
    <3>1. IsFiniteSet(R) /\ bb \notin R
      BY <1>3, VisitedFinite, FS_Subset DEF VisitReturn
    <3>2. {b \in visited' : IsReturnBlock(graph', b)} = R \cup {bb}
      BY <1>3 DEF VisitReturn
    <3>3. Cardinality(R \cup {bb}) = Cardinality(R) + 1
      BY <3>1, FS_AddElement
    <3> QED BY <1>3, <3>2, <3>3 DEF VisitReturn, SummariesExact
  <2> QED BY <1>3, <2>3, <2>4, <2>5 DEF VisitReturn, Searching, ResultJustified
<1>4. CASE VisitOther
  <2> DEFINE bb == Last(worklist)
  <2>1. worklist # <<>> /\ worklist \in Seq(Blocks(graph)) /\ bb \in OnWorklist
    BY <1>4, PopSplits DEF VisitOther, Searching, TypeOK, OnWorklist
  <2>2. PICK succs \in Ascending(ReachableSuccs(graph, bb)) :
          worklist' = Front(worklist) \o succs
    BY <1>4 DEF VisitOther
  <2>3. succs \in Seq(Blocks(graph)) /\ ToSet(succs) = ReachableSuccs(graph, bb)
    <3>1. IsFiniteSet(ReachableSuccs(graph, bb))
      <4>1. graph.entry \in Nat
        BY DEF TypeOK, WellFormed
      <4>2. IsFiniteSet(0 .. graph.entry)
        BY <4>1, FS_Interval
      <4> QED BY <4>2, FS_Subset DEF ReachableSuccs, Blocks
    <3>2. Cardinality(ReachableSuccs(graph, bb)) \in Nat
      BY <3>1, FS_CardinalityType
    <3>3. /\ succs \in [1 .. Cardinality(ReachableSuccs(graph, bb)) -> Blocks(graph)]
          /\ ToSet(succs) = ReachableSuccs(graph, bb)
      BY DEF Ascending, ReachableSuccs
    <3> QED BY <3>2, <3>3
  <2>4. Front(worklist) \in Seq(Blocks(graph)) /\ bb \in Blocks(graph)
    BY <2>1, PopSplits
  <2>5. /\ worklist' \in Seq(Blocks(graph))
        /\ visited' \cup OnWorklist' = visited \cup OnWorklist \cup ReachableSuccs(graph, bb)
    <3>1. ToSet(worklist') = ToSet(Front(worklist)) \cup ReachableSuccs(graph, bb)
      BY <2>2, <2>3, <2>4, ConcatElements
    <3>2. OnWorklist = ToSet(Front(worklist)) \cup {bb}
      BY <2>1, PopSplits DEF OnWorklist
    <3>3. worklist' \in Seq(Blocks(graph))
      BY <2>2, <2>3, <2>4, ConcatElements
    <3>4. visited' = visited \cup {bb} /\ OnWorklist' = ToSet(worklist')
      BY <1>4 DEF VisitOther, OnWorklist
    <3> QED BY <3>1, <3>2, <3>3, <3>4
  <2>6. TypeOK'
    BY <1>4, <2>4, <2>5 DEF VisitOther, TypeOK
  <2>7. SearchFrontier'
    BY <1>4, <2>5 DEF VisitOther, SearchFrontier
  <2>8. SearchSound'
    <3>1. ReachableSuccs(graph, bb) \subseteq Reach(graph)
      BY <1>4, <2>1, ReachClosed DEF VisitOther, SearchSound, TypeOK
    <3> QED BY <1>4, <2>5, <3>1 DEF VisitOther, SearchSound
  <2>9. SummariesExact'
    <3>1. {b \in visited' : IsReturnBlock(graph', b)} = {b \in visited : IsReturnBlock(graph, b)}
      BY <1>4 DEF VisitOther
    <3> QED BY <1>4, <3>1 DEF VisitOther, SummariesExact
  <2> QED BY <1>4, <2>6, <2>7, <2>8, <2>9 DEF VisitOther, Searching, ResultJustified
<1>5. CASE Finish
  <2>1. OnWorklist' = OnWorklist
    BY <1>5 DEF Finish, OnWorklist
  <2> QED BY <1>5, <2>1 DEF Finish, TypeOK, SearchFrontier, SearchSound, SummariesExact, ResultJustified
<1>6. CASE UNCHANGED vars
  <2>1. OnWorklist' = OnWorklist
    BY <1>6 DEF vars, OnWorklist
  <2> QED BY <1>6, <2>1 DEF vars, TypeOK, SearchFrontier, SearchSound, SummariesExact, ResultJustified
<1> QED BY <1>1, <1>2, <1>3, <1>4, <1>5, <1>6 DEF Next

(* When the worklist runs empty the visited blocks are the reachable ones. *)
LEMMA IInvVerdict == IInv => VerdictCorrect
<1> SUFFICES ASSUME IInv, result # "none", ~is_void PROVE result = Verdict(graph, is_void)
  BY DEF IInv, ResultJustified, VerdictCorrect, Verdict
<1>1. OnWorklist = {}
  BY DEF IInv, ResultJustified, OnWorklist, ToSet
<1>2. Closed(graph, visited)
  BY <1>1 DEF IInv, SearchFrontier, Closed
<1>3. visited = Reach(graph)
  BY <1>1, <1>2, ReachClosed DEF IInv, SearchSound, TypeOK
<1>4. return_count = 0 <=> Returns(graph) = {}
  <2>1. return_count = Cardinality(Returns(graph))
    BY <1>3 DEF IInv, SummariesExact, Returns
  <2>2. IsFiniteSet(Returns(graph))
    BY <1>3, VisitedFinite, FS_Subset DEF IInv, Returns
  <2> QED BY <2>1, <2>2, FS_EmptySet
<1> QED BY <1>3, <1>4 DEF IInv, SummariesExact, ResultJustified, Verdict

-----------------------------------------------------------------------------
(* Type correctness of the search. *)
THEOREM TypeCorrect == Spec => []TypeOK
<1>1. IInv => TypeOK
  BY DEF IInv
<1> QED BY InitIInv, NextIInv, <1>1, PTL DEF Spec

(* Each return block is counted once, however often it is popped, and the   *)
(* exit is noticed exactly when it is visited.                              *)
THEOREM SummariesAlwaysExact == Spec => []SummariesExact
<1>1. IInv => SummariesExact
  BY DEF IInv
<1> QED BY InitIInv, NextIInv, <1>1, PTL DEF Spec

(* No block is lost: the reachable successors of what was looked at and     *)
(* does not return have been looked at, or wait on the worklist.            *)
THEOREM FrontierKept == Spec => []SearchFrontier
<1>1. IInv => SearchFrontier
  BY DEF IInv
<1> QED BY InitIInv, NextIInv, <1>1, PTL DEF Spec

(* No block is looked at that the entry does not reach.                     *)
THEOREM NothingUnreachable == Spec => []SearchSound
<1>1. IInv => SearchSound
  BY DEF IInv
<1> QED BY InitIInv, NextIInv, <1>1, PTL DEF Spec

(* For every graph: an error is reported exactly for the non-void functions *)
(* that can reach their exit past no return, or have no reachable return.   *)
THEOREM ReturnCheckCorrect == Spec => []VerdictCorrect
<1> QED BY InitIInv, NextIInv, IInvVerdict, PTL DEF Spec
=============================================================================
