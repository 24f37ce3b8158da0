----------------------------- MODULE ReturnCheck ---------------------------
(* sema::check_return_on_all_paths (sema.cpp:15-56): a depth-first search   *)
(* of the blocks control can reach, which rejects a non-void function that  *)
(* can reach its exit without a return, or has no return to reach.          *)
EXTENDS FlowGraph, SequencesExt

CONSTANTS Graphs,     \* the graphs of the functions under compilation
          Vars        \* the local variables of those functions

ASSUME GraphsAssumption == \A g \in Graphs : WellFormed(g, Vars)

VARIABLES graph,         \* the graph of the function being checked
          is_void,       \* fn.type_.k == type::kind::void_
          visited, worklist, exit_reached, return_count,
          result         \* "none" until the check returns "ok" or "error"

vars == <<graph, is_void, visited, worklist, exit_reached, return_count, result>>

(* The ways to write a set of blocks in ascending order: there is one, the  *)
(* order in which std::set iterates.                                        *)
Ascending(S) ==
  {s \in [1 .. Cardinality(S) -> S] :
     /\ ToSet(s) = S
     /\ \A i, j \in DOMAIN s : i < j => s[i] < s[j]}

Init ==
  /\ graph \in Graphs
  /\ is_void \in BOOLEAN
  /\ visited = {}
  /\ worklist = <<graph.entry>>
  /\ exit_reached = FALSE
  /\ return_count = 0
  /\ result = "none"

(* A void function is not checked. *)
SkipVoid ==
  /\ result = "none" /\ is_void
  /\ result' = "ok"
  /\ UNCHANGED <<graph, is_void, visited, worklist, exit_reached, return_count>>

Searching == result = "none" /\ ~is_void /\ worklist # <<>>

(* Slip: only a block seen for the first time is removed. *)
PopVisitedStays ==
  /\ Searching
  /\ Last(worklist) \in visited
  /\ UNCHANGED vars

(* The popped block was visited before. *)
PopVisited ==
  /\ Searching
  /\ Last(worklist) \in visited
  /\ worklist' = Front(worklist)
  /\ UNCHANGED <<graph, is_void, visited, exit_reached, return_count, result>>

(* Slips: the search goes on behind a return; a return is counted whenever  *)
(* its block is popped; the count runs the wrong way.                       *)
VisitReturnFollows ==
  /\ Searching
  /\ LET bb == Last(worklist) IN
       /\ bb \notin visited /\ IsReturnBlock(graph, bb)
       /\ visited' = visited \cup {bb}
       /\ exit_reached' = (exit_reached \/ bb = graph.exit)
       /\ \E succs \in Ascending(ReachableSuccs(graph, bb)) :
            worklist' = Front(worklist) \o succs
  /\ return_count' = return_count + 1
  /\ UNCHANGED <<graph, is_void, result>>

VisitReturnBy(fresh, step) ==
  /\ Searching
  /\ LET bb == Last(worklist) IN
       /\ fresh => bb \notin visited
       /\ IsReturnBlock(graph, bb)
       /\ visited' = visited \cup {bb}
       /\ exit_reached' = (exit_reached \/ bb = graph.exit)
  /\ worklist' = Front(worklist)
  /\ return_count' = return_count + step
  /\ UNCHANGED <<graph, is_void, result>>
VisitReturnAgain == VisitReturnBy(FALSE, 1)
VisitReturnDown  == VisitReturnBy(TRUE, -1)

(* A block that ends in a return: counted, its successors are not followed. *)
VisitReturn ==
  /\ Searching
  /\ LET bb == Last(worklist) IN
       /\ bb \notin visited
       /\ IsReturnBlock(graph, bb)
       /\ visited' = visited \cup {bb}
       /\ exit_reached' = (exit_reached \/ bb = graph.exit)
  /\ worklist' = Front(worklist)
  /\ return_count' = return_count + 1
  /\ UNCHANGED <<graph, is_void, result>>

(* Slips: the folded edges are followed too; only one edge is followed.     *)
VisitOtherPushing(S(_)) ==
  /\ Searching
  /\ LET bb == Last(worklist) IN
       /\ bb \notin visited
       /\ ~IsReturnBlock(graph, bb)
       /\ visited' = visited \cup {bb}
       /\ exit_reached' = (exit_reached \/ bb = graph.exit)
       /\ \E succs \in Ascending(S(bb)) :
            worklist' = Front(worklist) \o succs
  /\ UNCHANGED <<graph, is_void, return_count, result>>
VisitOtherAll   == VisitOtherPushing(LAMBDA bb : Succs(graph, bb))
VisitOtherFirst == VisitOtherPushing(LAMBDA bb :
  {s \in ReachableSuccs(graph, bb) : \A t \in ReachableSuccs(graph, bb) : s <= t})

(* Any other block: push the successors along the reachable edges. *)
VisitOther ==
  /\ Searching
  /\ LET bb == Last(worklist) IN
       /\ bb \notin visited
       /\ ~IsReturnBlock(graph, bb)
       /\ visited' = visited \cup {bb}
       /\ exit_reached' = (exit_reached \/ bb = graph.exit)
       /\ \E succs \in Ascending(ReachableSuccs(graph, bb)) :
            worklist' = Front(worklist) \o succs
  /\ UNCHANGED <<graph, is_void, return_count, result>>

Finish ==
  /\ result = "none" /\ ~is_void /\ worklist = <<>>
  /\ result' = IF exit_reached \/ return_count = 0 THEN "error" ELSE "ok"
  /\ UNCHANGED <<graph, is_void, visited, worklist, exit_reached, return_count>>

Next == SkipVoid \/ PopVisited \/ VisitReturn \/ VisitOther \/ Finish

Spec == Init /\ [][Next]_vars
(* The check is a loop of one thread: it is scheduled until it returns. *)
FairSpec == Spec /\ WF_vars(Next)

-----------------------------------------------------------------------------
(* The blocks control can reach without passing a return: the blocks that   *)
(* lie in every set closed under "entry, and reachable successors of blocks *)
(* that do not return".                                                     *)
Closed(g, S) ==
  /\ g.entry \in S
  /\ \A b \in S : ~IsReturnBlock(g, b) => ReachableSuccs(g, b) \subseteq S

Reach(g) == LET closed == {S \in SUBSET Blocks(g) : Closed(g, S)}
            IN  {b \in Blocks(g) : \A S \in closed : b \in S}

Returns(g) == {b \in Reach(g) : IsReturnBlock(g, b)}

(* What the check promises. *)
Verdict(g, void) ==
  IF ~void /\ (g.exit \in Reach(g) \/ Returns(g) = {}) THEN "error" ELSE "ok"

TypeOK ==
  /\ WellFormed(graph, Vars)
  /\ is_void \in BOOLEAN
  /\ visited \in SUBSET Blocks(graph)
  /\ worklist \in Seq(Blocks(graph))
  /\ exit_reached \in BOOLEAN
  /\ return_count \in Nat
  /\ result \in {"none", "ok", "error"}

OnWorklist == ToSet(worklist)

(* Whatever is reachable from a visited block is visited or still on the    *)
(* worklist: no block is lost when a block is popped twice or a return cuts *)
(* the search short.                                                        *)
SearchFrontier ==
  /\ graph.entry \in visited \cup OnWorklist
  /\ \A b \in visited : ~IsReturnBlock(graph, b) =>
       ReachableSuccs(graph, b) \subseteq visited \cup OnWorklist

(* The search never leaves the blocks control can reach: code behind a      *)
(* return, or behind an edge the folded condition excludes, has no say.     *)
SearchSound == visited \cup OnWorklist \subseteq Reach(graph)

(* The two summaries the verdict is taken from describe the visited set,    *)
(* although a block may be popped several times: no return counted twice.   *)
SummariesExact ==
  /\ exit_reached <=> graph.exit \in visited
  /\ return_count = Cardinality({b \in visited : IsReturnBlock(graph, b)})

(* The check rejects exactly the non-void functions with a reachable path   *)
(* to the exit that passes no return, or with no reachable return.          *)
VerdictCorrect == result # "none" => result = Verdict(graph, is_void)

(* The search terminates although the graph has cycles. *)
Termination == <>(result # "none")
=============================================================================
