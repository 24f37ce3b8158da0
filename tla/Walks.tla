------------------------------- MODULE Walks -------------------------------
(* What the initialization check is for: a function it has accepted runs.   *)
(* A run is a walk through the graph from the entry on, whichever way the   *)
(* conditions go, and keeps for each variable what has become of it.        *)
EXTENDS InitCheck

VARIABLES at, left,    \* the statement to be run next
          store        \* "undeclared", "unassigned" or "assigned"

walk     == <<at, left, store>>
walkVars == <<vars, walk>>

Fates == {"undeclared", "unassigned", "assigned"}

WalkInit ==
  /\ Init
  /\ at = graph.entry /\ left = Len(Stmts(graph, at))
  /\ store = [v \in Vars |-> "undeclared"]

Check == Next /\ UNCHANGED walk

Walking == result = "ok" /\ at # graph.exit

next_stmt == Stmts(graph, at)[left]

RunStmt ==
  /\ Walking /\ left > 0
  /\ store' = [v \in Vars |->
                 IF next_stmt.k = "decl" /\ next_stmt.var = v
                   THEN IF next_stmt.initialized THEN "assigned" ELSE "unassigned"
                 ELSE IF next_stmt.k = "assign" /\ next_stmt.var = v THEN "assigned"
                 ELSE store[v]]
  /\ left' = left - 1
  /\ UNCHANGED <<vars, at>>

(* On to a successor, be the edge folded away or not.                       *)
LeaveBlock ==
  /\ Walking /\ left = 0
  /\ at' \in Succs(graph, at) /\ left' = Len(Stmts(graph, at'))
  /\ UNCHANGED <<vars, store>>

WalkNext == Check \/ RunStmt \/ LeaveBlock

WalkSpec == WalkInit /\ [][WalkNext]_walkVars
(* The check is one thread, which runs until it returns.                    *)
FairWalkSpec == WalkSpec /\ WF_walkVars(Check)

(* No run of an accepted function reads a variable that is not assigned, or *)
(* assigns a let a second time, through however many turns of its loops.    *)
(* That a declaration comes before all uses is what scoping sees to.        *)
AcceptedRunsSafe ==
  Walking /\ left > 0 =>
    /\ next_stmt.k = "ref" => store[next_stmt.var] # "unassigned"
    /\ next_stmt.k = "assign" /\ ~next_stmt.is_mutable => store[next_stmt.var] # "assigned"
=============================================================================
