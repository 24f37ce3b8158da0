------------------------------ MODULE Dataflow -----------------------------
(* What check_variable_initialization (sema.cpp:58-139) promises: a lattice *)
(* of initialization states for every block is relaxed, in any order, until *)
(* it solves the flow equations; the errors are read off the solution.      *)
EXTENDS FlowGraph

CONSTANT Vars

(* A std::map from variables to states as a total function: "absent" is a   *)
(* variable without an entry.                                               *)
States  == {"absent", "bottom", "unassigned", "assigned", "top"}
Lattice == [Vars -> States]
Empty   == [v \in Vars |-> "absent"]

VARIABLES graph, cur_lattices,
          result, errors    \* the verdict and the places it reports

vars == <<graph, cur_lattices, result, errors>>

(* Least upper bound of the entries found in a set of maps. *)
JoinAll(S) ==
  LET proper == S \ {"absent", "bottom"}
  IN  IF S \subseteq {"absent"} THEN "absent"
      ELSE IF proper = {} THEN "bottom"
      ELSE IF proper = {"unassigned"} THEN "unassigned"
      ELSE IF proper = {"assigned"} THEN "assigned"
      ELSE "top"

(* The state of v before the first statement of block b: all predecessors   *)
(* count, those behind folded edges as well.                                *)
In(g, lat, b, v) == JoinAll({lat[p][v] : p \in Preds(g, b)})

Writes(s, v) == s.k \in {"decl", "assign"} /\ s.var = v
Reads(s, v)  == s.k = "ref" /\ s.var = v
Effect(s)    == IF s.k = "decl" /\ ~s.initialized THEN "unassigned" ELSE "assigned"

(* Statements are visited from the last index down.  Of those above i the   *)
(* one that wrote v last has the effect e.                                  *)
LastWrite(g, b, i, v, e) ==
  \E j \in (i + 1) .. Len(Stmts(g, b)) :
    /\ Writes(Stmts(g, b)[j], v) /\ Effect(Stmts(g, b)[j]) = e
    /\ \A k \in (i + 1) .. Len(Stmts(g, b)) : Writes(Stmts(g, b)[k], v) => j <= k

WasRead(g, b, i, v) ==
  \E j \in (i + 1) .. Len(Stmts(g, b)) : Reads(Stmts(g, b)[j], v)

(* The state of v when statement i of b is about to be visited: a read of a *)
(* variable without an entry creates one.                                   *)
At(g, lat, b, i, v) ==
  IF LastWrite(g, b, i, v, "assigned") THEN "assigned"
  ELSE IF LastWrite(g, b, i, v, "unassigned") THEN "unassigned"
  ELSE IF In(g, lat, b, v) = "absent" /\ WasRead(g, b, i, v) THEN "bottom"
  ELSE In(g, lat, b, v)

Out(g, lat, b) == [v \in Vars |-> At(g, lat, b, 0, v)]

(* A read needs an assigned variable, a let may be assigned once.           *)
Faulty(s, state) ==
  \/ s.k = "ref" /\ state # "assigned"
  \/ s.k = "assign" /\ ~s.is_mutable /\ state # "unassigned"

HasVar(s) == s.k \in {"decl", "assign", "ref"}

IsError(g, lat, b, j) ==
  LET s == Stmts(g, b)[j]
  IN  HasVar(s) /\ Faulty(s, At(g, lat, b, j, s.var))

Inner(g) == Blocks(g) \ {g.exit}

AllErrors(g, lat) ==
  UNION {{<<b, j>> : j \in {j \in DOMAIN Stmts(g, b) : IsError(g, lat, b, j)}} : b \in Inner(g)}

Solved(g, lat) == \A b \in Inner(g) : lat[b] = Out(g, lat, b)

Init ==
  /\ WellFormed(graph, Vars)
  /\ cur_lattices = [b \in Blocks(graph) |-> Empty]
  /\ result = "none"
  /\ errors = {}

Relax(b) ==
  /\ result = "none"
  /\ cur_lattices' = [cur_lattices EXCEPT ![b] = Out(graph, cur_lattices, b)]
  /\ UNCHANGED <<graph, result, errors>>

Stop ==
  /\ result = "none"
  /\ Solved(graph, cur_lattices)
  /\ errors' = AllErrors(graph, cur_lattices)
  /\ result' = IF errors' = {} THEN "ok" ELSE "error"
  /\ UNCHANGED <<graph, cur_lattices>>

Next == Stop \/ \E b \in Inner(graph) : Relax(b)

Spec == Init /\ [][Next]_vars
=============================================================================
