----------------------------- MODULE FlowGraph -----------------------------
(* The graphs the flow-sensitive checks of sema.cpp are given: what         *)
(* cfg_builder::build guarantees of every graph it returns.                 *)
EXTENDS Integers, FiniteSets, Sequences

Blocks(g)  == 0 .. g.entry
Succ(g, b) == g.basic_blocks[b].successor
Pred(g, b) == g.basic_blocks[b].predecessor
Stmts(g, b) == g.basic_blocks[b].stmts

(* The blocks an edge that was not folded away leads to, and all of them.   *)
ReachableSuccs(g, b) == {s \in Blocks(g) : <<s, TRUE>> \in Succ(g, b)}
Succs(g, b) == {s \in Blocks(g) : \E r \in BOOLEAN : <<s, r>> \in Succ(g, b)}
Preds(g, b) == {p \in Blocks(g) : \E r \in BOOLEAN : <<p, r>> \in Pred(g, b)}

(* stmts[0], the statement inserted first, is the last one of the block. *)
IsReturnBlock(g, b) == Stmts(g, b) # <<>> /\ Stmts(g, b)[1].k = "return"

IsItem(i, vars) ==
  CASE i.k = "decl"   -> i.var \in vars /\ i.initialized \in BOOLEAN
    [] i.k = "assign" -> i.var \in vars /\ i.is_mutable \in BOOLEAN
    [] i.k = "ref"    -> i.var \in vars
    [] OTHER          -> i.k \in STRING

(* Blocks 0 .. entry; the exit is block 0, leads nowhere and holds nothing; *)
(* the two directions of an edge agree; every other block leads somewhere.  *)
WellFormed(g, vars) ==
  /\ g.entry \in Nat /\ g.exit = 0 /\ g.entry # g.exit
  /\ DOMAIN g.basic_blocks = Blocks(g)
  /\ \A b \in Blocks(g) :
       /\ Succ(g, b) \subseteq Blocks(g) \X BOOLEAN
       /\ Pred(g, b) \subseteq Blocks(g) \X BOOLEAN
       /\ Len(Stmts(g, b)) \in Nat /\ DOMAIN Stmts(g, b) = 1 .. Len(Stmts(g, b))
       /\ \A i \in DOMAIN Stmts(g, b) : IsItem(Stmts(g, b)[i], vars)
  /\ \A a, b \in Blocks(g), r \in BOOLEAN :
       <<b, r>> \in Succ(g, a) <=> <<a, r>> \in Pred(g, b)
  /\ Pred(g, g.entry) = {} /\ Succ(g, g.exit) = {} /\ Stmts(g, g.exit) = <<>>
  /\ \A b \in Blocks(g) \ {g.exit} : Succs(g, b) # {}
=============================================================================
