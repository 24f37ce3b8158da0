--------------------------- MODULE StructuredFlow ---------------------------
(* What the two flow checks should find in a function, read off its syntax  *)
(* tree without a graph, a worklist or sweeps: where control can fall       *)
(* through and where it returns, and what is known of every variable in     *)
(* front of every statement.                                                *)
EXTENDS Constexpr, FiniteSets

CONSTANT Vars

(* A condition may take a side unless its folded value excludes it.         *)
May(c, side) ==
  LET val == evaluate(c, TRUE)
  IN  val = <<>> \/ to_bool(val) = <<side>>

-----------------------------------------------------------------------------
(* A block, from its first statement on, can be left at its end, or has a   *)
(* return that can be reached.                                              *)
RECURSIVE Falls(_), Returns(_)

Else(s) == IF s.false_block = <<>> THEN <<>> ELSE s.false_block[1]

FallsStmt(s) ==
  CASE s.k = "return" -> FALSE
    [] s.k = "if"     -> \/ May(s.condition, TRUE) /\ Falls(s.true_block)
                         \/ May(s.condition, FALSE) /\ Falls(Else(s))
    [] s.k = "while"  -> May(s.condition, FALSE)
    [] OTHER          -> TRUE

Falls(stmts) == \A n \in DOMAIN stmts : FallsStmt(stmts[n])

ReturnsStmt(s) ==
  CASE s.k = "return" -> TRUE
    [] s.k = "if"     -> \/ May(s.condition, TRUE) /\ Returns(s.true_block)
                         \/ May(s.condition, FALSE) /\ Returns(Else(s))
    [] s.k = "while"  -> May(s.condition, TRUE) /\ Returns(s.body)
    [] OTHER          -> FALSE

Returns(stmts) ==
  \E n \in DOMAIN stmts : ReturnsStmt(stmts[n]) /\ Falls(SubSeq(stmts, 1, n - 1))

(* A number function must return, and must not end without.                 *)
MissesReturn(f) == ~f.is_void /\ (Falls(f.body) \/ ~Returns(f.body))

-----------------------------------------------------------------------------
(* Of a variable is known how control can have come here: past an           *)
(* assignment, past a declaration without one, both, or, behind a return,   *)
(* not at all.  Conditions count both ways.                                 *)
Nowhere == [v \in Vars |-> {}]
Join(a, b) == [v \in Vars |-> a[v] \cup b[v]]

RECURSIVE Reads(_)
Reads(e) ==
  CASE e.k = "ref"   -> IF e.decl.k = "var" THEN {e.decl.name} ELSE {}
    [] e.k = "call"  -> UNION {Reads(e.arguments[n]) : n \in DOMAIN e.arguments}
    [] e.k = "group" -> Reads(e.expr)
    [] e.k = "unop"  -> Reads(e.operand)
    [] e.k = "binop" -> Reads(e.lhs) \cup Reads(e.rhs)
    [] OTHER         -> {}

Known(known, e) == \A v \in Reads(e) : known[v] = {"assigned"}

Opt(known, opt) == opt # <<>> => Known(known, opt[1])

(* What is known behind the statements, and whether all in them is in order.*)
RECURSIVE Behind(_, _), InOrder(_, _)

(* The turns of a loop begin with what is known in front of it or behind    *)
(* its body: a second turn adds nothing.                                    *)
Turn(s, known) == Join(known, Behind(s.body, known))

BehindStmt(s, known) ==
  CASE s.k = "decl"   -> [known EXCEPT ![s.var.name] = IF s.var.initializer = <<>> THEN {"unassigned"} ELSE {"assigned"}]
    [] s.k = "assign" -> [known EXCEPT ![s.var.name] = {"assigned"}]
    [] s.k = "return" -> Nowhere
    [] s.k = "if"     -> Join(Behind(s.true_block, known), Behind(Else(s), known))
    [] s.k = "while"  -> Turn(s, known)
    [] OTHER          -> known

Behind(stmts, known) ==
  IF stmts = <<>> THEN known ELSE Behind(Tail(stmts), BehindStmt(Head(stmts), known))

InOrderStmt(s, known) ==
  CASE s.k = "decl"   -> Opt(known, s.var.initializer)
    [] s.k = "assign" -> Known(known, s.e) /\ (s.var.is_mutable \/ known[s.var.name] = {"unassigned"})
    [] s.k = "return" -> Opt(known, s.expr)
    [] s.k = "if"     -> /\ Known(known, s.condition)
                         /\ InOrder(s.true_block, known) /\ InOrder(Else(s), known)
    [] s.k = "while"  -> Known(Turn(s, known), s.condition) /\ InOrder(s.body, Turn(s, known))
    [] s.k = "expr"   -> Known(known, s.e)

InOrder(stmts, known) ==
  stmts = <<>> \/ (InOrderStmt(Head(stmts), known) /\ InOrder(Tail(stmts), BehindStmt(Head(stmts), known)))

MisusesVariable(f) == ~InOrder(f.body, Nowhere)
=============================================================================
