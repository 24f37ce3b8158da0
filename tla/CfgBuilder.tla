----------------------------- MODULE CfgBuilder ----------------------------
(* The control flow graph of a function body (cfg.h, cfg.cpp).  A graph is  *)
(* [basic_blocks, entry, exit] with basic_blocks a function on 0 .. n-1, as *)
(* the vector is.  Building threads a pair [g |-> graph, b |-> block]       *)
(* through the statements, last statement first.                            *)
EXTENDS Constexpr, FiniteSets, TLC

size(g) == Cardinality(DOMAIN g.basic_blocks)

insert_end(g) ==
  [g EXCEPT !.basic_blocks = @ @@
     (size(g) :> [predecessor |-> {}, successor |-> {}, stmts |-> <<>>])]

insert_edge(g, from, to, reachable) ==
  [g EXCEPT !.basic_blocks[from].successor = @ \cup {<<to, reachable>>},
            !.basic_blocks[to].predecessor = @ \cup {<<from, reachable>>}]

insert_before(g, before, reachable) ==
  [g |-> insert_edge(insert_end(g), size(g), before, reachable), b |-> size(g)]

(* What the flow checks read of the statement a block points at. *)
Item(s, loc) ==
  LET of(k) == [k |-> k, loc |-> loc]
  IN  CASE s.k = "decl"   -> [k |-> "decl", var |-> s.var.name, loc |-> loc,
                              initialized |-> s.var.initializer # <<>>]
        [] s.k = "assign" -> [k |-> "assign", var |-> s.var.name, loc |-> loc,
                              is_mutable |-> s.var.is_mutable]
        [] s.k = "ref" /\ s.decl.k = "var" ->
                             [k |-> "ref", var |-> s.decl.name, loc |-> loc]
        [] s.k = "ref" /\ s.decl.k = "param" -> of("param")
        [] OTHER          -> of(s.k)

push_stmt(g, s, b, loc) ==
  [g EXCEPT !.basic_blocks[b].stmts = Append(@, Item(s, loc))]

is_terminator(s) == s.k \in {"if", "while", "return"}

-----------------------------------------------------------------------------
(* An expression goes in before its operands, the right one first: the      *)
(* block read backwards is the evaluation order.                            *)
RECURSIVE insert_expr(_, _, _, _), insert_args(_, _, _, _)

insert_args(g, args, b, loc) ==
  IF args = <<>> THEN g
  ELSE insert_args(insert_expr(g, args[Len(args)], b, Append(loc, Len(args))),
                   SubSeq(args, 1, Len(args) - 1), b, loc)

insert_expr(g, e, b, loc) ==
  LET g1 == push_stmt(g, e, b, loc)
  IN  CASE e.k = "call"  -> insert_args(g1, e.arguments, b, loc)
        [] e.k = "group" -> insert_expr(g1, e.expr, b, Append(loc, 1))
        [] e.k = "unop"  -> insert_expr(g1, e.operand, b, Append(loc, 1))
        [] e.k = "binop" -> insert_expr(insert_expr(g1, e.rhs, b, Append(loc, 2)),
                                        e.lhs, b, Append(loc, 1))
        [] OTHER         -> g1

insert_optional(g, opt, b, loc) ==
  IF opt = <<>> THEN g ELSE insert_expr(g, opt[1], b, Append(loc, 0))

(* Slip: the return goes on with the block it was given. *)
insert_return_stmtFalls(g, s, b, loc) ==
  LET r == insert_before(g, b, TRUE)
  IN  [g |-> insert_optional(push_stmt(r.g, s, r.b, loc), s.expr, r.b, loc),
       b |-> r.b]

(* The return statement gets a block of its own in front of the exit; the   *)
(* block it was given is dropped.                                           *)
insert_return_stmt(g, s, b, loc) ==
  LET r == insert_before(g, g.exit, TRUE)
  IN  [g |-> insert_optional(push_stmt(r.g, s, r.b, loc), s.expr, r.b, loc),
       b |-> r.b]

(* An edge is reachable unless the folded condition excludes it.            *)
TrueEdge(val)  == val = <<>> \/ ~FEq(val[1], Zero)
FalseEdge(val) == val = <<>> \/ FEq(val[1], Zero)

RECURSIVE insert_block(_, _, _, _, _, _), insert_stmt(_, _, _, _)

insert_if_stmt(g, s, exit, loc) ==
  LET f     == IF s.false_block = <<>> THEN [g |-> g, b |-> exit]
               ELSE LET blk == s.false_block[1]
                    IN  insert_block(g, blk, Len(blk), exit, TRUE, Append(loc, 2))
      t     == insert_block(f.g, s.true_block, Len(s.true_block), exit, TRUE,
                            Append(loc, 1))
      entry == size(t.g)
      val   == evaluate(s.condition, TRUE)
      g1    == insert_edge(insert_end(t.g), entry, t.b, TrueEdge(val))
      g2    == insert_edge(g1, entry, f.b, FalseEdge(val))
  IN  [g |-> insert_expr(push_stmt(g2, s, entry, loc), s.condition, entry, Append(loc, 0)),
       b |-> entry]

insert_while_stmt(g, s, exit, loc) ==
  LET latch  == size(g)
      body   == insert_block(insert_end(g), s.body, Len(s.body), latch, TRUE,
                             Append(loc, 1))
      header == size(body.g)
      val    == evaluate(s.condition, TRUE)
      g1     == insert_edge(insert_end(body.g), latch, header, TRUE)
      g2     == insert_edge(g1, header, body.b, TrueEdge(val))
      g3     == insert_edge(g2, header, exit, FalseEdge(val))
  IN  [g |-> insert_expr(push_stmt(g3, s, header, loc), s.condition, header,
                         Append(loc, 0)),
       b |-> header]

insert_stmt(g, s, b, loc) ==
  CASE s.k = "if"     -> insert_if_stmt(g, s, b, loc)
    [] s.k = "while"  -> insert_while_stmt(g, s, b, loc)
    [] s.k = "return" -> insert_return_stmt(g, s, b, loc)
    [] s.k = "expr"   -> [g |-> insert_expr(g, s.e, b, loc), b |-> b]
    [] s.k = "assign" -> [g |-> insert_expr(push_stmt(g, s, b, loc), s.e, b,
                                            Append(loc, 0)), b |-> b]
    [] s.k = "decl"   -> [g |-> insert_optional(push_stmt(g, s, b, loc),
                                                s.var.initializer, b, loc), b |-> b]

(* stmts[i], stmts[i-1], ... stmts[1] in front of block succ.  A simple     *)
(* statement that follows a loop, or ends the block, opens a new block.     *)
insert_block(g, stmts, i, succ, insert_new_block, loc) ==
  IF i = 0 THEN [g |-> g, b |-> succ]
  ELSE LET s    == stmts[i]
           at   == IF insert_new_block /\ ~is_terminator(s)
                     THEN insert_before(g, succ, TRUE)
                     ELSE [g |-> g, b |-> succ]
           done == insert_stmt(at.g, s, at.b, Append(loc, i))
       IN  insert_block(done.g, stmts, i - 1, done.b, s.k = "while", loc)

build(body) ==
  LET empty == [basic_blocks |-> <<>>, entry |-> -1, exit |-> 0]
      first == insert_block(insert_end(empty), body, Len(body), 0, TRUE, <<>>)
      last  == insert_before(first.g, first.b, TRUE)
  IN  [last.g EXCEPT !.entry = last.b]
=============================================================================
