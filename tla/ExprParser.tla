----------------------------- MODULE ExprParser -----------------------------
(* The expression half of the parser (parser.cpp:6-26, 172-203, 445-570),   *)
(* one level at a time: where a function calls one that may come back to    *)
(* it, the constants stand for what the call leaves behind.                 *)
EXTENDS Integers, Syntax, SequencesExt

CONSTANTS Expr(_, _),       \* parse_expr at a position
          Prefix(_, _),     \* parse_prefix_expr at a position
          Loop(_, _, _),    \* the loop of parse_expr_rhs at a position and precedence:
                            \* the operators it eats, with their right operands
          Args(_, _)        \* the loop of parse_arg_list at a position, with its ')'

tok_precedence(kind) ==
  CASE kind \in {"*", "/"} -> 6
    [] kind \in {"+", "-"} -> 5
    [] kind \in {"<", ">"} -> 4
    [] kind = "=="         -> 3
    [] kind = "&&"         -> 2
    [] kind = "||"         -> 1
    [] OTHER               -> -1

(* A list begins with x and goes on with what is read next.                 *)
Before(x, list) ==
  IF list.tree = <<>> THEN list ELSE Parsed(list.pos, <<x>> \o list.tree[1])

(* Behind the expression of a group: its ')'.                               *)
CloseGroup(tokens, e) ==
  IF e.tree = <<>> \/ Kind(tokens, e.pos) # ")" THEN Null(e.pos)
  ELSE Parsed(e.pos + 1, grouping_expr(e.tree[1]))

parse_primary(tokens, p) ==
  CASE Kind(tokens, p) = "Number"     -> Parsed(p + 1, number_literal(tokens[p]))
    [] Kind(tokens, p) = "Identifier" -> Parsed(p + 1, decl_ref_expr(tokens[p]))
    [] Kind(tokens, p) = "("          -> CloseGroup(tokens, Expr(tokens, p + 1))
    [] OTHER                          -> Null(p)

(* Arguments, position p behind the '(' or a ','.  A list may end in a ','. *)
NextArg(tokens, e) ==
  IF e.tree = <<>> THEN Null(e.pos)
  ELSE CASE Kind(tokens, e.pos) = "," -> Before(e.tree[1], Args(tokens, e.pos + 1))
         [] Kind(tokens, e.pos) = ")" -> Parsed(e.pos + 1, e.tree)
         [] OTHER -> Null(e.pos)

parse_args(tokens, p) ==
  IF Kind(tokens, p) = ")" THEN Parsed(p + 1, <<>>) ELSE NextArg(tokens, Expr(tokens, p))

CallOf(callee, args) ==
  IF args.tree = <<>> THEN args ELSE Parsed(args.pos, call_expr(callee, args.tree[1]))

(* One argument list at most: a call cannot be called.                      *)
parse_postfix_expr(tokens, p) ==
  LET e == parse_primary(tokens, p)
  IN  IF e.tree = <<>> \/ Kind(tokens, e.pos) # "(" THEN e
      ELSE CallOf(e.tree[1], Args(tokens, e.pos + 1))

UnaryOf(op, e) == IF e.tree = <<>> THEN e ELSE Parsed(e.pos, unary_op(e.tree[1], op))

parse_prefix_expr(tokens, p) ==
  IF Kind(tokens, p) \in {"-", "!"} THEN UnaryOf(tokens[p], Prefix(tokens, p + 1))
  ELSE parse_postfix_expr(tokens, p)

Operation(lhs, x) == binary_op(lhs, x.rhs, x.op)

parse_expr_rhs(tokens, lhs, precedence) ==
  LET read == Loop(tokens, lhs.pos, precedence)
  IN  IF read.tree = <<>> THEN read ELSE Parsed(read.pos, FoldLeft(Operation, lhs.tree[1], read.tree[1]))

(* Slip: operators of one precedence associate to the right.                *)
RightOperandRight(tokens, op, rhs) ==
  IF rhs.tree # <<>> /\ tok_precedence(op) <= tok_precedence(Kind(tokens, rhs.pos))
  THEN parse_expr_rhs(tokens, rhs, tok_precedence(op)) ELSE rhs

(* What binds tighter than op belongs to its right operand.                 *)
RightOperand(tokens, op, rhs) ==
  IF rhs.tree # <<>> /\ tok_precedence(op) < tok_precedence(Kind(tokens, rhs.pos))
  THEN parse_expr_rhs(tokens, rhs, tok_precedence(op) + 1) ELSE rhs

parse_loop(tokens, p, precedence) ==
  LET rhs == RightOperand(tokens, tokens[p], Prefix(tokens, p + 1))
  IN  IF tok_precedence(Kind(tokens, p)) < precedence THEN Parsed(p, <<>>)
      ELSE IF rhs.tree = <<>> THEN rhs
      ELSE Before([op |-> tokens[p], rhs |-> rhs.tree[1]], Loop(tokens, rhs.pos, precedence))

parse_expr(tokens, p) ==
  LET lhs == Prefix(tokens, p)
  IN  IF lhs.tree = <<>> THEN lhs ELSE parse_expr_rhs(tokens, lhs, 0)
=============================================================================
