------------------------------ MODULE Meaning ------------------------------
(* What a resolved program means: a direct evaluation of its syntax tree,   *)
(* the reference the emitted code is held against.  A state is              *)
(* [is, v, ret, env, out, fuel]: is = "run" while nothing is wrong, "ret"   *)
(* behind a return, "stuck" where the program has no meaning, "long" when   *)
(* it outlives its fuel; v is the value of the last expression, ret the     *)
(* value returned.                                                          *)
EXTENDS Ast, SequencesExt

True(x) == ~FEq(x, Zero)

Result(st, x) == [st EXCEPT !.v = <<x>>]
Stuck(st)     == [st EXCEPT !.is = "stuck"]
Spend(st)     == IF st.fuel = 0 THEN [st EXCEPT !.is = "long"]
                 ELSE [st EXCEPT !.fuel = @ - 1]

(* The variables of the running call: absent, or the value of each. *)
Bind(env, d, x) == [n \in DOMAIN env \cup {d} |-> IF n = d THEN x ELSE env[n]]

Operator(op, x, y) ==
  CASE op = "+" -> FAdd(x, y) [] op = "-" -> FSub(x, y)
    [] op = "*" -> FMul(x, y) [] op = "/" -> FDiv(x, y)
    [] op = "<" -> Double(FLt(x, y)) [] op = ">" -> Double(FLt(y, x))
    [] op = "==" -> Double(FEq(x, y))

RECURSIVE Value(_, _, _), Args(_, _, _, _), Apply(_, _, _, _), Exec(_, _, _)

(* The values of the arguments from i on, one after the other. *)
Args(prog, args, i, r) ==
  IF i > Len(args) \/ r.st.is # "run" THEN r
  ELSE LET st == Value(prog, args[i], r.st)
       IN  Args(prog, args, i + 1, [st |-> st, xs |-> r.xs \o st.v])

(* An expression.  && and || evaluate their right operand only when the     *)
(* left one does not decide.                                                *)
Value(prog, e, st) ==
  IF st.is # "run" THEN st
  ELSE CASE e.k = "num"   -> Result(st, e.value)
         [] e.k = "group" -> Value(prog, e.expr, st)
         [] e.k = "ref"   -> IF e.decl.name \in DOMAIN st.env /\ st.env[e.decl.name] # <<>>
                               THEN Result(st, st.env[e.decl.name][1]) ELSE Stuck(st)
         [] e.k = "unop"  ->
              LET s == Value(prog, e.operand, st)
              IN  IF s.is # "run" THEN s
                  ELSE Result(s, IF e.op = "-" THEN FNeg(s.v[1]) ELSE Double(~True(s.v[1])))
         [] e.k = "binop" ->
              LET l == Value(prog, e.lhs, st)
                  r == Value(prog, e.rhs, l)
              IN  IF l.is # "run" THEN l
                  ELSE IF e.op \in {"&&", "||"} /\ True(l.v[1]) = (e.op = "||")
                    THEN Result(l, Double(e.op = "||"))
                  ELSE IF r.is # "run" THEN r
                  ELSE Result(r, IF e.op \in {"&&", "||"} THEN Double(True(r.v[1]))
                                 ELSE Operator(e.op, l.v[1], r.v[1]))
         [] e.k = "call"  ->
              LET a == Args(prog, e.arguments, 1, [st |-> st, xs |-> <<>>])
              IN  IF a.st.is # "run" THEN a.st
                  ELSE IF e.callee = "println"
                    THEN [a.st EXCEPT !.out = Append(@, a.xs[1])]
                  ELSE Apply(prog, e.callee, a.xs, a.st)

(* A call: a number function that returns no number is stuck. *)
Apply(prog, id, xs, st) ==
  LET fn == SelectSeq(prog, LAMBDA f : f.identifier = id)[1]
      s  == Exec(prog, fn.body,
                 [Spend(st) EXCEPT !.env = [p \in ToSet(fn.params) |->
                    <<xs[CHOOSE i \in DOMAIN xs : fn.params[i] = p]>>]])
  IN  CASE s.is \in {"stuck", "long"} -> s
        [] s.is = "run" /\ ~fn.is_void -> Stuck(s)
        [] OTHER -> [s EXCEPT !.is = "run", !.env = st.env,
                              !.v = IF fn.is_void THEN <<>> ELSE s.ret]

(* A block.  A declaration makes the variable new; a let is assigned once.  *)
Exec(prog, stmts, st) ==
  IF stmts = <<>> \/ st.is # "run" THEN st
  ELSE LET s    == Head(stmts)
           then == CASE s.k = "decl" /\ s.var.initializer = <<>> ->
                          [st EXCEPT !.env = Bind(@, s.var.name, <<>>)]
                     [] s.k = "decl" /\ s.var.initializer # <<>> ->
                          LET x == Value(prog, s.var.initializer[1], st)
                          IN  [x EXCEPT !.env = Bind(@, s.var.name, x.v)]
                     [] s.k = "assign" ->
                          LET x == Value(prog, s.e, st)
                          IN  IF s.var.is_mutable \/ x.env[s.var.name] = <<>>
                                THEN [x EXCEPT !.env = Bind(@, s.var.name, x.v)]
                                ELSE Stuck(x)
                     [] s.k = "expr" -> Value(prog, s.e, st)
                     [] s.k = "return" /\ s.expr = <<>> -> [st EXCEPT !.is = "ret"]
                     [] s.k = "return" /\ s.expr # <<>> ->
                          LET x == Value(prog, s.expr[1], st)
                          IN  IF x.is = "run" THEN [x EXCEPT !.is = "ret", !.ret = x.v] ELSE x
                     [] s.k = "if" ->
                          LET c == Value(prog, s.condition, st)
                          IN  IF c.is # "run" THEN c
                              ELSE IF True(c.v[1]) THEN Exec(prog, s.true_block, c)
                              ELSE IF s.false_block = <<>> THEN c
                              ELSE Exec(prog, s.false_block[1], c)
                     [] s.k = "while" ->
                          LET c == Value(prog, s.condition, Spend(st))
                          IN  IF c.is # "run" \/ ~True(c.v[1]) THEN c
                              ELSE Exec(prog, <<s>>, Exec(prog, s.body, c))
       IN  Exec(prog, Tail(stmts), then)

(* A run of main that makes at most fuel calls and turns of loops. *)
Run(prog, fuel) ==
  Apply(prog, "main", <<>>, [is |-> "run", v |-> <<>>, ret |-> <<>>, env |-> <<>>,
                             out |-> <<>>, fuel |-> fuel])
=============================================================================
