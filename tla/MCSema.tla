------------------------------- MODULE MCSema -------------------------------
(* Name resolution held against lexical scoping by position.                *)
EXTENDS SemaCorrect, Elaboration

R == INSTANCE Constexpr

stod10(text) == IF text = "1" THEN R!One ELSE R!Zero

MCSetValue(e) == R!set_value(e)

(* A number function without statements fails its return check; no other    *)
(* flow error matters here.                                                 *)
MCFlowErrors(f) == ~f.is_void /\ f.body = <<>>

x == decl_ref_expr("x")
One == number_literal("1")
Huge == number_literal("huge")    \* some 400 digits
Call(id, args) == call_expr(decl_ref_expr(id), args)
Let(id, init) == decl_stmt(var_decl(id, <<>>, FALSE, init))
Var(id) == decl_stmt(var_decl(id, <<builtin_number>>, TRUE, <<>>))

(* f takes a number and returns one, main takes and returns nothing; the    *)
(* parser delivers no program without it.                                   *)
f == function_decl(1, "f", <<param_decl("p", builtin_number)>>, builtin_number, <<return_stmt(<<decl_ref_expr("p")>>)>>)
main == function_decl(3, "main", <<>>, builtin_void, <<return_stmt(<<>>), return_stmt(<<>>), One>>)
Program(params, t, body) == <<f, function_decl(2, "g", params, t, body), main>>

(* Expressions: right and wrong calls, operands, arguments.                 *)
Atoms == {One, x, decl_ref_expr("f"), Call("main", <<>>), Call("f", <<x>>)}
Exprs ==
  Atoms \cup {Call(c, <<e>>) : c \in {"f", "main", "x", "println"}, e \in Atoms}
  \cup {Call("f", <<e, One>>) : e \in Atoms} \cup {Call("f", <<Call("f", <<e>>)>>) : e \in Atoms}
  \cup {call_expr(One, <<>>), call_expr(grouping_expr(decl_ref_expr("main")), <<>>)}
  \cup {unary_op(e, "-") : e \in Atoms} \cup {grouping_expr(e) : e \in Atoms}
  \cup {binary_op(l, r, "+") : l \in Atoms, r \in Atoms}
  \cup {Huge, binary_op(x, Huge, "+"), Call("f", <<Huge>>)}

Types == {builtin_void, builtin_number, custom("t")}
Contexts(e) ==    \* every statement that has an expression
  {e, return_stmt(<<e>>), Let("y", <<e>>), assignment(x, e), assignment(decl_ref_expr("f"), e),
   assignment(decl_ref_expr("p"), e), if_stmt(e, <<e>>, <<<<e>>>>), while_stmt(e, <<>>)}
  \cup {decl_stmt(var_decl("y", <<t>>, TRUE, <<e>>)) : t \in Types}

Typing ==
  {Program(<<param_decl("p", builtin_number)>>, t, <<Let("x", <<One>>), s>>) :
     t \in {builtin_void, builtin_number}, s \in UNION {Contexts(e) : e \in Exprs}}

(* Bodies with shadowing, in blocks up to two levels deep.                  *)
Leaf == {Let("x", <<One>>), Let("x", <<x>>), Var("p"), Var("f"), x, Call("f", <<decl_ref_expr("p")>>), return_stmt(<<>>)}
Small == UNION {[1 .. m -> Leaf] : m \in 0 .. 1}
Pairs == [1 .. 2 -> Leaf]
Compounds == {if_stmt(x, a, <<b>>) : a \in Pairs, b \in Small} \cup {if_stmt(One, a, <<>>) : a \in Small}
Loops(blocks) == {while_stmt(decl_ref_expr("p"), b) : b \in blocks}
Nested == Loops({<<Var("x"), s>> : s \in Compounds}) \cup Loops(Pairs)

Scopes ==
  {Program(<<param_decl("p", builtin_number)>>, builtin_void, b) :
     b \in {<<a, c, x>> : a \in Leaf, c \in Compounds} \cup {<<c, d>> : c \in Nested, d \in Leaf}
           \cup [1 .. 3 -> Leaf]}

(* Signatures, with one main or two.                                        *)
ParamLists == {<<>>} \cup {<<param_decl("p", t)>> : t \in Types}
              \cup {<<param_decl("p", builtin_number), param_decl(id, builtin_number)>> : id \in {"p", "f"}}
Defined(ids) ==
  {function_decl(2, id, ps, t, b) :
     id \in ids, ps \in ParamLists, t \in Types, b \in {<<>>, <<return_stmt(<<>>)>>}}
Signatures == {<<f, g, main>> : g \in Defined({"f", "g", "main", "println"})} \cup {<<f, g>> : g \in Defined({"main"})}

AllPrograms == Typing \cup Scopes \cup Signatures
MCPrograms == AllPrograms
=============================================================================
