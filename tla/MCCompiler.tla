----------------------------- MODULE MCCompiler ----------------------------
(* Programs <<println, h, f, main>>: h prints its argument and returns it,  *)
(* main prints f(0) and f(1), and f has the bodies to be compared.          *)
EXTENDS Compiler, Programs

N0 == number_literal(Zero)
N1  == number_literal(One)
H(e)     == call_expr("h", <<set_value(e)>>)
Println(e) == expr_stmt(call_expr("println", <<set_value(e)>>))
Returning(e)   == return_stmt(<<set_value(e)>>)
Assign(d, e) == assignment(d, set_value(e))
Bin(op, l, r) == binary_op(op, l, r)
Get(d) == decl_ref_expr(d)

Program(body) ==
  <<function_decl("println", TRUE, <<"n">>, <<>>),
    function_decl("h", FALSE, <<"p">>, <<Println(Param), Returning(Param)>>),
    function_decl("f", FALSE, <<"p">>, body),
    function_decl("main", TRUE, <<>>,
      <<Println(call_expr("f", <<set_value(N0)>>)), Println(call_expr("f", <<set_value(N1)>>))>>)>>

(* Statements about a variable d: straight ones, and one if or while around *)
(* at most one of them.                                                     *)
Conds(d) ==
  {set_value(c) : c \in {Param, N1, unary_op("!", Param), Bin("<", Get(d), N1),
                         Bin("||", H(Param), Get(d)), Bin("&&", Get(d), H(Param))}}
Leaf(d) == {Assign(d, Bin("+", Param, N1)), Println(Get(d)), Returning(Get(d)), Returning(N0)}
Nested(d) == Leaf(d) \cup Compound(Conds(d), UpTo(1, Leaf(d)))

Decls == {var_decl("v", TRUE, <<>>), var_decl("v", TRUE, <<set_value(N0)>>),
          var_decl("l", FALSE, <<>>), var_decl("l", FALSE, <<set_value(N1)>>)}

FlowBodies ==
  UNION {{<<decl_stmt(d), s, t>> : s \in Nested(d), t \in {Println(Get(d)), Returning(Get(d))}} : d \in Decls}

(* Statements behind a return, inside branches and loops and behind them.   *)
Dead(d) == {<<Returning(N0), s>> : s \in Leaf(d)}
DeadBodies ==
  UNION {{<<decl_stmt(d), s, t>> :
            s \in Compound({set_value(Param), set_value(N1)}, Dead(d) \cup {<<l>> : l \in Leaf(d)}),
            t \in {Println(Get(d)), Returning(Get(d))}} : d \in Decls}
  \cup UNION {{<<decl_stmt(d), while_stmt(set_value(Param), <<if_stmt(set_value(Get(d)), b, <<>>), s>>), Returning(N0)>> :
            s \in Leaf(d), b \in Dead(d) \cup {<<l>> : l \in Leaf(d)}} : d \in Decls}

(* Expressions: every operator over a parameter, constants and a call.      *)
Atoms == {Param, N0, N1, H(Param), H(N1)}
Ops   == {"+", "-", "*", "<", ">", "==", "&&", "||"}
Flat  == {Bin(op, l, r) : op \in Ops, l \in Atoms, r \in Atoms}
         \cup {unary_op(op, e) : op \in {"!", "-"}, e \in Atoms}
Logical == {Bin(op, l, r) : op \in {"&&", "||"}, l \in {Param, H(Param), N1}, r \in {Param, H(N1), N0}}
Deep  == {Bin(op, l, r) : op \in {"&&", "||", "<"}, l \in Logical, r \in {Param, H(Param), N0}}
         \cup {Bin(op, l, grouping_expr(r)) : op \in {"&&", "||"}, l \in {Param, H(Param)}, r \in Logical}
         \cup {unary_op("!", grouping_expr(l)) : l \in Logical}

ExprBodies == {<<Returning(e)>> : e \in Flat \cup Deep}

AllPrograms == {Program(b) : b \in FlowBodies \cup DeadBodies \cup ExprBodies}
MCPrograms == AllPrograms
MCVars == {"v", "l"}
=============================================================================
