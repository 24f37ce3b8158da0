----------------------------- MODULE Elaboration -----------------------------
(* The reference for name resolution goes over whole trees: the blocks of a *)
(* program, the meaning and type of its expressions, the resolved tree.  So *)
(* does the resolution of expressions itself.                               *)
EXTENDS Scoping, Resolver

RECURSIVE SubexprsOf(_), HeightOf(_), ResolvedBy(_, _)

SubexprsOf(e) == {e} \cup UNION {SubexprsOf(x) : x \in Parts(e)}
HeightOf(e)   == IF Parts(e) = {} THEN 0 ELSE 1 + Max({HeightOf(x) : x \in Parts(e)})

ResolvedBy(scps, e) == resolve_expr(scps, e, [x \in Parts(e) |-> ResolvedBy(scps, x)])

-----------------------------------------------------------------------------
RECURSIVE StmtsOf(_, _), Within(_, _), DeclOf(_, _, _, _), MeantBy(_, _, _, _), TypeOf(_, _, _, _), ElaboratedBy(_, _)

StmtsOf(p, at) ==
  IF Len(at) = 1 THEN p[at[1][1]].body
  ELSE Part(StmtsOf(p, Front(at))[Last(at)[1]], Last(at)[2])

(* The places in a block, its own among them.                               *)
Within(p, at) ==
  {at} \cup UNION {UNION {Within(p, Append(at, <<n, m>>)) : m \in Inner(StmtsOf(p, at)[n])} :
                    n \in DOMAIN StmtsOf(p, at)}

BlocksOf(p) == UNION {Within(p, <<<<fn, 1>>>>) : fn \in DOMAIN p}

(* The declaration a name refers to, from the block it is in outwards.      *)
DeclOf(p, at, n, id) ==
  LET here == Declaring(p, at, n, id)
      m   == First(here)
      var == StmtsOf(p, at)[m].var
  IN  IF here # {} THEN
        Tree!var_decl(<<at, m>>, var.is_mutable,
          [i \in DOMAIN var.initializer |-> SetValue(MeantBy(p, at, m, var.initializer[i]))])
      ELSE IF Len(at) > 1 THEN DeclOf(p, Front(at), Last(at)[1], id)
      ELSE Parameter(p, at[1][1], First(ParamsNamed(p, at[1][1], id))).decl

MeantBy(p, at, n, e) ==
  MeantRule(e, IF e.k = "ref" THEN DeclOf(p, at, n, e.identifier) ELSE <<>>,
            [x \in Parts(e) |-> MeantBy(p, at, n, x)])

TypeOf(p, at, n, e) == TypeRule(p, at, n, e, [x \in Parts(e) |-> TypeOf(p, at, n, x)])

ElaboratedBy(p, at) ==
  [n \in DOMAIN StmtsOf(p, at) |->
     Form(p, at, n, [m \in Inner(StmtsOf(p, at)[n]) |-> ElaboratedBy(p, Append(at, <<n, m>>))])]
=============================================================================
