------------------------------ MODULE Scoping ------------------------------
(* Reference for name resolution: what a name means at a place of a program *)
(* by position alone, which programs are well-typed, and the resolved tree  *)
(* of those.  A place is that of a block, <<<<fn, 1>>, <<n, m>>, ...>>: the *)
(* m-th block of the n-th statement of ... of the body of function fn.      *)
(* Statements and blocks are dealt with here; what recursion over a tree    *)
(* gives comes from outside (Elaboration).                                  *)
EXTENDS Scopes, FiniteSets

CONSTANTS Blocks(_),            \* the places of a program
          Stmts(_, _),          \* the statements of the block at a place
          Meant(_, _, _, _),    \* an expression of statement n there with its names replaced
          Type(_, _, _, _),     \* its type: "number", "void", or "none" if it has none
          Elaborated(_, _)      \* the resolved statements of the block

(* The blocks of a statement.                                               *)
Inner(s) ==
  IF s.k = "while" THEN {1} ELSE IF s.k = "if" THEN 1 .. (1 + Len(s.false_block)) ELSE {}

Part(s, m) == IF s.k = "while" THEN s.body ELSE IF m = 1 THEN s.true_block ELSE s.false_block[1]

(* Around statement n of the block at a place are the block at every prefix *)
(* of the place and its statement at an index.                              *)
Around(at, d)   == SubSeq(at, 1, d)
Index(at, n, d) == IF d = Len(at) THEN n ELSE at[d + 1][1]

-----------------------------------------------------------------------------
(* The declarations of a block in front of an index.                        *)
Declarations(p, at, n) == {m \in 1 .. (n - 1) : Stmts(p, at)[m].k = "decl"}
Declaring(p, at, n, id) == {m \in Declarations(p, at, n) : Stmts(p, at)[m].var.identifier = id}

ParamsNamed(p, fn, id) == {i \in DOMAIN p[fn].params : p[fn].params[i].identifier = id}
FunctionsNamed(p, id)  == {i \in DOMAIN p : p[i].identifier = id}

Variable(p, at, n) ==
  LET var == Stmts(p, at)[n].var
  IN  DeclName(var.identifier,
        Tree!var_decl(<<at, n>>, var.is_mutable,
          [i \in DOMAIN var.initializer |-> SetValue(Meant(p, at, n, var.initializer[i]))]))

Parameter(p, fn, i) == DeclName(p[fn].params[i].identifier, Tree!param_decl(<<fn, 0, i>>))
Function(f)         == FnName(f.identifier, f.type.kind = "void", Len(f.params))

(* What id means in statement n of the block at a place, if anything: what  *)
(* the innermost block that declares it in front says.                      *)
Meaning(p, at, n, id) ==
  LET depths == {d \in DOMAIN at : Declaring(p, Around(at, d), Index(at, n, d), id) # {}}
      d  == CHOOSE d \in depths : \A c \in depths : c <= d
      ps == ParamsNamed(p, at[1][1], id)
      fs == FunctionsNamed(p, id)
  IN  IF depths # {} THEN
        {Variable(p, Around(at, d), First(Declaring(p, Around(at, d), Index(at, n, d), id)))}
      ELSE IF ps # {} THEN {Parameter(p, at[1][1], First(ps))}
      ELSE IF fs # {} THEN {Function(p[First(fs)])}
      ELSE IF id = "println" THEN {println}
      ELSE {}

The(S) == CHOOSE x \in S : TRUE

-----------------------------------------------------------------------------
(* The type of an expression from the types of its operands, and its        *)
(* meaning from theirs; decl is the declaration that a name refers to.      *)
AllNumbers(e, types) == \A x \in Parts(e) : types[x] = "number"

Calls(p, at, n, e) ==
  /\ e.callee.k = "ref"
  /\ \E f \in Meaning(p, at, n, e.callee.identifier) : f.k = "fn" /\ f.arity = Len(e.arguments)

TypeRule(p, at, n, e, types) ==
  CASE e.k = "num"   -> "number"
    [] e.k = "ref"   -> IF \E d \in Meaning(p, at, n, e.identifier) : d.k # "fn" THEN "number" ELSE "none"
    [] e.k = "group" -> types[e.expr]
    [] e.k \in {"unop", "binop"} -> IF AllNumbers(e, types) THEN "number" ELSE "none"
    [] e.k = "call"  ->
         IF ~(Calls(p, at, n, e) /\ AllNumbers(e, types)) THEN "none"
         ELSE IF The(Meaning(p, at, n, e.callee.identifier)).is_void THEN "void" ELSE "number"

MeantRule(e, decl, trees) ==
  CASE e.k = "num"   -> Tree!number_literal(stod(e.value))
    [] e.k = "ref"   -> Tree!decl_ref_expr(decl)
    [] e.k = "group" -> Tree!grouping_expr(trees[e.expr])
    [] e.k = "unop"  -> Tree!unary_op(e.op, trees[e.operand])
    [] e.k = "binop" -> Tree!binary_op(e.op, trees[e.lhs], trees[e.rhs])
    [] e.k = "call"  -> Tree!call_expr(e.callee.identifier,
                          [i \in DOMAIN e.arguments |-> SetValue(trees[e.arguments[i]])])

-----------------------------------------------------------------------------
(* Well-typed programs.                                                     *)
Number(p, at, n, es) == \A e \in es : Type(p, at, n, e) = "number"

WellTypedStmt(p, at, n) ==
  LET s == Stmts(p, at)[n]
  IN  /\ s.k = "decl" => /\ Number(p, at, n, ToSet(s.var.initializer))
                         /\ \A t \in ToSet(s.var.type) : t.kind = "number"
                         /\ s.var.type # <<>> \/ s.var.initializer # <<>>
                         /\ Declaring(p, at, n, s.var.identifier) = {}
      /\ s.k = "assign" => /\ \E d \in Meaning(p, at, n, s.variable.identifier) : d.k = "var"
                           /\ Number(p, at, n, {s.e})
      /\ s.k = "return" => /\ Number(p, at, n, ToSet(s.expr))
                           /\ (p[at[1][1]].type.kind = "void") <=> (s.expr = <<>>)
      /\ s.k \in {"if", "while"} => Number(p, at, n, {s.condition})
      /\ s.k \notin {"decl", "assign", "return", "if", "while"} => Type(p, at, n, s) # "none"

WellTypedSignature(p, fn) ==
  LET f == p[fn]
  IN  /\ f.type.kind # "custom" /\ (f.identifier = "main" => f.type.kind = "void" /\ f.params = <<>>)
      /\ f.identifier # "println" /\ FunctionsNamed(p, f.identifier) = {fn}
      /\ \A i \in DOMAIN f.params : f.params[i].type.kind \notin {"void", "custom"}
                                    /\ ParamsNamed(p, fn, f.params[i].identifier) = {i}

WellTypedSignatures(p) == \A fn \in DOMAIN p : WellTypedSignature(p, fn)

WellTyped(p) ==
  /\ WellTypedSignatures(p)
  /\ \A at \in Blocks(p) : \A n \in DOMAIN Stmts(p, at) : WellTypedStmt(p, at, n)

-----------------------------------------------------------------------------
(* The resolved form of a statement around its resolved blocks, and where a *)
(* block has a statement right behind its first return.                     *)
Form(p, at, n, blocks) ==
  LET s == Stmts(p, at)[n]
      root(e) == SetValue(Meant(p, at, n, e))
  IN  CASE s.k = "decl"   -> Tree!decl_stmt(Variable(p, at, n).decl)
        [] s.k = "assign" -> Tree!assignment(The(Meaning(p, at, n, s.variable.identifier)).decl, root(s.e))
        [] s.k = "return" -> Tree!return_stmt([i \in DOMAIN s.expr |-> root(s.expr[i])])
        [] s.k = "if"     -> Tree!if_stmt(root(s.condition), blocks[1], [i \in DOMAIN s.false_block |-> blocks[2]])
        [] s.k = "while"  -> Tree!while_stmt(root(s.condition), blocks[1])
        [] OTHER          -> Tree!expr_stmt(Meant(p, at, n, s))

ElaboratedStmt(p, at, n) ==
  Form(p, at, n, [m \in Inner(Stmts(p, at)[n]) |-> Elaborated(p, Append(at, <<n, m>>))])

ElaboratedFunction(p, fn) ==
  Tree!function_decl(p[fn].identifier, p[fn].type.kind = "void",
                     [i \in DOMAIN p[fn].params |-> <<fn, 0, i>>], Elaborated(p, <<<<fn, 1>>>>))

Unreachable(p, at) ==
  {<<at, n>> : n \in {n \in DOMAIN Stmts(p, at) :
     /\ n > 1 /\ Stmts(p, at)[n - 1].k = "return"
     /\ \A m \in 1 .. (n - 2) : Stmts(p, at)[m].k # "return"}}

-----------------------------------------------------------------------------
(* The scopes around statement n of the block at a place: the functions,    *)
(* the parameters, and of every block around its declarations in front, in  *)
(* any order.                                                               *)
Globals(p)        == <<println>> \o [i \in DOMAIN p |-> Function(p[i])]
Parameters(p, fn) == [i \in DOMAIN p[fn].params |-> Parameter(p, fn, i)]
Locals(p, at, n)  == {Variable(p, at, m) : m \in Declarations(p, at, n)}

Listings(S) == {s \in [1 .. Cardinality(S) -> S] : \A x \in S : \E i \in DOMAIN s : s[i] = x}

ScopesAt(p, at, n) ==
  LET listings(d) == Listings(Locals(p, Around(at, d), Index(at, n, d)))
      locals == {s \in [DOMAIN at -> UNION {listings(d) : d \in DOMAIN at}] :
                   \A d \in DOMAIN at : s[d] \in listings(d)}
  IN  {[i \in 1 .. (Len(at) + 2) |->
          IF i = 1 THEN Globals(p) ELSE IF i = 2 THEN Parameters(p, at[1][1]) ELSE s[i - 2]] : s \in locals}

(* What is declared there is well-typed.                                    *)
SoundAt(p, at, n) ==
  \A d \in DOMAIN at : \A m \in Declarations(p, Around(at, d), Index(at, n, d)) : WellTypedStmt(p, Around(at, d), m)
=============================================================================
