----------------------------- MODULE SemaCorrect -----------------------------
(* Name resolution held against scoping by position.  What is recursive     *)
(* over trees comes from outside, and all that is assumed of it are the     *)
(* equations that define it, on trees as the parser builds them.            *)
EXTENDS Sema, Scoping, Resolver

CONSTANTS Subexprs(_), Height(_)    \* the expressions in an expression, and how deep it is

(* The statements as the parser builds them.                                *)
Optional(s) == s = <<>> \/ s = <<s[1]>>

IsStmt(s) ==
  /\ s.k \in {"num", "ref", "call", "unop", "binop", "group", "return", "assign", "decl", "if", "while"}
  /\ s.k = "decl"   => Optional(s.var.type) /\ Optional(s.var.initializer)
  /\ s.k = "return" => Optional(s.expr)
  /\ s.k = "if"     => Optional(s.false_block)

(* The places are the bodies and the blocks inside a statement, no more.    *)
ASSUME BlocksAssumption ==
  \A p \in Programs :
    /\ \A i \in DOMAIN p : <<<<i, 1>>>> \in Blocks(p) /\ Stmts(p, <<<<i, 1>>>>) = p[i].body
    /\ \A at \in Blocks(p) :
         /\ Len(at) \in Nat /\ Listed(Stmts(p, at))
         /\ \A n \in DOMAIN Stmts(p, at) :
              /\ IsStmt(Stmts(p, at)[n])
              /\ \A m \in Inner(Stmts(p, at)[n]) :
                   /\ Append(at, <<n, m>>) \in Blocks(p)
                   /\ Stmts(p, Append(at, <<n, m>>)) = Part(Stmts(p, at)[n], m)
         /\ \/ \E i \in DOMAIN p : at = <<<<i, 1>>>>
            \/ \E outer \in Blocks(p) : \E n \in DOMAIN Stmts(p, outer) : \E m \in Inner(Stmts(p, outer)[n]) :
                 at = Append(outer, <<n, m>>) /\ Len(outer) < Len(at)

ExprsOf(s) ==
  CASE s.k = "decl"   -> ToSet(s.var.initializer)
    [] s.k = "assign" -> {s.e}
    [] s.k = "return" -> ToSet(s.expr)
    [] s.k \in {"if", "while"} -> {s.condition}
    [] OTHER -> {s}

(* An expression is a finite tree of the six kinds.                         *)
IsExpr(e) ==
  /\ e.k \in {"num", "ref", "call", "unop", "binop", "group"}
  /\ e.k = "call" => Listed(e.arguments)
  /\ Subexprs(e) = {e} \cup UNION {Subexprs(x) : x \in Parts(e)}
  /\ Height(e) \in Nat /\ \A x \in Parts(e) : Height(x) < Height(e)

ASSUME TreesAssumption ==
  \A p \in Programs : \A at \in Blocks(p) : \A n \in DOMAIN Stmts(p, at) :
    \A root \in ExprsOf(Stmts(p, at)[n]) :
      root \in Subexprs(root) /\ \A e \in Subexprs(root) : IsExpr(e) /\ Parts(e) \subseteq Subexprs(root)

(* The resolution, the type and the meaning of an expression are what the   *)
(* rules make of those of its operands.                                     *)
Unfolds(scps, p, at, n, e) ==
  /\ ResolveExpr(scps, e) = resolve_expr(scps, e, [x \in Parts(e) |-> ResolveExpr(scps, x)])
  /\ Type(p, at, n, e) = TypeRule(p, at, n, e, [x \in Parts(e) |-> Type(p, at, n, x)])
  /\ Type(p, at, n, e) # "none" =>
       Meant(p, at, n, e) = MeantRule(e, The(Meaning(p, at, n, e.identifier)).decl,
                                      [x \in Parts(e) |-> Meant(p, at, n, x)])

ASSUME UnfoldingAssumption ==
  \A p \in Programs : WellTypedSignatures(p) =>
    \A at \in Blocks(p) : \A n \in DOMAIN Stmts(p, at) : SoundAt(p, at, n) =>
      \A scps \in ScopesAt(p, at, n) : \A root \in ExprsOf(Stmts(p, at)[n]) :
        \A e \in Subexprs(root) : Unfolds(scps, p, at, n, e)

(* The resolved tree is made of the resolved statements.                    *)
ASSUME ElaboratedAssumption ==
  \A p \in Programs : WellTyped(p) =>
    \A at \in Blocks(p) : Elaborated(p, at) = [n \in DOMAIN Stmts(p, at) |-> ElaboratedStmt(p, at, n)]

-----------------------------------------------------------------------------
(* An expression has a literal that stod throws on; a statement has one in  *)
(* its own expressions; a program has one.                                  *)
Overflows(e) == \E x \in Subexprs(e) : x.k = "num" /\ x.value \in OutOfRange

OverflowsAt(p, at, n) == \E e \in ExprsOf(Stmts(p, at)[n]) : Overflows(e)

Overflowing(p) == \E at \in Blocks(p) : \E n \in DOMAIN Stmts(p, at) : OverflowsAt(p, at, n)

(* The result of resolving an expression is the tree and the type it has at *)
(* its place, or an error where it has none; there is none of the two where *)
(* it has no type either, or where stod throws.                             *)
Agrees(r, p, at, n, e) ==
  /\ r.is \in {"ok", "null", "crash"}
  /\ r.is = "ok" => /\ Type(p, at, n, e) = (IF r.is_void THEN "void" ELSE "number")
                    /\ r.is_void \in BOOLEAN /\ r.e = Meant(p, at, n, e) /\ ~Overflows(e)
  /\ r.is = "null" => Type(p, at, n, e) = "none" /\ r = nullptr
  /\ r.is = "crash" => Type(p, at, n, e) = "none" \/ Overflows(e)

(* No error so far, in any block.                                           *)
Clean ==
  /\ ~error /\ \A i \in DOMAIN stack : stack[i].k = "block" => ~stack[i].error
  /\ ret # <<>> => ret[1].is = "ok"

(* As long as there is no error, every statement is resolved in the scopes  *)
(* that belong to its place.                                                *)
ScopesAreLexical ==
  Clean /\ result = "none" /\ ret = <<>> /\ stack # <<>> => scopes \in ScopesAt(ast, Top.at, Top.n)

(* What is accepted is well-typed, has no flow error and no literal out of  *)
(* range, and what is rejected is not well-typed or has a flow error: no    *)
(* error gets lost between a block and the result, and an error does not    *)
(* spread to where there is none.  Only a literal out of range leaves a     *)
(* program without a verdict that would otherwise be accepted.              *)
AcceptsWellTyped ==
  LET fails == \E i \in DOMAIN resolved_tree : FlowErrors(resolved_tree[i])
  IN  /\ result = "ok" => WellTyped(ast) /\ ~fails /\ ~Overflowing(ast)
      /\ result = "failed" => ~WellTyped(ast) \/ fails
      /\ result = "crashed" => ~WellTyped(ast) \/ fails \/ Overflowing(ast)

(* The tree of what is accepted is the one that scoping by position gives,  *)
(* with every name bound to its declaration and every root evaluated.       *)
BindsLexically ==
  result = "ok" => resolved_tree = [i \in DOMAIN ast |-> ElaboratedFunction(ast, i)]

(* Of all that stands behind a return in a block, the first statement is    *)
(* warned about, and nothing else.                                          *)
WarnsOfUnreachable ==
  result = "ok" => warned = UNION {Unreachable(ast, at) : at \in Blocks(ast)}
=============================================================================
