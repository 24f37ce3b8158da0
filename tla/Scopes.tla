------------------------------- MODULE Scopes -------------------------------
(* The scopes of sema (sema.cpp:577-604) and what its functions return.  A  *)
(* name in a scope is a function, or the resolved declaration of a          *)
(* parameter or variable.                                                   *)
EXTENDS Syntax, SequencesExt

CONSTANTS SetValue(_),      \* an expression with its cached value
          stod(_)           \* std::stod of a number literal

Tree == INSTANCE Ast        \* the resolved tree

FnName(id, is_void, arity) == [k |-> "fn", identifier |-> id, is_void |-> is_void, arity |-> arity]
DeclName(id, decl) == [k |-> decl.k, identifier |-> id, decl |-> decl]

println == FnName("println", TRUE, 1)

Named(scope, id) == {j \in DOMAIN scope : scope[j].identifier = id}
First(S) == CHOOSE j \in S : \A n \in S : j <= n

(* The first declaration of the innermost scope that has one, or nothing.   *)
lookupDecl(scopes, id) ==
  LET found == {i \in DOMAIN scopes : Named(scopes[i], id) # {}}
      i == CHOOSE i \in found : \A n \in found : n <= i
  IN  IF found = {} THEN <<>> ELSE <<scopes[i][First(Named(scopes[i], id))]>>

(* insert_to_cur_scope fails on a name the innermost scope has already.     *)
Redeclared(scopes, id) == Named(Last(scopes), id) # {}

(* Slip: front() for back(). *)
InsertFront(scopes, d) == <<Append(Head(scopes), d)>> \o Tail(scopes)

Insert(scopes, d) == Front(scopes) \o <<Append(Last(scopes), d)>>

(* The operands of an expression; a callee is no expression of its own.     *)
Parts(e) ==
  CASE e.k = "unop"  -> {e.operand}
    [] e.k = "binop" -> {e.lhs, e.rhs}
    [] e.k = "group" -> {e.expr}
    [] e.k = "call"  -> ToSet(e.arguments)
    [] OTHER -> {}

-----------------------------------------------------------------------------
(* What a resolve_ function returns: a node, nullptr behind a reported      *)
(* error, or nothing because it has dereferenced a nullptr or thrown what   *)
(* nobody catches.                                                          *)
Ok(e, is_void) == [is |-> "ok", e |-> e, is_void |-> is_void]
nullptr == [is |-> "null"]
Crash   == [is |-> "crash"]
=============================================================================
