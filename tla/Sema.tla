-------------------------------- MODULE Sema --------------------------------
(* Name resolution (sema.cpp:141-452): resolve_ast declares every function, *)
(* then resolves the bodies, one statement per step.  The recursion over    *)
(* blocks is the stack, ret is what a finished block hands to the statement *)
(* around it; scopes are opened and closed with the blocks (scope_raii).    *)
EXTENDS Scopes, FiniteSets

CONSTANTS Programs,              \* what the parser may deliver
          ResolveExpr(_, _),     \* resolve_expr in the scopes
          FlowErrors(_)          \* flow_sensitive_checks of a resolved function

Listed(s) == Len(s) \in Nat /\ DOMAIN s = 1 .. Len(s)

ASSUME ProgramsAssumption ==
  \A p \in Programs : Listed(p) /\ \A n \in DOMAIN p : Listed(p[n].params)

VARIABLES ast, fn,        \* the function at work, 0 .. Len(ast) + 1
          phase,          \* "declare", "resolve" or "done"
          scopes, error,
          resolved_tree,  \* the functions, without the builtin println
          stack, ret,
          warned,         \* history: where "unreachable statement" was reported
          result

vars == <<ast, fn, phase, scopes, error, resolved_tree, stack, ret, warned, result>>

Init ==
  /\ ast \in Programs /\ fn = 1 /\ phase = "declare"
  /\ scopes = <<<<println>>>> /\ error = FALSE
  /\ resolved_tree = <<>> /\ stack = <<>> /\ ret = <<>>
  /\ warned = {} /\ result = "none"

-----------------------------------------------------------------------------
(* The first loop: signatures.                                              *)
Invalid(t) == t.kind = "custom"    \* resolve_type

BadMain(f) == f.identifier = "main" /\ (f.type.kind # "void" \/ f.params # <<>>)

BadParams(params) ==
  \E i \in DOMAIN params :
    \/ Invalid(params[i].type) \/ params[i].type.kind = "void"
    \/ \E j \in 1 .. (i - 1) : params[j].identifier = params[i].identifier

BadSignature(f) == Invalid(f.type) \/ BadMain(f) \/ BadParams(f.params)

DeclareFunction ==
  /\ phase = "declare" /\ fn <= Len(ast)
  /\ LET f == ast[fn]
         bad == BadSignature(f) \/ Redeclared(scopes, f.identifier)
     IN  /\ error' = (error \/ bad)
         /\ scopes' = IF bad THEN scopes
                      ELSE Insert(scopes, FnName(f.identifier, f.type.kind = "void", Len(f.params)))
  /\ fn' = fn + 1
  /\ UNCHANGED <<ast, phase, resolved_tree, stack, ret, warned, result>>

(* Slip: the builtin println counts as a function of the source. *)
EndDeclarationsZero ==
  /\ phase = "declare" /\ fn = Len(ast) + 1
  /\ fn' = 0
  /\ phase' = IF error THEN "done" ELSE "resolve"
  /\ result' = IF error THEN "failed" ELSE result
  /\ UNCHANGED <<ast, scopes, error, resolved_tree, stack, ret, warned>>

(* With an error here no body is looked at.                                 *)
EndDeclarations ==
  /\ phase = "declare" /\ fn = Len(ast) + 1
  /\ fn' = 1
  /\ phase' = IF error THEN "done" ELSE "resolve"
  /\ result' = IF error THEN "failed" ELSE result
  /\ UNCHANGED <<ast, scopes, error, resolved_tree, stack, ret, warned>>

-----------------------------------------------------------------------------
(* The second loop: bodies.  The frame of a block has its place, the index  *)
(* of the next statement, the resolved ones, and the counters of the code.  *)
(* A place is <<<<fn, 1>>, b, ...>>, every b the index of a statement and   *)
(* which of its blocks it is.                                               *)
Block(at, stmts) ==
  [k |-> "block", at |-> at, stmts |-> stmts, n |-> 1, done |-> <<>>,
   error |-> FALSE, unreachable_count |-> 0]

Top   == stack[Len(stack)]
Below == SubSeq(stack, 1, Len(stack) - 1)
cur   == ast[fn]

Params(i) == [n \in DOMAIN ast[i].params |-> Tree!param_decl(<<i, 0, n>>)]

Resolving == phase = "resolve" /\ result = "none"

BeginBody ==
  /\ Resolving /\ stack = <<>> /\ ret = <<>> /\ fn <= Len(ast)
  /\ scopes' = scopes \o <<[n \in DOMAIN cur.params |-> DeclName(cur.params[n].identifier, Params(fn)[n])], <<>>>>
  /\ stack' = <<Block(<<<<fn, 1>>>>, cur.body)>>
  /\ UNCHANGED <<ast, fn, phase, error, resolved_tree, ret, warned, result>>

(* A body comes back with the statements, or with a nullptr; the flow       *)
(* checks see only the former.                                              *)
EndBody ==
  /\ Resolving /\ stack = <<>> /\ ret # <<>>
  /\ LET f == Tree!function_decl(cur.identifier, cur.type.kind = "void",
                              [n \in DOMAIN cur.params |-> Params(fn)[n].name], ret[1].e)
     IN  IF ret[1].is = "null" THEN error' = TRUE /\ UNCHANGED resolved_tree
         ELSE /\ error' = (error \/ FlowErrors(f))
              /\ resolved_tree' = Append(resolved_tree, f)
  /\ scopes' = Front(scopes)
  /\ ret' = <<>> /\ fn' = fn + 1
  /\ UNCHANGED <<ast, phase, stack, warned, result>>

EndProgram ==
  /\ Resolving /\ stack = <<>> /\ ret = <<>> /\ fn = Len(ast) + 1
  /\ phase' = "done"
  /\ result' = IF error THEN "failed" ELSE "ok"
  /\ UNCHANGED <<ast, fn, scopes, error, resolved_tree, stack, ret, warned>>

(* Slip: a statement that resolves makes up for one that does not. *)
AfterForgets(block, r, is_return) ==
  [block EXCEPT !.n = @ + 1, !.error = (r.is # "ok"),
     !.done = IF r.is = "ok" THEN Append(@, r.e) ELSE @,
     !.unreachable_count = IF r.is # "ok" THEN @
       ELSE @ + (IF @ = 1 THEN 1 ELSE 0) + (IF is_return THEN 1 ELSE 0)]

(* Slip: the warning is not counted. *)
AfterRepeats(block, r, is_return) ==
  [block EXCEPT !.n = @ + 1, !.error = (@ \/ r.is # "ok"),
     !.done = IF r.is = "ok" THEN Append(@, r.e) ELSE @,
     !.unreachable_count = IF ~block.error /\ r.is = "ok" /\ is_return THEN @ + 1 ELSE @]

(* resolve_block behind one statement.  Once there was an error the block   *)
(* goes on for the sake of more errors, but warns no longer.                *)
Warns(block, r) == ~block.error /\ r.is = "ok" /\ block.unreachable_count = 1

After(block, r, is_return) ==
  [block EXCEPT !.n = @ + 1, !.error = (@ \/ r.is # "ok"),
     !.done = IF r.is = "ok" THEN Append(@, r.e) ELSE @,
     !.unreachable_count = IF block.error \/ r.is # "ok" THEN @
       ELSE @ + (IF Warns(block, r) THEN 1 ELSE 0) + (IF is_return THEN 1 ELSE 0)]

(* The statement at the head of the block stk ends in returns r.            *)
Resolved(stk, r, is_return) ==
  LET block == Last(stk)
  IN  IF r.is = "crash" THEN result' = "crashed" /\ UNCHANGED <<stack, warned>>
      ELSE /\ stack' = Append(Front(stk), After(block, r, is_return))
           /\ warned' = IF Warns(block, r) THEN warned \cup {<<block.at, block.n>>} ELSE warned
           /\ UNCHANGED result

-----------------------------------------------------------------------------
(* The statements without blocks.  A root of an expression has to be a      *)
(* number, and its value is cached.                                         *)
Root(r) ==
  IF r.is # "ok" THEN r
  ELSE IF r.is_void THEN nullptr ELSE Ok(SetValue(r.e), FALSE)

Node(r, node) == IF r.is = "ok" THEN Ok(node, FALSE) ELSE r

resolve_expr_stmt(r) == Node(r, Tree!expr_stmt(r.e))

resolve_condition(c) == Root(ResolveExpr(scopes, c))

(* The variable before the value; parameters cannot be assigned.            *)
resolve_assignment(s) ==
  LET found == lookupDecl(scopes, s.variable.identifier)
      rhs   == ResolveExpr(scopes, s.e)
      root  == Root(rhs)
  IN  IF found = <<>> \/ found[1].k = "fn" THEN nullptr
      ELSE IF rhs.is = "ok" /\ found[1].k = "param" THEN nullptr
      ELSE Node(root, Tree!assignment(found[1].decl, root.e))

resolve_return_stmt(s, is_void) ==
  LET root == Root(ResolveExpr(scopes, s.expr[1]))
  IN  IF is_void <=> s.expr # <<>> THEN nullptr
      ELSE IF s.expr = <<>> THEN Ok(Tree!return_stmt(<<>>), FALSE)
      ELSE Node(root, Tree!return_stmt(<<root.e>>))

(* A variable needs a type or an initializer, and is a number by both.  Its *)
(* name in the resolved tree is the place of its declaration.               *)
resolve_var_decl(var, at) ==
  LET init == ResolveExpr(scopes, var.initializer[1])
      root == Root(init)
  IN  IF var.type = <<>> /\ var.initializer = <<>> THEN nullptr
      ELSE IF var.initializer = <<>> THEN
        IF var.type[1].kind # "number" THEN nullptr ELSE Ok(Tree!var_decl(at, var.is_mutable, <<>>), FALSE)
      ELSE IF init.is = "ok" /\ var.type # <<>> /\ var.type[1].kind # "number" THEN nullptr
      ELSE Node(root, Tree!var_decl(at, var.is_mutable, <<root.e>>))

(* The name is there from the next statement on.                            *)
resolve_decl_stmt(s, var) ==
  IF var.is # "ok" THEN var
  ELSE IF Redeclared(scopes, s.var.identifier) THEN nullptr
  ELSE Ok(Tree!decl_stmt(var.e), FALSE)

AtStmt(kinds) ==
  /\ Resolving /\ ret = <<>> /\ stack # <<>>
  /\ Top.n <= Len(Top.stmts) /\ Top.stmts[Top.n].k \in kinds

stmt  == Top.stmts[Top.n]
place == <<Top.at, Top.n>>

ResolveExprStmt ==
  /\ AtStmt({"num", "ref", "call", "unop", "binop", "group"})
  /\ Resolved(stack, resolve_expr_stmt(ResolveExpr(scopes, stmt)), FALSE)
  /\ UNCHANGED <<ast, fn, phase, scopes, error, resolved_tree, ret>>

ResolveReturn ==
  /\ AtStmt({"return"})
  /\ Resolved(stack, resolve_return_stmt(stmt, cur.type.kind = "void"), TRUE)
  /\ UNCHANGED <<ast, fn, phase, scopes, error, resolved_tree, ret>>

ResolveAssignment ==
  /\ AtStmt({"assign"})
  /\ Resolved(stack, resolve_assignment(stmt), FALSE)
  /\ UNCHANGED <<ast, fn, phase, scopes, error, resolved_tree, ret>>

ResolveDecl ==
  /\ AtStmt({"decl"})
  /\ LET r == resolve_decl_stmt(stmt, resolve_var_decl(stmt.var, place))
     IN  /\ Resolved(stack, r, FALSE)
         /\ scopes' = IF r.is = "ok" THEN Insert(scopes, DeclName(stmt.var.identifier, r.e.var)) ELSE scopes
  /\ UNCHANGED <<ast, fn, phase, error, resolved_tree, ret>>

(* The condition of an if or while; then its first block.                   *)
BeginBlock(c, node, stmts) ==
  IF c.is # "ok" THEN Resolved(stack, c, FALSE) /\ UNCHANGED scopes
  ELSE /\ stack' = stack \o <<[k |-> node, condition |-> c.e], Block(Append(Top.at, <<Top.n, 1>>), stmts)>>
       /\ scopes' = Append(scopes, <<>>)
       /\ UNCHANGED <<warned, result>>

BeginIf ==
  /\ AtStmt({"if"})
  /\ BeginBlock(resolve_condition(stmt.condition), "if", stmt.true_block)
  /\ UNCHANGED <<ast, fn, phase, error, resolved_tree, ret>>

BeginWhile ==
  /\ AtStmt({"while"})
  /\ BeginBlock(resolve_condition(stmt.condition), "while", stmt.body)
  /\ UNCHANGED <<ast, fn, phase, error, resolved_tree, ret>>

(* Slip: a block in error leaves its scope behind. *)
EndBlockEarly ==
  /\ Resolving /\ ret = <<>> /\ stack # <<>> /\ Top.n = Len(Top.stmts) + 1
  /\ ret' = <<IF Top.error THEN nullptr ELSE Ok(Top.done, FALSE)>>
  /\ stack' = Below
  /\ scopes' = IF Top.error THEN scopes ELSE Front(scopes)
  /\ UNCHANGED <<ast, fn, phase, error, resolved_tree, warned, result>>

EndBlock ==
  /\ Resolving /\ ret = <<>> /\ stack # <<>> /\ Top.n = Len(Top.stmts) + 1
  /\ ret' = <<IF Top.error THEN nullptr ELSE Ok(Top.done, FALSE)>>
  /\ stack' = Below
  /\ scopes' = Front(scopes)
  /\ UNCHANGED <<ast, fn, phase, error, resolved_tree, warned, result>>

(* A block is done; Outer is the block around the statement it belongs to.  *)
Returned(k) == Resolving /\ ret # <<>> /\ stack # <<>> /\ Top.k = k
Outer == Last(Below)
Statement == Outer.stmts[Outer.n]

EndStmt(node) ==
  /\ Resolved(Below, IF ret[1].is = "null" THEN nullptr ELSE Ok(node, FALSE), FALSE)
  /\ ret' = <<>>
  /\ UNCHANGED <<ast, fn, phase, scopes, error, resolved_tree>>

EndWhile ==
  /\ Returned("while")
  /\ EndStmt(Tree!while_stmt(Top.condition, ret[1].e))

(* The false block is left out when the true one has failed.                *)
BeginElse ==
  /\ Returned("if") /\ ret[1].is = "ok" /\ Statement.false_block # <<>>
  /\ stack' = Below \o <<[k |-> "else", condition |-> Top.condition, true_block |-> ret[1].e],
                        Block(Append(Outer.at, <<Outer.n, 2>>), Statement.false_block[1])>>
  /\ scopes' = Append(scopes, <<>>)
  /\ ret' = <<>>
  /\ UNCHANGED <<ast, fn, phase, error, resolved_tree, warned, result>>

EndIf ==
  /\ Returned("if") /\ (ret[1].is = "null" \/ Statement.false_block = <<>>)
  /\ EndStmt(Tree!if_stmt(Top.condition, ret[1].e, <<>>))

EndElse ==
  /\ Returned("else")
  /\ EndStmt(Tree!if_stmt(Top.condition, Top.true_block, <<ret[1].e>>))

Next ==
  \/ DeclareFunction \/ EndDeclarations \/ BeginBody \/ EndBody \/ EndProgram
  \/ ResolveExprStmt \/ ResolveReturn \/ ResolveAssignment \/ ResolveDecl
  \/ BeginIf \/ BeginWhile \/ EndBlock \/ EndWhile \/ BeginElse \/ EndIf \/ EndElse

Spec == Init /\ [][Next]_vars

-----------------------------------------------------------------------------
(* The positions of the two loops, and the shape of the recursion.          *)
TypeOK ==
  /\ fn \in 1 .. Len(ast) + 1
  /\ phase \in {"declare", "resolve", "done"} /\ error \in BOOLEAN
  /\ Len(ret) <= 1 /\ Len(scopes) >= 1
  /\ \A n \in DOMAIN stack : stack[n].k \in {"block", "if", "else", "while"}
  /\ result \in {"none", "ok", "failed", "crashed"}

(* Scopes are opened and closed with the blocks through every early return: *)
(* one for the program, one for the parameters, and one per open block;     *)
(* none has two declarations of a name, so that the first one found is the  *)
(* only one.                                                                *)
ScopesMatchBlocks ==
  LET open == {n \in DOMAIN stack : stack[n].k = "block"}
      body == phase = "resolve" /\ (stack # <<>> \/ ret # <<>>)
  IN  /\ Len(scopes) = 1 + (IF body THEN 1 ELSE 0) + Cardinality(open)
      /\ \A s \in DOMAIN scopes : \A i, j \in DOMAIN scopes[s] :
           scopes[s][i].identifier = scopes[s][j].identifier => i = j

(* An error is reported and makes the result "failed": a name that is not   *)
(* found is no more than that, wherever it stands.                          *)
NeverCrashes == result # "crashed"
=============================================================================
