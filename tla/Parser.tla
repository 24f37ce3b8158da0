------------------------------- MODULE Parser -------------------------------
(* The parser from source files down to statements (parser.cpp:28-170,      *)
(* 205-443, 481-500, 572-589), with panic-mode recovery.  The recursion of  *)
(* the functions is the stack; ret is what the one on top has returned to   *)
(* the one below: a tree as a sequence of one, or the statements of a block. *)
(* Expressions are read by the functions of ExprParser.                     *)
EXTENDS ExprParser

CONSTANT Sources          \* the token sequences to be parsed

ASSUME SourcesAssumption == \A source \in Sources : source \in Seq(STRING) /\ "Eof" \notin ToSet(source)

(* The recursive functions are what their calls of each other make them.    *)
ASSUME UnfoldingAssumption ==
  \A source \in Sources : \A p \in 1 .. Len(source) + 1 :
    /\ Expr(source, p) = parse_expr(source, p)
    /\ Prefix(source, p) = parse_prefix_expr(source, p)
    /\ Args(source, p) = parse_args(source, p)
    /\ \A precedence \in 0 .. 7 : Loop(source, p, precedence) = parse_loop(source, p, precedence)

VARIABLES tokens, pos,     \* next_token is the one at pos
          incomplete_ast,
          reported,        \* history: an error has been reported
          stack, ret,
          mode, braces,    \* "parse", "sync" (synchronize) or "sync_on" ('fn')
          functions, result

vars == <<tokens, pos, incomplete_ast, reported, stack, ret, mode, braces, functions, result>>

kind == Kind(tokens, pos)

None     == [is |-> "none"]
nullptr  == [is |-> "null"]
Value(v) == [is |-> "value", v |-> v]

Block == [k |-> "block", stmts |-> <<>>]

Init ==
  /\ tokens \in Sources /\ pos = 1
  /\ incomplete_ast = FALSE /\ reported = FALSE
  /\ stack = <<>> /\ ret = None
  /\ mode = "parse" /\ braces = 0
  /\ functions = <<>> /\ result = "none"

Top   == stack[Len(stack)]
Below == SubSeq(stack, 1, Len(stack) - 1)

Parsing == mode = "parse" /\ result = "none"
Running(k) == Parsing /\ ret.is = "none" /\ stack # <<>> /\ Top.k = k
Returned(k) == Parsing /\ ret.is = "value" /\ stack # <<>> /\ Top.k = k

(* The function on top goes on at position p with the stack stk.            *)
Go(p, stk) == pos' = p /\ stack' = stk /\ ret' = None /\ UNCHANGED reported

(* The function on top reports an error, or passes on a nullptr of one it   *)
(* has called for a piece of itself, and returns to the stack stk.          *)
Fail(p, stk) == pos' = p /\ stack' = stk /\ ret' = nullptr /\ reported' = TRUE

Return(p, stk, v) == pos' = p /\ stack' = stk /\ ret' = Value(v) /\ UNCHANGED reported

(* A statement read in one go.                                              *)
Answer(r) ==
  IF r.tree = <<>> THEN Fail(r.pos, stack) ELSE Return(r.pos, stack, r.tree)

quiet == <<tokens, incomplete_ast, mode, braces, functions, result>>

-----------------------------------------------------------------------------
(* parse_source_file, the bottom of the stack.                              *)
AtTop == Parsing /\ stack = <<>>

synchronize_on ==
  /\ incomplete_ast' = TRUE /\ mode' = "sync_on"
  /\ ret' = None
  /\ UNCHANGED <<tokens, pos, stack, braces, functions, result>>

NotAFunction ==
  /\ AtTop /\ ret.is = "none" /\ kind \notin {"fn", "Eof"}
  /\ reported' = TRUE
  /\ synchronize_on

(* Slip: the recovery goes on at the next token, and forgets the error.     *)
FunctionFailedForgets ==
  /\ AtTop /\ ret.is = "null"
  /\ mode' = "sync_on" /\ ret' = None
  /\ UNCHANGED <<tokens, pos, stack, braces, functions, result, incomplete_ast, reported>>

FunctionFailed ==
  /\ AtTop /\ ret.is = "null"
  /\ synchronize_on /\ UNCHANGED reported

FunctionParsed ==
  /\ AtTop /\ ret.is = "value"
  /\ functions' = functions \o ret.v
  /\ ret' = None
  /\ UNCHANGED <<tokens, pos, incomplete_ast, reported, stack, mode, braces, result>>

HasMain == \E i \in DOMAIN functions : functions[i].identifier = "main"

EndOfFile ==
  /\ AtTop /\ ret.is = "none" /\ kind = "Eof"
  /\ result' = IF ~incomplete_ast /\ HasMain THEN "ok" ELSE "failed"
  /\ reported' = (reported \/ (~incomplete_ast /\ ~HasMain))
  /\ UNCHANGED <<tokens, pos, incomplete_ast, stack, ret, mode, braces, functions>>

-----------------------------------------------------------------------------
(* Functions and parameters.                                                *)
parse_type(p) ==
  CASE Kind(tokens, p) = "void"       -> Parsed(p + 1, builtin_void)
    [] Kind(tokens, p) = "number"     -> Parsed(p + 1, builtin_number)
    [] Kind(tokens, p) = "Identifier" -> Parsed(p + 1, custom(tokens[p]))
    [] OTHER                          -> Null(p)

(* The first of the kinds expected from p on that is not there.             *)
Miss(p, kinds) ==
  LET wrong == {i \in DOMAIN kinds : Kind(tokens, p + i - 1) # kinds[i]}
  IN  IF wrong = {} THEN 0 ELSE CHOOSE i \in wrong : \A j \in wrong : i <= j

BeginFunction ==
  /\ AtTop /\ ret.is = "none" /\ kind = "fn"
  /\ LET miss == Miss(pos, <<"fn", "Identifier", "(">>)
     IN  IF miss # 0 THEN Fail(pos + miss - 1, <<>>)
         ELSE Go(pos + 3, <<[k |-> "fn", loc |-> pos, identifier |-> tokens[pos + 1], params |-> <<>>]>>)
  /\ UNCHANGED quiet

(* A parameter, and the ',' behind it; a list may end in a ','.             *)
ParseParam ==
  /\ Running("fn") /\ kind # ")"
  /\ LET miss == Miss(pos, <<"Identifier", ":">>)
         t    == parse_type(pos + 2)
         read == [Top EXCEPT !.params = Append(@, param_decl(tokens[pos], t.tree[1]))]
     IN  IF miss # 0 THEN Fail(pos + miss - 1, <<>>)
         ELSE IF t.tree = <<>> THEN Fail(t.pos, <<>>)
         ELSE CASE Kind(tokens, t.pos) = "," -> Go(t.pos + 1, <<read>>)
                [] Kind(tokens, t.pos) = ")" -> Go(t.pos, <<read>>)
                [] OTHER -> Fail(t.pos, <<>>)
  /\ UNCHANGED quiet

(* ')' ':' type '{', and the body begins.                                   *)
EndParams ==
  /\ Running("fn") /\ kind = ")"
  /\ LET t    == parse_type(pos + 2)
         head == [k |-> "body", loc |-> Top.loc, identifier |-> Top.identifier, params |-> Top.params,
                 type |-> t.tree[1]]
     IN  IF Kind(tokens, pos + 1) # ":" THEN Fail(pos + 1, <<>>)
         ELSE IF t.tree = <<>> \/ Kind(tokens, t.pos) # "{" THEN Fail(t.pos, <<>>)
         ELSE Go(t.pos + 1, <<head, Block>>)
  /\ UNCHANGED quiet

EndFunction ==
  /\ Returned("body")
  /\ Return(pos, <<>>, <<function_decl(Top.loc, Top.identifier, Top.params, Top.type, ret.v)>>)
  /\ UNCHANGED quiet

-----------------------------------------------------------------------------
(* Blocks.                                                                  *)
EndBlock ==
  /\ Running("block") /\ kind = "}"
  /\ Return(pos + 1, Below, Top.stmts)
  /\ UNCHANGED quiet

(* Slip: the next function does not end the block.                          *)
UnclosedBlockAtEof ==
  /\ Running("block") /\ kind = "Eof"
  /\ Fail(pos, Below)
  /\ UNCHANGED quiet

UnclosedBlock ==
  /\ Running("block") /\ kind \in {"Eof", "fn"}
  /\ Fail(pos, Below)
  /\ UNCHANGED quiet

StatementParsed ==
  /\ Returned("block")
  /\ Go(pos, Append(Below, [Top EXCEPT !.stmts = @ \o ret.v]))
  /\ UNCHANGED quiet

StatementFailed ==
  /\ Parsing /\ ret.is = "null" /\ stack # <<>> /\ Top.k = "block"
  /\ incomplete_ast' = TRUE /\ mode' = "sync" /\ braces' = 0
  /\ ret' = None
  /\ UNCHANGED <<tokens, pos, reported, stack, functions, result>>

eat_next == pos' = pos + 1

Resume(p) == pos' = p /\ mode' = "parse" /\ UNCHANGED braces
Skip(n)   == eat_next /\ braces' = n /\ UNCHANGED mode

skipping == <<tokens, incomplete_ast, reported, stack, ret, functions, result>>

(* synchronize, token by token: to the end of the statement, over blocks.   *)
SynchronizeTo(stops) ==
  /\ mode = "sync"
  /\ CASE kind = "{" -> Skip(braces + 1)
       [] kind = "}" /\ braces = 0 -> Resume(pos)
       [] kind = "}" /\ braces = 1 -> Resume(pos + 1)
       [] kind = "}" /\ braces > 1 -> Skip(braces - 1)
       [] kind = ";" /\ braces = 0 -> Resume(pos + 1)
       [] kind \in stops -> Resume(pos)
       [] OTHER -> Skip(braces)
  /\ UNCHANGED skipping

(* Slips: a function, or the end of the file, does not end the recovery.    *)
SynchronizeOverFn   == SynchronizeTo({"Eof"})
SynchronizeOverEof  == SynchronizeTo({"fn"})

Synchronize == SynchronizeTo({"fn", "Eof"})

SynchronizeOn ==
  /\ mode = "sync_on"
  /\ IF kind \in {"fn", "Eof"} THEN Resume(pos) ELSE Skip(braces)
  /\ UNCHANGED skipping

-----------------------------------------------------------------------------
(* Statements without blocks.                                               *)
(* Slip: the ';' may be missing.                                            *)
SemiOptional(r) ==
  IF Kind(tokens, r.pos) # ";" \/ r.tree = <<>> THEN r
  ELSE Parsed(r.pos + 1, r.tree[1])

Semi(r) ==
  IF r.tree = <<>> THEN r
  ELSE IF Kind(tokens, r.pos) # ";" THEN Null(r.pos)
  ELSE Parsed(r.pos + 1, r.tree[1])

(* parse_assignment_or_expr eats the ';' even behind a nullptr.             *)
SemiAnyhow(r) ==
  IF Kind(tokens, r.pos) # ";" THEN Null(r.pos) ELSE [pos |-> r.pos + 1, tree |-> r.tree]

Map(r, node(_)) == IF r.tree = <<>> THEN r ELSE Parsed(r.pos, node(r.tree[1]))

parse_return_stmt(p) ==
  IF Kind(tokens, p + 1) = ";" THEN Parsed(p + 2, return_stmt(<<>>))
  ELSE Semi(Map(Expr(tokens, p + 1), LAMBDA e : return_stmt(<<e>>)))

Initialized(id, t, is_mutable, p) ==
  IF Kind(tokens, p) # "=" THEN Parsed(p, var_decl(id, t, is_mutable, <<>>))
  ELSE Map(Expr(tokens, p + 1), LAMBDA e : var_decl(id, t, is_mutable, <<e>>))

parse_var_decl(p, is_mutable) ==
  LET t == parse_type(p + 2)
  IN  IF Kind(tokens, p + 1) # ":" THEN Initialized(tokens[p], <<>>, is_mutable, p + 1)
      ELSE IF t.tree = <<>> THEN t
      ELSE Initialized(tokens[p], t.tree, is_mutable, t.pos)

parse_decl_stmt(p) ==
  IF Kind(tokens, p + 1) # "Identifier" THEN Null(p + 1)
  ELSE Semi(Map(parse_var_decl(p + 1, Kind(tokens, p) = "var"), decl_stmt))

parse_assignment_or_expr(p) ==
  LET lhs == Prefix(tokens, p)
  IN  IF lhs.tree = <<>> THEN lhs
      ELSE IF Kind(tokens, lhs.pos) # "=" THEN SemiAnyhow(parse_expr_rhs(tokens, lhs, 0))
      ELSE IF lhs.tree[1].k # "ref" THEN Null(lhs.pos)
      ELSE SemiAnyhow(Map(Expr(tokens, lhs.pos + 1), LAMBDA e : assignment(lhs.tree[1], e)))

ParseReturn ==
  /\ Running("block") /\ kind = "return"
  /\ Answer(parse_return_stmt(pos)) /\ UNCHANGED quiet

ParseDecl ==
  /\ Running("block") /\ kind \in {"let", "var"}
  /\ Answer(parse_decl_stmt(pos)) /\ UNCHANGED quiet

ParseAssignmentOrExpr ==
  /\ Running("block") /\ kind \notin {"}", "Eof", "fn", "if", "while", "return", "let", "var"}
  /\ Answer(parse_assignment_or_expr(pos)) /\ UNCHANGED quiet

-----------------------------------------------------------------------------
(* Statements with blocks.  A condition and the '{' behind it:              *)
BeginBlock(p, stk, frame(_)) ==
  LET c == Expr(tokens, p)
  IN  IF c.tree = <<>> \/ Kind(tokens, c.pos) # "{" THEN Fail(c.pos, stk)
      ELSE Go(c.pos + 1, stk \o <<frame(c.tree[1]), Block>>)

IfFrame(c)    == [k |-> "if", condition |-> c]
WhileFrame(c) == [k |-> "while", condition |-> c]

BeginIf ==
  /\ Running("block") /\ kind = "if"
  /\ BeginBlock(pos + 1, stack, IfFrame) /\ UNCHANGED quiet

BeginWhile ==
  /\ Running("block") /\ kind = "while"
  /\ BeginBlock(pos + 1, stack, WhileFrame) /\ UNCHANGED quiet

EndWhile ==
  /\ Returned("while")
  /\ Return(pos, Below, <<while_stmt(Top.condition, ret.v)>>) /\ UNCHANGED quiet

(* The true block is there: the end of the statement, an else, or else if.  *)
ElseFrame == [k |-> "else", condition |-> Top.condition, true_block |-> ret.v]

EndTrueBlock ==
  /\ Returned("if") /\ kind # "else"
  /\ Return(pos, Below, <<if_stmt(Top.condition, ret.v, <<>>)>>) /\ UNCHANGED quiet

BeginElse ==
  /\ Returned("if") /\ kind = "else" /\ Kind(tokens, pos + 1) # "if"
  /\ IF Kind(tokens, pos + 1) = "{"
       THEN Go(pos + 2, Below \o <<ElseFrame, Block>>)
       ELSE Fail(pos + 1, Below)
  /\ UNCHANGED quiet

BeginElseIf ==
  /\ Returned("if") /\ kind = "else" /\ Kind(tokens, pos + 1) = "if"
  /\ BeginBlock(pos + 2, Append(Below, ElseFrame), IfFrame)
  /\ UNCHANGED quiet

(* The false block, or the block made of the statement behind else.         *)
EndElse ==
  /\ Returned("else")
  /\ Return(pos, Below, <<if_stmt(Top.condition, Top.true_block, <<ret.v>>)>>) /\ UNCHANGED quiet

(* A nullptr ends the statements and the function around it.                *)
PassOn ==
  /\ Parsing /\ ret.is = "null" /\ stack # <<>> /\ Top.k # "block"
  /\ Fail(pos, Below) /\ UNCHANGED quiet

(* The steps that read an expression, and where they are taken.             *)
ReadStep ==
  \/ ParseReturn \/ ParseDecl \/ ParseAssignmentOrExpr
  \/ BeginIf \/ BeginWhile \/ BeginElseIf

AtRead ==
  \/ Running("block") /\ kind \notin {"}", "Eof", "fn"}
  \/ Returned("if") /\ kind = "else" /\ Kind(tokens, pos + 1) = "if"

OtherStep ==
  \/ NotAFunction \/ FunctionFailed \/ FunctionParsed \/ EndOfFile
  \/ BeginFunction \/ ParseParam \/ EndParams \/ EndFunction
  \/ EndBlock \/ UnclosedBlock \/ StatementParsed \/ StatementFailed
  \/ Synchronize \/ SynchronizeOn
  \/ EndWhile \/ EndTrueBlock \/ BeginElse \/ EndElse \/ PassOn

Next == ReadStep \/ OtherStep

Spec == Init /\ [][Next]_vars
(* One thread parses the file.  The second conjunct is WF_vars(ReadStep),   *)
(* which is enabled at AtRead, in a form that does not ask TLC for ENABLED. *)
FairSpec == Spec /\ WF_vars(OtherStep) /\ ([]<>~AtRead \/ []<><<ReadStep>>_vars)

-----------------------------------------------------------------------------
Frames == {"fn", "body", "block", "if", "else", "while"}

(* The types.  Whatever is wrong with a source, its Eof is never eaten: the *)
(* lexer would go on behind the end of the text.                            *)
TypeOK ==
  /\ pos \in 1 .. Len(tokens) + 1
  /\ {incomplete_ast, reported} \subseteq BOOLEAN
  /\ \A n \in DOMAIN stack : stack[n].k \in Frames
  /\ ret.is \in {"none", "null", "value"}
  /\ mode \in {"parse", "sync", "sync_on"}
  /\ braces \in 0 .. Len(tokens)
  /\ result \in {"none", "ok", "failed"}

(* No reported error is lost on its way through the nullptrs and recoveries *)
(* to the result, and no failure is silent.                                 *)
NoErrorLost == result # "none" => (result = "failed") = reported

(* Every source is parsed to its end, whatever is wrong with it.            *)
Termination == <>(result # "none")
=============================================================================
