# TLA+ model of the yl compiler

yl-compiler translates a small language (functions, numbers, `var`/`let`, `if`,
`while`, `return`) to LLVM IR and has clang turn that into an executable. This
directory models it in TLA+, checks the model with TLC on small instances, and
proves theorems about its lexer, its parser, its name resolution, its two flow
analyses and its driver with TLAPS. Paths below are relative to the repository.

## 1. The system

| component | code | state it keeps | operations |
|---|---|---|---|
| driver | `src/main.cpp` | the options, a temporary `.ll` file and the stream into it | parse, resolve, dump or emit, run clang, remove the file |
| lexer | `src/lexer.cpp`, `include/lexer.h` | position in the text, line, column | `next_token`, `eat_next` |
| parser | `src/parser.cpp` | one token of lookahead, `incomplete_ast` | one `parse_` function per construct, `synchronize`, `synchronize_on` |
| syntax trees | `include/ast.h`, `src/ast.cpp` | the unresolved and the resolved tree; a folded value per expression | construction, dumps |
| name resolution, types | `src/sema.cpp` 141-604 | the stack of scopes, the current function | one `resolve_` function per construct, `lookupDecl`, `insert_to_cur_scope` |
| return check | `src/sema.cpp` 15-56 | visited set, worklist, two summaries | a depth-first search |
| initialization check | `src/sema.cpp` 58-139 | a lattice per block, pending errors | sweeps over the blocks to a fixed point |
| constant evaluator | `src/constexpr.cpp` | none | `evaluate`, with or without side effects allowed |
| graph builder | `src/cfg.cpp`, `include/cfg.h` | the graph under construction | one `insert_` function per construct |
| code generator | `src/codegen.cpp` | module, insert point, slots of declarations, return slot and block | one `gen_` function per construct |
| helpers | `src/utils.cpp` | none | the character classes, `report` |

The driver runs the parts one after the other: the parser pulls tokens from the
lexer and hands its tree to sema, which builds a second, resolved tree. For each
function sema folds the roots of its expressions with the evaluator, builds the
control flow graph (which asks the evaluator which branches are dead) and runs
the two checks on it. The code generator walks the resolved tree of a program
without errors, and the driver has clang compile the module it wrote to a
temporary file. One compiler is one thread; what is hard is the agreement
between the parts: the graph and the emitted code must take the same branches,
the checks must be right about every execution of code they never see, and an
error anywhere must keep the program from being emitted, although it travels as
a null pointer, a flag, or an empty tree. Several compilers, as `make -j` starts
them, share the directory of the temporary file and the sources with an editor;
they can be killed, leaving their file to whoever comes next, and run again; and
writing the file can fail at its opening and at every piece, without the driver
ever asking.

What makes each part correct:

* driver: code is emitted and linked only for a program without errors, the exit
  status tells so and tells of a file that could not be written, two compilers
  do not disturb each other, and what a killed one left disturbs nobody;
* lexer: every text is cut into the longest tokens, each with its place, and is
  not read behind its terminator;
* parser: it ends on every token sequence, reports at least one error for every
  sequence outside the grammar, and reads the tree the precedences define;
* name resolution: a reference means the innermost declaration before it, an
  error is never lost;
* return check: it rejects exactly the number functions that can reach their
  end without a return, or have none to reach;
* initialization check: it stops at a solution of the flow equations and reports
  the errors of that solution only; no accepted program reads an unassigned
  variable or assigns a `let` twice;
* evaluator: a folded value is the value the program would have computed, with
  the same side effects;
* code generator: valid IR, with the meaning of the tree.

`PROJECT.json` lists the hazards this code has, at their lines, with the
properties that would catch them.

## 2. The modules

| module | models |
|---|---|
| `Characters` | the classes of characters, the kinds of tokens and the keywords |
| `Lexer` | `lexer.cpp`: one action per thing `next_token` does between two looks at the character ahead |
| `Tokens` | abstract specification of the lexer: the next token is the longest lexeme behind blanks and comments, found in one step |
| `Syntax` | tokens and the unresolved tree |
| `ExprParser` | the expression half of `parser.cpp`, which has no recovery inside, as operators, one level at a time |
| `Parser` | the rest of `parser.cpp`: one action per way a function of the parser goes on, calls, returns or fails, and one per token skipped by a recovery |
| `Grammar` | reference: the language as a relation on spans of tokens, rule by rule |
| `ParserCorrect` | `Parser` held against `Grammar`: what is accepted, and what survives errors |
| `Source` | reference: the tokens a tree stands for, and the shape precedence and associativity give it |
| `Scopes` | the scopes: `lookupDecl`, `insert_to_cur_scope`, the builtin `println` |
| `Resolver` | the resolution of expressions, one level of the tree at a time |
| `Sema` | `resolve_ast`, statements and blocks: one action per declaration, statement, and block begun or ended |
| `Scoping` | reference: what a name means at a place of the tree by position, well-typed statements and programs, the resolved form of a statement, the scopes that belong to a place |
| `Elaboration` | what is recursive over trees, made of those rules: the blocks of a program, the meaning and type of an expression, the resolved tree, and `resolve_expr` |
| `SemaCorrect` | `Sema` held against `Scoping`: the properties, and the equations of the recursive definitions (four assumptions) from which they are proved |
| `Driver` | `main.cpp`, for several compilers in one directory, which are killed and run again |
| `Ast` | the resolved tree as records; doubles as exact fractions with infinities and NaN |
| `Constexpr` | `constexpr.cpp` |
| `CfgBuilder` | `cfg.cpp`, `cfg.h`: `build(body)` is the graph of a body |
| `FlowGraph` | what the checks read of a graph, and `WellFormed`, what they may rely on |
| `ReturnCheck` | `check_return_on_all_paths`, one action per way a popped block is treated |
| `InitCheck` | `check_variable_initialization`: one action per predecessor joined, statement visited, block stored, sweep ended |
| `Dataflow` | abstract specification of the initialization check: relax any block in any order until the equations are solved, then read the errors off the solution |
| `Walks` | the runs of a function `InitCheck` has accepted: any walk through its graph, with what has become of each variable (external) |
| `Codegen` | `codegen.cpp` as operators on the state of the IRBuilder |
| `Machine` | the LLVM instructions the generator uses, executed on a stack of frames (external) |
| `Meaning` | reference semantics: a direct evaluation of the tree |
| `StructuredFlow` | reference for the two checks: which functions miss a return and which misuse a variable, by the shape of the statements, without a graph |
| `Compiler` | composes them: both checks on every function, rejection or emission, and the run of the emitted program |
| `LexerProofs`, `ParserProofs`, `SemaProofs`, `ScopingProofs`, `ReturnCheckProofs`, `InitCheckProofs`, `WalksProofs`, `DriverProofs` | the theorems |
| `Programs`, `MC*` | the programs and constants of the runs |

The parts meet in the trees: `Parser` delivers records of `Syntax`, `Sema` takes
them and delivers records of `Ast`, which `CfgBuilder`, the checks (through
`FlowGraph`) and `Codegen` take. `Compiler` composes all behind name resolution;
`Driver` takes the stages by their outcome. `Lexer` and `Parser` meet in the
sequence of tokens, and in a contract: the lexer has eaten the terminator when it
returns `Eof` and would read on behind it if it were asked again. `Parser!TypeOK`
says that the parser never does, in no recovery, and `Lexer` stops there. A NUL
inside a source is such a terminator: what comes behind it is silently not read,
by the lexer as by `Tokens`.

How the state corresponds:

* `Parser.pos` is the position of `next_token`, `incomplete_ast` the member of
  that name. The recursion of the functions is `stack`, with one frame per open
  function, block, `if`, `else` and `while`; `ret` is what the function on top has
  returned: nothing yet, a `nullptr`, or a tree. `mode` tells the two recoveries
  from parsing, and `braces` is the counter of `synchronize`. `reported` is a
  history variable: an error was reported.
* `Sema.scopes` is the stack of scopes, whose entries are functions or resolved
  declarations. `stack` has a frame per open block with the two locals of
  `resolve_block`, `error` and `unreachable_count`; `ret` is what a finished block
  hands to the statement around it. A declaration is named by its place in the
  program, so that two variables of one name differ. A null pointer that is
  dereferenced is the result `"crashed"`, which ends the compiler.
* `Lexer.idx, line, column` are the members of those names, `loc` and `val` the
  locals of `next_token`, and `state` the place in it: at its beginning, in a
  comment, in the digits of a number, behind its point, in its fraction, in a
  word. `behind` is a history variable, the position after the last token.
* `Driver` has a program counter and the locals of `main` per compiler: what it
  has `read`, the descriptor `fd`, the pieces `printed`, and the flag `failed`
  of its output stream. Each reading of a source finds any text, as if it were
  edited all the time. Files are i-nodes behind names, so that a file removed
  while another process writes to it is still written to, unseen. A module is
  printed in pieces (`Size` of its text), each at its own offset; a piece is
  represented by the source text it was compiled from. `Kill` and `Rerun` begin a
  compiler anew with the same command line and leave the file as it is.

* A graph is the record `[basic_blocks, entry, exit]`. A statement of a block is
  what the checks ask of it: its class, its variable, whether a declaration has
  an initializer, whether the variable is mutable. As in the code a block lists
  its statements last first.
* `ReturnCheck.visited, worklist, exit_reached, return_count` and
  `InitCheck.cur_lattices, changed, pending_errors, tmp` are the locals of the
  two functions; `bb`, `preds`, `i` are the positions of the loops of the
  latter. A `std::map` is a total function with the value `"absent"`; the entry
  that `operator[]` creates is `Entry`.
* A builder state of `Codegen` has the instructions of each block, the blocks
  that are part of the function, and the insert point, 0 when cleared: IRBuilder
  then creates instructions outside of every block, which `Insert` models by
  dropping them.
* In `Compiler` both checks are instances that work on the graph of function
  `fn`; `meaning` is a history variable the program does not read.

## 3. Runs

Each run takes less than three minutes with two workers.

* `lexer` (257,317 states; 41,234 texts): every text of up to four characters out
  of thirteen, with two letters of a keyword, a digit, blanks, the beginnings of all
  tokens of two characters, one of no token, and NUL; every text of up to six
  out of those of comments and out of those of numbers; and every keyword, whole,
  without its first character, and with something behind. Six are enough for a
  number with a fraction and a second point, and for a comment with text and lines
  on both sides. `CutsIntoTokens` is the refinement of `Tokens`; `TypeOK` bounds
  the position by the terminator.
* `parser` (240,351 states; 14,644 sources): every body of up to four tokens out
  of the nine that begin, end or break statements and blocks; every expression of
  up to five tokens out of a name, four operators of three levels, parentheses and
  `,`; every chain of three binary operators, of all six levels; and two programs with everything the grammar has, with each token deleted,
  doubled, or replaced by each of 20 others,
  among them the one for a character the lexer does not know. Four tokens are enough for an error
  in a nested block and a recovery over a block. `AcceptsGrammar` compares with `Grammar` both ways;
  `ReadsSource` prints the tree back, a function in the tree also when others are
  broken, and checks its shape; `GoodFunctionsSurvive` (for each well-formed function
  there is one in the tree that was read where it stands) and `NoErrorLost` are about
  recovery, `Termination` about its loops.
* `sema` (202,251 states; some 8,000 programs): every statement with an expression
  around right and wrong expressions, among them a literal no double can hold; bodies of three statements with
  shadowing in blocks up to two levels deep; and signatures, with functions called `main`,
  `println`, or like another one. All programs have a `main`, as the parser
  guarantees. The run compares with `Scoping`, in every state and at the end:
  `ScopesAreLexical` says that a statement is resolved in the scopes of its place,
  `AcceptsWellTyped` relates the verdict to well-typedness both ways and says what
  becomes of the literal: a program with one is never accepted, and nothing else leaves
  without a verdict what would be accepted; `BindsLexically`
  and `WarnsOfUnreachable` are about the resolved tree and the warnings. TLC also
  evaluates the assumptions of `SemaCorrect` on all these programs. The flow checks, which
  `Compiler` has in full, are here a predicate that fails on a number function
  without statements: what matters to `resolve_ast` is that one of them may.
* `driver` (1,687,018 states): two compilers, one with one of two plain command
  lines and the other with any of fourteen, which have every option and error of
  them; two sources, each reading of which finds one of four texts or none; modules
  of one and of two pieces; opening the file and printing each piece may fail; clang
  succeeds or exits with 1 (wait statuses 0, 256); `MaxRestarts` = 2 kills or
  reruns. The compilers are interchangeable and so are the i-nodes, and no property
  names one, hence the symmetry. Two pieces are enough for one to be lost or
  replaced, and for a longer file left behind by a killed compiler to show through;
  three i-nodes are one for each compiler and one left behind, so that creating a
  file never waits for one (the step to a free one is always there); two compilers
  are enough because all that a compiler does to another goes through a single
  file, and `DriverProofs` covers any number of all of these. `NoLeftovers` is an
  action property: a file without a compiler that will remove it comes about only
  in the step that kills one. Two compilations of one source at a time share their file:
  `NoLeftovers` and `LinksOnlyAccepted` hold for them as well (what is linked is then made of
  pieces of accepted texts, perhaps of different ones), `Undisturbed` is about a compiler
  that is alone with its source. A piece that cannot be written leaves a hole here, where the
  kernel would write the next one in its place; no property depends on which.

* `return_check` (13,980 states): every body of up to two statements out of use,
  return, and `if`/`while` around blocks of up to one statement, with conditions
  folded to true, to false or unknown; and loops around one of those. This has
  joins, dead branches, code behind returns, infinite loops, and blocks pushed
  twice. The invariants say that the search loses no reachable block, follows no
  dead edge, counts each return once, and that the verdict is the one defined by
  reachability (`Verdict`).
* `init_check` (56,879 states): bodies over one declared variable (mutable or
  not) with reads, writes, returns, and one or two levels of `if`/`while`. Two
  nested loops are needed for a third sweep; the bodies contain them.
  `ImplementsDataflow` is the refinement of `Dataflow`. Behind an accepting
  verdict the run goes on with the runs of the function itself (`Walks`), which
  take the branches that were folded away, too: `AcceptedRunsSafe` says what the
  check is for.
* `compiler` (272,253 states): programs of four functions, the third
  varying over bodies with one variable, with and without initializer, over bodies
  with statements behind a return, and over
  expressions with all operators, calls with side effects on either side of `&&`
  and `||`, grouped and nested. It is called with 0 and with 1. The run relates
  the checks, the folding, the graph and the emitted code: the verdicts on each
  function are those its statements give without a graph (`ChecksReadTheTree`, against
  `StructuredFlow`, so that an edge the builder makes too many or too few shows even
  where the checks agree with each other on the wrong graph); accepted programs are
  safe (`AcceptedIsSafe`, against the reference semantics), the emitted code is
  valid and never loads memory that was not stored to, and it prints what the
  tree means. No expression of this run is NaN. `Fuel` bounds the turns of loops
  and the calls of a run; programs that need more are compiled but not followed.
* `nan_condition`, `printf_collision`, `parser_recovery`, `sema_crash` and
  `exit_status` are expected to fail: they show the
  findings of `PROJECT.json`, in short: a condition made of a NaN, by `||` or by
  `!` and `&&` too, takes one branch when it is folded and the other when it is
  computed; a function called `printf` takes the place of libc's; a broken
  assignment takes the next statement with it; an unknown name as an argument
  crashes the compiler; a failing clang gives exit status 0.

One behaviour that surprises is not a finding, as nothing in the repository says
otherwise: a read behind a return is rejected even when its variable has an
initializer before the return, because a block without predecessors begins with
empty lattices (`init_check` has such bodies, and `Dataflow` specifies it).

Every property of a passing run has a mutant in `PROJECT.json`: an operator
(commented "Slip" in the modules) that changes one definition the way a plausible
bug would, under which TLC finds the property violated.

Fairness: each check is a loop of one thread, which the operating system
schedules until it returns, hence weak fairness of its next-state action. In
`Compiler` only the run of the emitted program is assumed fair. The fairness of
`Parser` is weak fairness of its next-state action in two halves; the half of the
actions that read an expression is written out with the condition under which
one of them is enabled (`AtRead`) instead of `ENABLED`, which TLC would evaluate
by parsing the expression in every state. Deadlock checking is off where the
system stops: after the verdict or the result, and at the end of the program.

## 4. Proofs

`ReturnCheckProofs` proves `TypeOK`, `SummariesExact` and `VerdictCorrect` from
the assumption that the graphs are well-formed. The inductive invariant adds to
the types that the search is sound (it stays in every closed set), that its
frontier is complete, and that the summaries describe the visited set; with an
empty worklist the visited set is closed, hence equal to `Reach`.

`InitCheckProofs` proves `TypeOK`, `QuietSweepSolved` and the refinement
`Spec => ImplementsDataflow`. The invariant describes the lattice under
construction as the value of the flow equations at the statement reached
(`Dataflow!At`), the pending errors as the errors of the blocks visited in this
sweep as long as nothing changed, and the blocks behind as solved. A sweep that
ends without a change then has all blocks solved, so that `Report` is `Stop` of
the abstract specification; `EndBlock` is `Relax`; all else stutters. Of
`LatticesAscend` the invariant is that no lattice is above what the equations give
for the present ones (`Rising`); as they are monotone, a lattice that rises keeps that so.

`WalksProofs` proves from the invariant of the refinement that the check is sound: for every graph
and every walk through it, `AcceptedRunsSafe`. The invariant is that what has
become of a variable is covered by the value of the equations at the statement
run next; leaving a block carries it into the join of the successor.

The return check has two more theorems from the same invariant: `SearchFrontier`
(no reachable block is lost) and `SearchSound` (no other is looked at).

`LexerProofs` proves `TypeOK` and the refinement `Spec => CutsIntoTokens` for texts of
any length, from the assumptions that the classes of characters do not overlap
and that texts are sequences of strings. The invariant says for each state of
`next_token` what the text between `behind` and `idx` is: blanks and comments, then the
digits, the point, the fraction or the word begun, with `val` its characters
and `loc` its place; and that line and column are the place of `idx`. From that an
action that returns is shown to return a lexeme that no longer one continues,
which is `NextToken`; all others stutter.

`ParserProofs` proves `TypeOK`, `NoErrorLost`, `AcceptsGrammar` and
`GoodFunctionsSurvive` for any set of sources, of any length and with blocks and
expressions of any depth. What is recursive is a parameter there, of which only its equations are assumed:

* `SourcesAssumption`: a source is a sequence of tokens without `Eof`;
* `UnfoldingAssumption`, in `Parser`: `Expr`, `Prefix`, `Loop` and `Args` at a place are
  `parse_expr`, `parse_prefix_expr`, the loop of `parse_expr_rhs` and that of
  `parse_arg_list`, which are defined with these parameters for their calls of each other;
* `GrammarAssumption`, in `ParserCorrect`: `Ends`, where a thing that begins at a place
  may end, is what the rules of `Grammar` make of it (`EndsOf`).

`MCParser` defines these parameters by recursion, and TLC evaluates the assumptions
on all sources of the run `parser`. Proved first is that nothing ends in front of
where it begins or behind the source (`AllAhead`, `AllWide`). Induction is from the
end of the source backwards (`Backwards`, from `WFMin`).

For `NoErrorLost` the invariant says that until the end an error was reported exactly if
`incomplete_ast` is set or a `nullptr` is on its way (`ErrorKept`). For `TypeOK` it
says that the position is inside the source, that `synchronize` has eaten every
brace it counts, and that the stack consists of frames (`Placed`). All steps of
parsing functions share one form (`Move`), and each goes to a place with a stack
of frames (`Lands`), because no token is eaten whose kind was not looked at.

`AcceptsGrammar` has three parts. For expressions, `ExpressionsRead`: the parser
decides by the next token while the grammar leaves open where an expression ends,
but up to a token that cannot go on with it (no operator, no `(`) both come to the
same place, or to none. For the loops of `parse_expr_rhs` this is stated for every
precedence, with what is left to later turns (`Chain`). For statements without
blocks, `SimpleReads` and its lemmas: what a function reads, with its `;`, is what
the rule derives, and a statement that begins with a name is an assignment exactly
if a `=` follows (`AssignReads`). For all that is on the stack, the invariant `Judged`: until
an error is reported the source is a program exactly if what is left of it may
still make it one (`Hopeful`), where each frame from the top down has to be
finished by tokens in front of those of the one below (`Rests`, `Leads`), a program has to be
left behind them, and a `main` must be in it, in the function begun, or among those
parsed. So no step is a wrong turn, although there is one token of lookahead and
no way back (`Turn`: a step leaves open what was open), and an error is reported
only when all is lost. The other direction, that a reported error
leads to failure, is `ErrorKept`. Before `Judged` was proved TLC checked it as an invariant, on the sources of the run.
`Shape` says which frames may lie on which; with it, no `else` behind a finished `if` can
belong to a program (`DeadElse`), so that taking an `else` for the innermost `if` is
never wrong.

`GoodFunctionsSurvive` follows along the same stack, with one more invariant,
`Survived`: every well-formed function that begins in front of the one being read is
in the tree, or has just been returned (`Due`); the parser has eaten no further `fn`
since the one that began this function (`Reach`); and if what begins there is
well-formed, no recovery is on and the frames can still be finished (`Alive`). That a
step keeps it comes from what was shown for `AcceptsGrammar`, where the places a parse
has to come to are arbitrary (`Inner`): an error inside a function is reported only if
it cannot be finished anywhere, so the function that ends then was none. That
neither an error nor a recovery loses the next one is `Goes`, of each step: it eats
no `fn`, since `synchronize` and `synchronize_on` stop in front of one and what else
is eaten was looked at. TLC checked this invariant, too, before it was proved.

`SemaProofs` proves `TypeOK` and `ScopesMatchBlocks` for every program, and for
whatever becomes of its expressions: `ResolveExpr` and `SetValue` are parameters of
`Sema`, of which nothing is assumed; of programs it is assumed that they and their parameter
lists are finite lists (`ProgramsAssumption`). The invariant says that blocks and the
statements around them take turns on the stack (`Nested`), that the top is a block
exactly while nothing has come back (`ret`), that there are as many scopes as open
blocks and two (`Balanced`), and that a function without a good signature never gets as far as its
body (`Declared`), which is why the parameters in a scope are distinct.

`ScopingProofs` proves that name resolution is lexical scoping, for every program, with
blocks nested to any depth: `ScopesAreLexical`, `AcceptsWellTyped`, `BindsLexically` and
`WarnsOfUnreachable`. What is recursive over a tree is a parameter there, of which only the equations that
define it are assumed, in `SemaCorrect`:

* `BlocksAssumption`: the places of a program are the bodies of its functions and the
  blocks inside statements, no more, and `Stmts` are the statements there, with the
  shapes the parser builds;
* `TreesAssumption`: an expression is a finite tree of the six kinds of nodes (each
  operand has a smaller height), and `Subexprs` of it are itself and those of its operands;
* `UnfoldingAssumption`: `ResolveExpr` of an expression is `resolve_expr` of the results for
  its operands, its type and its meaning are what the rules of `Scoping` make of those of its
  operands, the meaning only where it has a type;
* `ElaboratedAssumption`: the resolved tree of a block of a well-typed program is
  that of its statements.

`Elaboration` defines these parameters by recursion, and TLC evaluates the four
assumptions on the programs of the run `sema`. That the resolution of expressions, with its
null pointers and crashes, agrees with scoping and typing is not assumed but proved
(`ExpressionsAgree`), including that it crashes only on expressions that have no type
or a literal out of range: each function of `Resolver` agrees with its rule if the operands
do (`StepAgrees`), an expression that is resolved otherwise would have one of least height
in it, and the operands of that one agree. The invariant (`LInv`, on top of that of `SemaProofs`) has a part for
each side of the verdict. As long as there is no error (`Clean`), in the first
loop the signatures so far are right and the only scope lists the functions (`Signed`); in
the second there is a set of blocks done (`Resolves`), all of whose statements are well-typed
and have their blocks in the set (`FinishedOK`), each frame of the stack is the block at
its place and has resolved the statements in front of its index (`Chain`), and the scopes
are those of the place reached (`Position`). Once there is an error there is a reason for it: an
ill-typed statement or signature, or a flow error (`Faulty`); and so there is for a
crash, this or a literal out of range (`Excused`). Without the set of blocks the invariant
would not be inductive: a statement of several blocks is well-typed only with all of
them, and at the end all blocks of the program must be in it. That they are is an
argument by the shortest place that is not (`LeastBlocks`); so is every induction
here: the library's theorems take an operator, but that a set of numbers has a least
element (`WFMin`) is first-order. `LookupMeans` is the heart: in the scopes of a
place `lookupDecl`, searching from the back, finds what the innermost declaration in
front defines, which no other declaration of its scope can shadow.

`DriverProofs` proves the six properties of the run `driver` for any number of
compilers, command lines, sources, texts, i-nodes, pieces and restarts, from
`DriverAssumption`: accepted texts are parsable, the special values are no texts,
and the hash of one source path is not that of another. The invariant says that
what reaches an i-node or an executable is accepted, that an i-node is reached by
one path only, from names and descriptors alike (`OnePath`), and of each compiler
(`Local`) what it has read, opened and printed at its stage, and what its exit
status has to say. For a compiler that is alone with its source and whose stream
has not failed it adds that the file is its own and holds the pieces printed so
far, and nothing else (`Private`), which is why clang is given the whole module
whatever a killed compiler has left. The first stages, of which none touches a
file, share one lemma (`EarlyPreserves`); what a step leaves alone is one, too
(`OthersLocal`, `OthersPrivate`).

Only model-checked:

* termination of the parser and of the two checks: liveness is out of the prover's reach;
* `ReadsSource` of the parser: it compares trees with
  their tokens through a printer that is recursive over trees, and the trees of operators are
  folds over lists of any length;
* what `Compiler` composes, `ChecksReadTheTree`, `AcceptedIsSafe`, `NoUndefinedLoad`, `MeaningPreserved`
  and `EmittedVerifies`: the builder, the evaluator, the code generator and the meaning
  of a program are recursive over its tree, and these properties are about what
  they compute for all of it;
* that the recursive definitions of `Elaboration` satisfy the equations of `SemaCorrect`,
  and those of `MCParser` the ones of `Parser` and `ParserCorrect`: the provers have no recursive operators.

## 5. Not modelled, and the plan

Not modelled because there is no behaviour to check: dumps and messages
(`ast.cpp`, `cfg::dump`, `report`, `token_kind_to_string`), block names and
formatting of the IR. Rounding and signed zeros of doubles are left out of `Ast`.
LLVM, clang and the linker are external: `Machine` has the instructions the
generator uses, and `Driver` takes from LLVM that a `raw_fd_ostream` with a pending
error ends the process with status 1 when it is destroyed, which is all that makes
an unwritten file show in the exit status, and only after clang has run.

Left out of `Driver`: a removal that throws, hashes that collide, a clang that
reads the file while it is rewritten (it reads it in one step), and a clang that
outlives its killed compiler. A compiler that crashes in sema ends there; its
run is `sema_crash`.

Built, in the order of the plan: the two checks on graphs, then graph, code and
meaning composed in `Compiler`, then name resolution, parser and driver, then the
lexer, failures and kills of the driver, then the proofs about these, and last
those that name resolution is lexical scoping, that the parser accepts its
grammar and that it loses no well-formed function. What is left is recursive over trees, the contents of the parser's trees and
what `Compiler` composes. The way taken for the parser and for name resolution would
serve there, too: parameters for what is recursive, with the equations that
define them, one level of the tree at a time. Next would come the tokens
of a tree as such parameters, for `ReadsSource`.
