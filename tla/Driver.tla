------------------------------- MODULE Driver -------------------------------
(* Several compilers at work in one directory (main.cpp), while the sources *)
(* are edited: each reading finds any text.  Compilers are killed and run   *)
(* again, and files cannot always be written.  The stages are taken by      *)
(* their outcome; of the emitted code there is the text it was compiled     *)
(* from, written to the temporary file in as many pieces as it is long.     *)
EXTENDS Integers, Sequences, SequencesExt

CONSTANTS Compilers,
          Inodes,                \* of the temporary files
          Commands,              \* their command lines, as functions from Compilers
          Names,                 \* the arguments that do not begin with '-'
          YlPaths,               \* the names with the extension .yl
          Texts,                 \* what a source may contain:
          Parsable, Accepted,    \*   what the parser, and what sema takes
          hash_value,            \* std::filesystem::hash_value, a function
          Size, MaxSize,         \* how many pieces the code of a text has
          WaitStatuses,          \* what std::system may return
          MaxRestarts            \* the bound of restarts

NoName == ""    \* an argument that is not given
NoFile == "no file"
NoText == "no text"

ASSUME DriverAssumption ==
  /\ YlPaths \subseteq Names /\ NoName \notin Names
  /\ Accepted \subseteq Parsable /\ Parsable \subseteq Texts
  /\ NoText \notin Texts /\ NoFile \notin Inodes
  /\ MaxSize \in Nat /\ Size \in [Texts -> 1 .. MaxSize] /\ WaitStatuses \subseteq Nat /\ MaxRestarts \in Nat
  /\ \A a, b \in YlPaths : hash_value[a] = hash_value[b] => a = b

VARIABLES files,     \* the temporary files: path -> i-node
          content,   \* of the i-nodes
          outs,      \* the executables, as the texts they were linked from
          options, pc, read, fd, printed, ret,    \* of each compiler
          failed,    \* the error flag of its raw_fd_ostream
          status, restarts,
          input      \* history: what clang was given

vars == <<files, content, outs, options, pc, read, fd, printed, ret, failed, status, restarts, input>>

-----------------------------------------------------------------------------
Dumps == {"-ast-dump", "-res-dump", "-llvm-dump", "-cfg-dump"}

(* The loop of parseArguments.  -o takes whatever comes next.               *)
AddArgument(opt, arg) ==
  CASE opt.error -> opt
    [] ~opt.error /\ opt.wants_output -> [opt EXCEPT !.wants_output = FALSE, !.output = arg]
    [] ~opt.error /\ ~opt.wants_output /\ arg \in Names ->
         IF opt.source # NoName THEN [opt EXCEPT !.error = TRUE] ELSE [opt EXCEPT !.source = arg]
    [] ~opt.error /\ ~opt.wants_output /\ arg \notin Names ->
         IF arg = "-o" THEN [opt EXCEPT !.wants_output = TRUE]
         ELSE IF arg \in Dumps \cup {"-h"} THEN [opt EXCEPT !.flags = @ \cup {arg}]
         ELSE [opt EXCEPT !.error = TRUE]

parseArguments(argv) ==
  FoldLeft(AddArgument,
           [source |-> NoName, output |-> NoName, flags |-> {}, wants_output |-> FALSE, error |-> FALSE], argv)

Outputs == UNION {UNION {ToSet(argv[p]) : p \in Compilers} : argv \in Commands} \cup {"a.out"}
Output(p) == IF options[p].output = NoName THEN "a.out" ELSE options[p].output

Given(p, flags) == options[p].flags \cap flags # {}

(* tmp-<hash>.ll: the name depends on the source path only.                 *)
Temp(source) == hash_value[source]
path(p) == Temp(options[p].source)
Temps == {hash_value[s] : s \in YlPaths}

Pieces == 1 .. MaxSize
Whole(t) == [n \in Pieces |-> IF n <= Size[t] THEN t ELSE NoText]
Blank == [n \in Pieces |-> NoText]

Init ==
  /\ files = [f \in Temps |-> NoFile] /\ content = [i \in Inodes |-> Blank]
  /\ outs = [o \in Outputs |-> {}]
  /\ \E argv \in Commands : options = [p \in Compilers |-> parseArguments(argv[p])]
  /\ pc = [p \in Compilers |-> "start"] /\ read = [p \in Compilers |-> NoText]
  /\ fd = [p \in Compilers |-> NoFile] /\ printed = [p \in Compilers |-> 0]
  /\ ret = [p \in Compilers |-> 0] /\ failed = [p \in Compilers |-> FALSE]
  /\ status = [p \in Compilers |-> 0] /\ restarts = 0 /\ input = [p \in Compilers |-> Blank]

-----------------------------------------------------------------------------
At(p, step) == pc[p] = step
Goto(p, step) == pc' = [pc EXCEPT ![p] = step]

(* The operating system keeps eight bits of what main returns.              *)
ExitCode(code) == code % 256

Exit(p, code) == Goto(p, "done") /\ status' = [status EXCEPT ![p] = ExitCode(code)]

ThisDirectory == <<files, content, outs>>
Locals == <<options, fd, printed, ret, failed, restarts, input>>

(* parseArguments itself exits on an argument it does not know.             *)
BadArguments(p) ==
  /\ At(p, "start") /\ options[p].error
  /\ Exit(p, 1)
  /\ UNCHANGED <<ThisDirectory, Locals, read>>

ShowHelp(p) ==
  /\ At(p, "start") /\ ~options[p].error /\ Given(p, {"-h"})
  /\ Exit(p, 0)
  /\ UNCHANGED <<ThisDirectory, Locals, read>>

Starts(p) == At(p, "start") /\ ~options[p].error /\ ~Given(p, {"-h"})

(* No source, another extension, or a file that cannot be read.             *)
NoInput(p) ==
  /\ Starts(p)
  /\ Exit(p, 1)
  /\ UNCHANGED <<ThisDirectory, Locals, read>>

ReadSource(p) ==
  /\ Starts(p) /\ options[p].source \in YlPaths
  /\ \E text \in Texts : read' = [read EXCEPT ![p] = text]
  /\ Goto(p, "parse")
  /\ UNCHANGED <<ThisDirectory, Locals, status>>

(* The syntax tree is dumped whether or not there were errors.              *)
DumpAst(p) ==
  /\ At(p, "parse") /\ Given(p, {"-ast-dump"})
  /\ Exit(p, 0)
  /\ UNCHANGED <<ThisDirectory, Locals, read>>

SyntaxError(p) ==
  /\ At(p, "parse") /\ ~Given(p, {"-ast-dump"}) /\ read[p] \notin Parsable
  /\ Exit(p, 1)
  /\ UNCHANGED <<ThisDirectory, Locals, read>>

Resolve(p) ==
  /\ At(p, "parse") /\ ~Given(p, {"-ast-dump"}) /\ read[p] \in Parsable
  /\ Goto(p, "resolved")
  /\ UNCHANGED <<ThisDirectory, Locals, read, status>>

(* So is the resolved tree, which is empty then.                            *)
DumpResolved(p) ==
  /\ At(p, "resolved") /\ Given(p, {"-res-dump", "-cfg-dump"})
  /\ Exit(p, 0)
  /\ UNCHANGED <<ThisDirectory, Locals, read>>

(* Slip: an error of sema is not an error of the compiler. *)
SemanticErrorQuiet(p) ==
  /\ At(p, "resolved") /\ ~Given(p, {"-res-dump", "-cfg-dump"}) /\ read[p] \notin Accepted
  /\ Exit(p, 0)
  /\ UNCHANGED <<ThisDirectory, Locals, read>>

SemanticError(p) ==
  /\ At(p, "resolved") /\ ~Given(p, {"-res-dump", "-cfg-dump"}) /\ read[p] \notin Accepted
  /\ Exit(p, 1)
  /\ UNCHANGED <<ThisDirectory, Locals, read>>

(* Slip: an empty tree is looked for only before a dump. *)
GenerateAnyhow(p) ==
  /\ At(p, "resolved") /\ ~Given(p, {"-res-dump", "-cfg-dump"})
  /\ Given(p, Dumps) => read[p] \in Accepted
  /\ Goto(p, "generated")
  /\ UNCHANGED <<ThisDirectory, Locals, read, status>>

Generate(p) ==
  /\ At(p, "resolved") /\ ~Given(p, {"-res-dump", "-cfg-dump"}) /\ read[p] \in Accepted
  /\ Goto(p, "generated")
  /\ UNCHANGED <<ThisDirectory, Locals, read, status>>

DumpModule(p) ==
  /\ At(p, "generated") /\ Given(p, {"-llvm-dump"})
  /\ Exit(p, 0)
  /\ UNCHANGED <<ThisDirectory, Locals, read>>

-----------------------------------------------------------------------------
(* A file is kept as long as it has a name or somebody writes to it.        *)
Used(i) == i \in Range(files) \/ \E p \in Compilers : fd[p] = i
Reclaim == content' = [i \in Inodes |-> IF Used(i)' THEN content[i] ELSE Blank]

(* raw_fd_ostream creates the file, or truncates the one that is there.     *)
CreateTemp(p) ==
  /\ At(p, "generated") /\ ~Given(p, {"-llvm-dump"}) /\ files[path(p)] = NoFile
  /\ \E i \in Inodes :
       /\ ~Used(i)
       /\ files' = [files EXCEPT ![path(p)] = i]
       /\ content' = [content EXCEPT ![i] = Blank]
       /\ fd' = [fd EXCEPT ![p] = i]
  /\ Goto(p, "print")
  /\ UNCHANGED <<outs, options, read, printed, ret, failed, status, restarts, input>>

(* Slip: the file is opened as it is. *)
OpenTemp(p) ==
  /\ At(p, "generated") /\ ~Given(p, {"-llvm-dump"}) /\ files[path(p)] # NoFile
  /\ fd' = [fd EXCEPT ![p] = files[path(p)]]
  /\ Goto(p, "print")
  /\ UNCHANGED <<files, content, outs, options, read, printed, ret, failed, status, restarts, input>>

TruncateTemp(p) ==
  /\ At(p, "generated") /\ ~Given(p, {"-llvm-dump"}) /\ files[path(p)] # NoFile
  /\ content' = [content EXCEPT ![files[path(p)]] = Blank]
  /\ fd' = [fd EXCEPT ![p] = files[path(p)]]
  /\ Goto(p, "print")
  /\ UNCHANGED <<files, outs, options, read, printed, ret, failed, status, restarts, input>>

(* Nobody looks at errorCode: all is printed, to nowhere, and clang called. *)
NoTemp(p) ==
  /\ At(p, "generated") /\ ~Given(p, {"-llvm-dump"})
  /\ failed' = [failed EXCEPT ![p] = TRUE]
  /\ Goto(p, "clang")
  /\ UNCHANGED <<files, content, outs, options, read, fd, printed, ret, status, restarts, input>>

(* Slip: one piece more than there are. *)
PrintedOn(p) ==
  /\ At(p, "print")
  /\ printed' = [printed EXCEPT ![p] = @ + 1]
  /\ Goto(p, IF printed[p] = Size[read[p]] THEN "clang" ELSE "print")
  /\ UNCHANGED <<files, outs, options, read, fd, ret, status, restarts, input>>

(* Each piece goes to its own offset, whatever else happens to the file.    *)
Printed(p) ==
  /\ At(p, "print")
  /\ printed' = [printed EXCEPT ![p] = @ + 1]
  /\ Goto(p, IF printed[p] + 1 = Size[read[p]] THEN "clang" ELSE "print")
  /\ UNCHANGED <<files, outs, options, read, fd, ret, status, restarts, input>>

PrintModule(p) ==
  /\ Printed(p)
  /\ content' = [content EXCEPT ![fd[p]][printed[p] + 1] = read[p]]
  /\ UNCHANGED failed

(* The disk is full.                                                        *)
PrintFails(p) ==
  /\ Printed(p)
  /\ failed' = [failed EXCEPT ![p] = TRUE]
  /\ UNCHANGED content

(* clang opens the file by its name.  Nothing cannot be linked; all else    *)
(* may be, or not.                                                          *)
IR(p) == IF files[path(p)] = NoFile THEN Blank ELSE content[files[path(p)]]

PiecesOf(ir) == {ir[n] : n \in Pieces} \ {NoText}

RunClang(p) ==
  /\ At(p, "clang")
  /\ input' = [input EXCEPT ![p] = IR(p)]
  /\ \E wait \in WaitStatuses :
       /\ IR(p) = Blank => wait # 0
       /\ ret' = [ret EXCEPT ![p] = wait]
       /\ outs' = IF wait = 0 THEN [outs EXCEPT ![Output(p)] = PiecesOf(IR(p))] ELSE outs
  /\ Goto(p, "remove")
  /\ UNCHANGED <<files, content, options, read, fd, printed, failed, status, restarts>>

Unlink(p) == files' = [files EXCEPT ![path(p)] = NoFile]
Close(p) ==
  /\ fd' = [fd EXCEPT ![p] = NoFile] /\ printed' = [printed EXCEPT ![p] = 0]
  /\ ret' = [ret EXCEPT ![p] = 0] /\ failed' = [failed EXCEPT ![p] = FALSE]
  /\ Reclaim /\ UNCHANGED <<outs, options, read, restarts, input>>

(* Slips: a clang that fails ends the compiler, and an error of the stream  *)
(* is not looked at.                                                        *)
RemoveTempIfLinked(p) ==
  /\ At(p, "remove")
  /\ IF ret[p] = 0 THEN Unlink(p) ELSE UNCHANGED files
  /\ Exit(p, IF failed[p] THEN 1 ELSE ret[p]) /\ Close(p)
RemoveTempQuiet(p) ==
  /\ At(p, "remove")
  /\ Unlink(p) /\ Exit(p, ret[p]) /\ Close(p)

(* The destructor of a raw_fd_ostream with an error exits with 1.           *)
RemoveTemp(p) ==
  /\ At(p, "remove")
  /\ Unlink(p) /\ Exit(p, IF failed[p] THEN 1 ELSE ret[p]) /\ Close(p)

-----------------------------------------------------------------------------
(* The same command line again.                                             *)
Restart(p) ==
  /\ restarts < MaxRestarts /\ restarts' = restarts + 1
  /\ Goto(p, "start") /\ read' = [read EXCEPT ![p] = NoText]
  /\ fd' = [fd EXCEPT ![p] = NoFile] /\ printed' = [printed EXCEPT ![p] = 0]
  /\ ret' = [ret EXCEPT ![p] = 0] /\ failed' = [failed EXCEPT ![p] = FALSE]
  /\ status' = [status EXCEPT ![p] = 0] /\ input' = [input EXCEPT ![p] = Blank]
  /\ UNCHANGED <<files, outs, options>> /\ Reclaim

Rerun(p) == At(p, "done") /\ Restart(p)

(* A compiler that is killed leaves everything as it is.                    *)
Kill(p) == pc[p] \notin {"start", "done"} /\ Restart(p)

Step(p) ==
  \/ BadArguments(p) \/ ShowHelp(p) \/ NoInput(p) \/ ReadSource(p)
  \/ DumpAst(p) \/ SyntaxError(p) \/ Resolve(p) \/ DumpResolved(p)
  \/ SemanticError(p) \/ Generate(p) \/ DumpModule(p)
  \/ CreateTemp(p) \/ TruncateTemp(p) \/ NoTemp(p) \/ PrintModule(p) \/ PrintFails(p)
  \/ RunClang(p) \/ RemoveTemp(p)
  \/ Rerun(p) \/ Kill(p)

Next == \E p \in Compilers : Step(p)

Spec == Init /\ [][Next]_vars

-----------------------------------------------------------------------------
(* The types of all but the options, which parseArguments builds.           *)
Types ==
  /\ files \in [Temps -> Inodes \cup {NoFile}]
  /\ content \in [Inodes -> [Pieces -> Texts \cup {NoText}]]
  /\ outs \in [Outputs -> SUBSET Texts]
  /\ pc \in [Compilers -> {"start", "parse", "resolved", "generated", "print", "clang", "remove", "done"}]
  /\ read \in [Compilers -> Texts \cup {NoText}]
  /\ fd \in [Compilers -> Inodes \cup {NoFile}]
  /\ printed \in [Compilers -> 0 .. MaxSize]
  /\ ret \in [Compilers -> Nat] /\ status \in [Compilers -> 0 .. 255]
  /\ failed \in [Compilers -> BOOLEAN] /\ restarts \in Nat
  /\ input \in [Compilers -> [Pieces -> Texts \cup {NoText}]]

(* What a compiler has printed by the stage it is at: nothing before its    *)
(* file is open, less than the module while it prints, and all of it when   *)
(* clang is called, or nothing if there was no file.                        *)
PrintedSoFar(p) ==
  /\ pc[p] \notin {"print", "clang", "remove"} => printed[p] = 0
  /\ pc[p] = "print" => printed[p] < Size[read[p]]
  /\ pc[p] \in {"clang", "remove"} => printed[p] \in {0, Size[read[p]]}

(* The types, and the count of the pieces against the text and the stage,   *)
(* through other compilers, kills and failed writes: no piece is printed    *)
(* behind the end, and clang is not called in the middle of a module.       *)
TypeOK == Types /\ \A p \in Compilers : PrintedSoFar(p)

(* A temporary file stays behind only when the last compiler that would     *)
(* have removed it is killed, although the one that removes it may not be   *)
(* the one that made it.                                                    *)
Tended(f) == \E p \in Compilers : pc[p] \in {"print", "clang", "remove"} /\ path(p) = f
NoLeftovers ==
  [][\A f \in Temps : files'[f] # NoFile /\ ~Tended(f)' =>
       files[f] # NoFile /\ (Tended(f) => \E p \in Compilers : Kill(p))]_vars

(* No executable has a part of a text with errors, whatever is edited, who  *)
(* else writes to the temporary file, and what a killed compiler left in it.*)
LinksOnlyAccepted == \A o \in Outputs : outs[o] \subseteq Accepted

(* A compiler with a source of its own that could write its file hands      *)
(* clang exactly what it read, with nothing behind it that an earlier,      *)
(* longer one left.                                                         *)
Alone(p) == \A q \in Compilers : options[q].source = options[p].source => q = p
Undisturbed ==
  \A p \in Compilers :
    Alone(p) /\ pc[p] = "remove" /\ ~failed[p] => input[p] = Whole(read[p])

(* A compiler that saw errors, and was not asked to show the tree it had    *)
(* then, exits with 1.                                                      *)
SawErrors(p) ==
  \/ read[p] \in Texts \ Parsable /\ ~Given(p, {"-ast-dump"})
  \/ read[p] \in Parsable \ Accepted /\ ~Given(p, {"-ast-dump", "-res-dump", "-cfg-dump"})
ErrorsExitWithOne ==
  \A p \in Compilers : pc[p] = "done" /\ SawErrors(p) => status[p] = 1

(* Exit status 0, without a dump, means that clang had the whole module of  *)
(* the text that was read, although main never asks whether it could be     *)
(* written, and something else may stand in its file.                       *)
ZeroMeansWhole ==
  \A p \in Compilers :
    Alone(p) /\ pc[p] = "done" /\ status[p] = 0 /\ options[p].flags = {} =>
      input[p] = Whole(read[p])

(* `yl file -o program && ./program`: exit status 0, without a dump, means  *)
(* that the program is there.                                               *)
ZeroMeansLinked ==
  \A p \in Compilers :
    pc[p] = "done" /\ status[p] = 0 /\ options[p].flags = {} => outs[Output(p)] = {read[p]}
=============================================================================
