---------------------------- MODULE DriverProofs ----------------------------
(* What any number of compilers, killed and run again any number of times,  *)
(* may do to each other through the temporary files.                        *)
EXTENDS Driver, TLAPS

Early == {"start", "parse", "resolved", "generated"}
Late  == {"print", "clang", "remove"}

(* Behind the check of the command line there is a source.                  *)
Sourced(p) == pc[p] \notin {"start", "done"} => options[p].source \in YlPaths

Opened(p) == (pc[p] = "print" => fd[p] # NoFile) /\ (fd[p] # NoFile => pc[p] \in Late)

(* What a compiler knows of its text by the stage it is at.                 *)
Stage(p) ==
  /\ pc[p] = "start" => read[p] = NoText
  /\ pc[p] = "resolved" => read[p] \in Parsable
  /\ pc[p] \in {"generated"} \cup Late => read[p] \in Accepted

(* The properties, for one compiler.                                        *)
NotDisturbed(p) == Alone(p) /\ pc[p] = "remove" /\ ~failed[p] => input[p] = Whole(read[p])
ZeroIsWhole(p) ==
  Alone(p) /\ pc[p] = "done" /\ status[p] = 0 /\ options[p].flags = {} => input[p] = Whole(read[p])
ErrorShows(p) == pc[p] = "done" /\ SawErrors(p) => status[p] = 1

Local(p) ==
  Sourced(p) /\ Opened(p) /\ PrintedSoFar(p) /\ Stage(p) /\ NotDisturbed(p) /\ ZeroIsWhole(p) /\ ErrorShows(p)

(* All that names an i-node or writes to it has one path.                   *)
OnePath ==
  /\ \A f, g \in Temps : files[f] # NoFile /\ files[f] = files[g] => f = g
  /\ \A f \in Temps, p \in Compilers : files[f] # NoFile /\ files[f] = fd[p] => f = path(p)
  /\ \A p, q \in Compilers : fd[p] # NoFile /\ fd[p] = fd[q] => path(p) = path(q)

OnlyAccepted == \A i \in Inodes : \A n \in Pieces : content[i][n] \in Accepted \cup {NoText}

(* The file of a compiler without company is its own, and has what it has   *)
(* printed, and nothing else.                                               *)
SoFar(p) == [n \in Pieces |-> IF n <= printed[p] THEN read[p] ELSE NoText]
Private(p) ==
  Alone(p) /\ ~failed[p] =>
    /\ pc[p] \in {"print", "clang"} => fd[p] # NoFile /\ files[path(p)] = fd[p]
    /\ pc[p] = "print" => content[fd[p]] = SoFar(p)
    /\ pc[p] = "clang" => content[fd[p]] = Whole(read[p])

IInv ==
  /\ Types /\ LinksOnlyAccepted /\ OnePath /\ OnlyAccepted
  /\ \A p \in Compilers : Local(p) /\ Private(p)

-----------------------------------------------------------------------------
LEMMA Modules ==
  /\ Blank \in [Pieces -> Texts \cup {NoText}]
  /\ \A t \in Texts : Whole(t) \in [Pieces -> Texts \cup {NoText}] /\ Size[t] \in 1 .. MaxSize
BY DriverAssumption DEF DriverAssumption, Blank, Whole

LEMMA Initially == Init => IInv
<1> SUFFICES ASSUME Init PROVE IInv
  OBVIOUS
<1> USE DriverAssumption DEF DriverAssumption, Init
<1>1. Types
  <2>1. 0 \in 0 .. MaxSize /\ 0 \in 0 .. 255 /\ 0 \in Nat
    OBVIOUS
  <2>2. files \in [Temps -> Inodes \cup {NoFile}] /\ content \in [Inodes -> [Pieces -> Texts \cup {NoText}]]
        /\ input \in [Compilers -> [Pieces -> Texts \cup {NoText}]]
    BY Modules
  <2>3. outs \in [Outputs -> SUBSET Texts] /\ read \in [Compilers -> Texts \cup {NoText}]
        /\ fd \in [Compilers -> Inodes \cup {NoFile}] /\ failed \in [Compilers -> BOOLEAN]
    OBVIOUS
  <2>4. pc \in [Compilers -> {"start", "parse", "resolved", "generated", "print", "clang", "remove", "done"}]
    OBVIOUS
  <2>5. printed \in [Compilers -> 0 .. MaxSize] /\ ret \in [Compilers -> Nat]
        /\ status \in [Compilers -> 0 .. 255] /\ restarts \in Nat
    BY <2>1
  <2> QED BY <2>2, <2>3, <2>4, <2>5 DEF Types
<1>2. LinksOnlyAccepted /\ OnePath /\ OnlyAccepted
  BY DEF LinksOnlyAccepted, OnePath, OnlyAccepted, Blank
<1>3. ASSUME NEW p \in Compilers PROVE Local(p) /\ Private(p)
  BY DEF Local, Sourced, Opened, PrintedSoFar, Stage, NotDisturbed, ZeroIsWhole, ErrorShows, Private, Late
<1> QED BY <1>1, <1>2, <1>3 DEF IInv

(* The path of a compiler at work is one of Temps, and another compiler has *)
(* the same one only if it has the same source.                             *)
LEMMA Paths ==
  ASSUME NEW p \in Compilers, options[p].source \in YlPaths
  PROVE  /\ path(p) \in Temps
         /\ \A q \in Compilers :
              options[q].source \in YlPaths /\ path(q) = path(p) /\ Alone(p) => q = p
<1>1. path(p) \in Temps
  BY DEF path, Temp, Temps
<1>2. ASSUME NEW q \in Compilers, options[q].source \in YlPaths, path(q) = path(p), Alone(p)
      PROVE  q = p
  <2>1. options[q].source = options[p].source
    BY <1>2, DriverAssumption DEF DriverAssumption, path, Temp
  <2> QED BY <1>2, <2>1 DEF Alone
<1> QED BY <1>1, <1>2

(* A compiler with company of its own path is not alone.                    *)
LEMMA Company ==
  ASSUME IInv, NEW p \in Compilers, NEW q \in Compilers, Alone(p), q # p,
         fd[p] # NoFile, fd[q] # NoFile
  PROVE  fd[q] # fd[p]
<1>1. options[p].source \in YlPaths /\ options[q].source \in YlPaths
  BY DEF IInv, Local, Opened, Sourced, Late
<1> QED BY <1>1, Paths DEF IInv, OnePath

(* Every exit code and status is a byte.                                    *)
LEMMA Exits ==
  ASSUME Types, NEW p \in Compilers, NEW code \in Nat, Exit(p, code)
  PROVE  /\ status' \in [Compilers -> 0 .. 255] /\ pc' = [pc EXCEPT ![p] = "done"]
         /\ status'[p] = code % 256
<1>1. ExitCode(code) \in 0 .. 255
  BY DEF ExitCode
<1> QED BY <1>1 DEF Exit, Goto, Types, ExitCode

(* What a step of one compiler leaves alone of the others.                  *)
Others(p) ==
  /\ options' = options
  /\ \A q \in Compilers : q # p =>
       /\ pc'[q] = pc[q] /\ read'[q] = read[q] /\ fd'[q] = fd[q] /\ printed'[q] = printed[q]
       /\ failed'[q] = failed[q] /\ status'[q] = status[q] /\ input'[q] = input[q]

LEMMA OthersLocal ==
  ASSUME IInv, NEW p \in Compilers, Others(p), NEW q \in Compilers, q # p
  PROVE  Local(q)'
<1>1. /\ pc'[q] = pc[q] /\ read'[q] = read[q] /\ fd'[q] = fd[q] /\ printed'[q] = printed[q]
      /\ failed'[q] = failed[q] /\ status'[q] = status[q] /\ input'[q] = input[q] /\ options' = options
  BY DEF Others
<1>2. Local(q)
  BY DEF IInv
<1> QED BY <1>1, <1>2 DEF Local, Sourced, Opened, PrintedSoFar, Stage, NotDisturbed, ZeroIsWhole, ErrorShows,
                          Alone, SawErrors, Given

(* Nor does a compiler that is at its file while the others leave the path  *)
(* and the pieces alone.                                                    *)
LEMMA OthersPrivate ==
  ASSUME IInv, NEW p \in Compilers, Others(p), NEW q \in Compilers, q # p,
         Alone(q) /\ ~failed[q] /\ pc[q] \in {"print", "clang"} =>
           files'[path(q)] = files[path(q)] /\ content'[fd[q]] = content[fd[q]]
  PROVE  Private(q)'
<1>1. /\ pc'[q] = pc[q] /\ read'[q] = read[q] /\ fd'[q] = fd[q] /\ printed'[q] = printed[q]
      /\ failed'[q] = failed[q] /\ options' = options
  BY DEF Others
<1>2. Alone(q)' = Alone(q) /\ path(q)' = path(q) /\ SoFar(q)' = SoFar(q)
  BY <1>1 DEF Alone, path, SoFar
<1>3. Private(q)
  BY DEF IInv
<1> QED BY <1>1, <1>2, <1>3, Zenon DEF Private

LEMMA Stutters ==
  ASSUME IInv, UNCHANGED vars
  PROVE  IInv'
<1>0. Types' /\ LinksOnlyAccepted' /\ OnePath' /\ OnlyAccepted'
  BY DEF vars, IInv, Types, LinksOnlyAccepted, OnePath, OnlyAccepted, path
<1>1. ASSUME NEW p \in Compilers PROVE Local(p)' /\ Private(p)'
  BY DEF vars, IInv, Local, Sourced, Opened, PrintedSoFar, Stage, NotDisturbed, ZeroIsWhole, ErrorShows,
         Alone, SawErrors, Given, Private, SoFar, path
<1> QED BY <1>0, <1>1 DEF IInv

-----------------------------------------------------------------------------
(* A step before the temporary file, of whatever kind.                      *)
EarlyStep(p, to) ==
  /\ pc[p] \in Early /\ pc' = [pc EXCEPT ![p] = to]
  /\ UNCHANGED <<files, content, outs, options, fd, printed, ret, failed, restarts, input>>
  /\ read' \in [Compilers -> Texts \cup {NoText}]
  /\ \A q \in Compilers : q # p => read'[q] = read[q] /\ status'[q] = status[q]
  /\ status' \in [Compilers -> 0 .. 255]
  /\ to # "done" => options[p].source \in YlPaths
  /\ to = "resolved" => read'[p] \in Parsable
  /\ to = "generated" => read'[p] \in Accepted
  /\ to = "done" => /\ status'[p] = 1 \/ options[p].flags # {}
                    /\ status'[p] = 1 \/ ~SawErrors(p)'

LEMMA EarlySteps ==
  ASSUME IInv, NEW p \in Compilers, NEW to \in {"parse", "resolved", "generated", "done"},
         EarlyStep(p, to)
  PROVE  IInv'
<1> USE DEF IInv
<1>0. /\ pc'[p] = to /\ pc[p] \notin Late /\ pc[p] # "done" /\ to \notin Late
      /\ \A q \in Compilers : q # p => pc'[q] = pc[q]
      /\ fd[p] = NoFile /\ printed[p] = 0
  BY DEF Types, Early, Late, EarlyStep, Local, Opened, PrintedSoFar
<1>1. Types'
  BY DEF Types, EarlyStep
<1>2. LinksOnlyAccepted' /\ OnePath' /\ OnlyAccepted'
  BY DEF LinksOnlyAccepted, OnePath, OnlyAccepted, path, EarlyStep
<1>3. Others(p)
  BY <1>0 DEF Others, EarlyStep
<1>4. Local(p)'
  <2>1. Sourced(p)' /\ Opened(p)' /\ PrintedSoFar(p)' /\ Stage(p)' /\ NotDisturbed(p)'
    BY <1>0 DEF EarlyStep, Sourced, Opened, PrintedSoFar, Stage, NotDisturbed, Late
  <2>2. ZeroIsWhole(p)' /\ ErrorShows(p)'
    BY <1>0 DEF EarlyStep, ZeroIsWhole, ErrorShows
  <2> QED BY <2>1, <2>2 DEF Local
<1>5. ASSUME NEW q \in Compilers PROVE Private(q)'
  <2>1. CASE q = p
    BY <1>0, <2>1 DEF Private, Late
  <2>2. CASE q # p
    BY <1>0, <2>2 DEF Private, EarlyStep, Alone, SoFar, path
  <2> QED BY <2>1, <2>2
<1> QED BY <1>1, <1>2, <1>3, <1>4, <1>5, OthersLocal

LEMMA EarlyPreserves ==
  ASSUME IInv, NEW p \in Compilers,
         \/ BadArguments(p) \/ ShowHelp(p) \/ NoInput(p) \/ ReadSource(p)
         \/ DumpAst(p) \/ SyntaxError(p) \/ Resolve(p) \/ DumpResolved(p)
         \/ SemanticError(p) \/ Generate(p) \/ DumpModule(p)
  PROVE  IInv'
<1> USE DEF ThisDirectory, Locals
<1>0. Types /\ Sourced(p) /\ Stage(p)
  BY DEF IInv, Local
<1>1. CASE BadArguments(p) \/ ShowHelp(p) \/ NoInput(p)
  <2>1. read[p] = NoText
    BY <1>0, <1>1 DEF BadArguments, ShowHelp, NoInput, Starts, At, Stage
  <2>2. ~SawErrors(p)'
    BY <1>1, <2>1, DriverAssumption DEF DriverAssumption, SawErrors, BadArguments, ShowHelp, NoInput
  <2>3. EarlyStep(p, "done")
    BY <1>0, <1>1, <2>2, Exits
       DEF BadArguments, ShowHelp, NoInput, Starts, EarlyStep, Early, Types, At, Exit, Given
  <2> QED BY <2>3, EarlySteps
<1>2. CASE ReadSource(p)
  <2>1. EarlyStep(p, "parse")
    BY <1>0, <1>2 DEF ReadSource, Starts, EarlyStep, Early, Types, At, Goto
  <2> QED BY <2>1, EarlySteps
<1>3. CASE DumpAst(p) \/ DumpResolved(p) \/ DumpModule(p)
  <2>1. ~SawErrors(p)' /\ options[p].flags # {}
    BY <1>0, <1>3, DriverAssumption
       DEF DriverAssumption, DumpAst, DumpResolved, DumpModule, SawErrors, Given, At, Stage, Late
  <2>2. EarlyStep(p, "done")
    BY <1>0, <1>3, <2>1, Exits DEF DumpAst, DumpResolved, DumpModule, EarlyStep, Early, Types, At, Exit
  <2> QED BY <2>2, EarlySteps
<1>4. CASE SyntaxError(p) \/ SemanticError(p)
  <2>1. EarlyStep(p, "done")
    BY <1>0, <1>4, Exits DEF SyntaxError, SemanticError, EarlyStep, Early, Types, At, Exit
  <2> QED BY <2>1, EarlySteps
<1>5. CASE Resolve(p)
  <2>1. EarlyStep(p, "resolved")
    BY <1>0, <1>5 DEF Resolve, EarlyStep, Early, Types, At, Goto, Sourced
  <2> QED BY <2>1, EarlySteps
<1>6. CASE Generate(p)
  <2>1. EarlyStep(p, "generated")
    BY <1>0, <1>6 DEF Generate, EarlyStep, Early, Types, At, Goto, Sourced
  <2> QED BY <2>1, EarlySteps
<1> QED BY <1>1, <1>2, <1>3, <1>4, <1>5, <1>6

-----------------------------------------------------------------------------
(* The i-node is new to everybody.                                          *)
LEMMA CreatePreserves ==
  ASSUME IInv, NEW p \in Compilers, CreateTemp(p)
  PROVE  IInv'
<1> USE DEF IInv
<1>1. PICK i \in Inodes :
        /\ ~Used(i) /\ files' = [files EXCEPT ![path(p)] = i]
        /\ content' = [content EXCEPT ![i] = Blank] /\ fd' = [fd EXCEPT ![p] = i]
  BY DEF CreateTemp
<1>2. \A f \in Temps : files[f] # i
  BY <1>1 DEF Types, Used, Range
<1>3. /\ pc[p] = "generated" /\ pc'[p] = "print" /\ \A q \in Compilers : q # p => pc'[q] = pc[q]
      /\ options[p].source \in YlPaths /\ path(p) \in Temps /\ files'[path(p)] = i
      /\ \A f \in Temps : f # path(p) => files'[f] = files[f]
      /\ fd'[p] = i /\ \A q \in Compilers : q # p => fd'[q] = fd[q] /\ fd[q] # i
      /\ content'[i] = Blank /\ \A j \in Inodes : j # i => content'[j] = content[j]
      /\ printed[p] = 0 /\ read[p] \in Accepted /\ i # NoFile
      /\ UNCHANGED <<outs, options, read, printed, failed, status, restarts, input>>
  BY <1>1, Paths, DriverAssumption
     DEF CreateTemp, Types, Local, Sourced, At, Goto, PrintedSoFar, Stage, Early, DriverAssumption, Used
<1>4. Types'
  BY <1>1, Modules DEF Types, CreateTemp, Goto
<1>5. LinksOnlyAccepted'
  BY <1>3 DEF LinksOnlyAccepted
<1>6. OnePath'
  <2>1. ASSUME NEW f \in Temps, NEW g \in Temps, files'[f] # NoFile, files'[f] = files'[g] PROVE f = g
    BY <1>2, <1>3, <2>1 DEF OnePath
  <2>2. ASSUME NEW f \in Temps, NEW q \in Compilers, files'[f] # NoFile, files'[f] = fd'[q] PROVE f = path(q)
    BY <1>2, <1>3, <2>2 DEF OnePath
  <2>3. ASSUME NEW r \in Compilers, NEW q \in Compilers, fd'[r] # NoFile, fd'[r] = fd'[q] PROVE path(r) = path(q)
    BY <1>3, <2>3 DEF OnePath
  <2> QED BY <1>3, <2>1, <2>2, <2>3 DEF OnePath, path
<1>7. OnlyAccepted'
  BY <1>3 DEF OnlyAccepted, Blank
<1>8. Others(p)
  BY <1>3 DEF Others
<1>9. Local(p)'
  <2>1. read[p] \in Texts /\ 0 < Size[read[p]]
    BY <1>3, Modules, DriverAssumption DEF DriverAssumption
  <2> QED BY <1>3, <2>1 DEF Local, Sourced, Opened, PrintedSoFar, Stage, NotDisturbed, ZeroIsWhole, ErrorShows, Early, Late
<1>10. ASSUME NEW q \in Compilers PROVE Private(q)'
  <2>1. CASE q = p
    <3> HIDE DEF IInv
    <3>1. \A n \in Pieces : ~(n <= printed'[p])
      BY <1>3, DriverAssumption DEF Pieces, DriverAssumption
    <3>2. SoFar(p)' = Blank
      BY <3>1 DEF SoFar, Blank
    <3>3. path(p)' = path(p) /\ files'[path(p)] = i
      BY <1>3 DEF path
    <3>4. fd'[p] = i /\ i # NoFile /\ pc'[p] = "print" /\ content'[i] = Blank
      BY <1>3
    <3>5. /\ fd'[p] # NoFile /\ files'[path(p)'] = fd'[p] /\ content'[fd'[p]] = SoFar(p)'
      BY <3>2, <3>3, <3>4
    <3> QED BY <2>1, <3>4, <3>5 DEF Private
  <2>2. CASE q # p
    <3>1. ASSUME Alone(q), pc[q] \in {"print", "clang"} PROVE path(q) # path(p) /\ path(q) \in Temps
      BY <1>3, <2>2, <3>1, Paths DEF Local, Sourced
    <3>2. ASSUME pc[q] \in {"print", "clang"}, Alone(q), ~failed[q] PROVE fd[q] \in Inodes /\ fd[q] # i
      <4>1. fd[q] # NoFile
        BY <3>2 DEF Private
      <4> QED BY <1>3, <2>2, <4>1 DEF Types
    <3> QED BY <1>3, <1>8, <2>2, <3>1, <3>2, OthersPrivate
  <2> QED BY <2>1, <2>2
<1> QED BY <1>4, <1>5, <1>6, <1>7, <1>8, <1>9, <1>10, OthersLocal

(* The i-node may belong to another compiler with the same path, or to one  *)
(* that was killed.                                                         *)
LEMMA TruncatePreserves ==
  ASSUME IInv, NEW p \in Compilers, TruncateTemp(p)
  PROVE  IInv'
<1> USE DEF IInv
<1>1. PICK i \in Inodes : i = files[path(p)]
  BY Paths DEF TruncateTemp, Types, Local, Sourced, At
<1>2. /\ pc[p] = "generated" /\ pc'[p] = "print" /\ \A q \in Compilers : q # p => pc'[q] = pc[q]
      /\ options[p].source \in YlPaths /\ path(p) \in Temps
      /\ fd'[p] = i /\ \A q \in Compilers : q # p => fd'[q] = fd[q]
      /\ content'[i] = Blank /\ \A j \in Inodes : j # i => content'[j] = content[j]
      /\ printed[p] = 0 /\ read[p] \in Accepted /\ i # NoFile
      /\ UNCHANGED <<files, outs, options, read, printed, failed, status, restarts, input>>
  BY <1>1, Paths, DriverAssumption
     DEF TruncateTemp, Types, Local, Sourced, At, Goto, PrintedSoFar, Stage, Early, DriverAssumption
<1>4. Types'
  BY <1>1, Modules DEF Types, TruncateTemp, Goto
<1>5. LinksOnlyAccepted'
  BY <1>2 DEF LinksOnlyAccepted
<1>6. OnePath'
  <2>1. ASSUME NEW f \in Temps, NEW q \in Compilers, files[f] # NoFile, files[f] = fd'[q] PROVE f = path(q)
    BY <1>1, <1>2, <2>1 DEF OnePath
  <2>2. ASSUME NEW r \in Compilers, NEW q \in Compilers, fd'[r] # NoFile, fd'[r] = fd'[q] PROVE path(r) = path(q)
    BY <1>1, <1>2, <2>2 DEF OnePath
  <2> QED BY <1>2, <2>1, <2>2 DEF OnePath, path
<1>7. OnlyAccepted'
  BY <1>2 DEF OnlyAccepted, Blank
<1>8. Others(p)
  BY <1>2 DEF Others
<1>9. Local(p)'
  <2>1. read[p] \in Texts /\ 0 < Size[read[p]]
    BY <1>2, Modules, DriverAssumption DEF DriverAssumption
  <2> QED BY <1>2, <2>1 DEF Local, Sourced, Opened, PrintedSoFar, Stage, NotDisturbed, ZeroIsWhole, ErrorShows, Early, Late
<1>10. ASSUME NEW q \in Compilers PROVE Private(q)'
  <2>1. CASE q = p
    <3> HIDE DEF IInv
    <3>1. \A n \in Pieces : ~(n <= printed'[p])
      BY <1>2, DriverAssumption DEF Pieces, DriverAssumption
    <3>2. SoFar(p)' = Blank
      BY <3>1 DEF SoFar, Blank
    <3>3. path(p)' = path(p) /\ files'[path(p)] = i
      BY <1>1, <1>2 DEF path
    <3>4. fd'[p] = i /\ i # NoFile /\ pc'[p] = "print" /\ content'[i] = Blank
      BY <1>2
    <3>5. /\ fd'[p] # NoFile /\ files'[path(p)'] = fd'[p] /\ content'[fd'[p]] = SoFar(p)'
      BY <3>2, <3>3, <3>4
    <3> QED BY <2>1, <3>4, <3>5 DEF Private
  <2>2. CASE q # p
    <3>1. ASSUME Alone(q), pc[q] \in {"print", "clang"}, ~failed[q] PROVE fd[q] # i /\ fd[q] \in Inodes
      <4>1. path(q) # path(p) /\ path(q) \in Temps
        BY <1>2, <2>2, <3>1, Paths DEF Local, Sourced
      <4>2. fd[q] # NoFile
        BY <3>1 DEF Private
      <4> QED BY <1>1, <1>2, <4>1, <4>2 DEF OnePath, Types
    <3>2. ASSUME Alone(q), pc[q] \in {"print", "clang"} PROVE path(q) \in Temps
      BY <1>2, <2>2, <3>2, Paths DEF Local, Sourced
    <3> QED BY <1>2, <1>8, <2>2, <3>1, <3>2, OthersPrivate
  <2> QED BY <2>1, <2>2
<1> QED BY <1>4, <1>5, <1>6, <1>7, <1>8, <1>9, <1>10, OthersLocal

(* The file cannot be opened: the compiler is on its own from here.         *)
LEMMA NoTempPreserves ==
  ASSUME IInv, NEW p \in Compilers, NoTemp(p)
  PROVE  IInv'
<1> USE DEF IInv
<1>1. /\ pc[p] = "generated" /\ pc'[p] = "clang" /\ \A q \in Compilers : q # p => pc'[q] = pc[q]
      /\ failed'[p] /\ \A q \in Compilers : q # p => failed'[q] = failed[q]
      /\ options[p].source \in YlPaths /\ read[p] \in Accepted
      /\ UNCHANGED <<files, content, outs, options, read, fd, printed, ret, status, restarts, input>>
  BY DEF NoTemp, Types, Local, Sourced, At, Goto, Stage
<1>2. Types'
  BY DEF Types, NoTemp, Goto
<1>3. LinksOnlyAccepted' /\ OnePath' /\ OnlyAccepted'
  BY <1>1 DEF LinksOnlyAccepted, OnePath, OnlyAccepted, path
<1>4. Others(p)
  BY <1>1 DEF Others
<1>5. Local(p)'
  BY <1>1 DEF Local, Sourced, Opened, PrintedSoFar, Stage, NotDisturbed, ZeroIsWhole, ErrorShows, Early, Late
<1>6. ASSUME NEW q \in Compilers PROVE Private(q)'
  BY <1>1 DEF Private, SoFar, path, Alone
<1> QED BY <1>2, <1>3, <1>4, <1>5, <1>6, OthersLocal

(* The next piece is printed, or lost.                                      *)
LEMMA PrintedOne ==
  ASSUME IInv, NEW p \in Compilers, Printed(p),
         content' \in [Inodes -> [Pieces -> Texts \cup {NoText}]], failed' \in [Compilers -> BOOLEAN],
         \A q \in Compilers : q # p => failed'[q] = failed[q]
  PROVE  /\ Types' /\ Others(p) /\ Local(p)' /\ LinksOnlyAccepted' /\ OnePath'
         /\ pc[p] = "print" /\ printed[p] + 1 \in Pieces /\ printed'[p] = printed[p] + 1
         /\ pc'[p] = IF printed[p] + 1 = Size[read[p]] THEN "clang" ELSE "print"
         /\ options[p].source \in YlPaths /\ read[p] \in Accepted /\ fd[p] \in Inodes /\ fd[p] # NoFile
<1> USE DEF IInv
<1>1. /\ pc[p] = "print" /\ pc'[p] = IF printed[p] + 1 = Size[read[p]] THEN "clang" ELSE "print"
      /\ \A q \in Compilers : q # p => pc'[q] = pc[q] /\ printed'[q] = printed[q]
      /\ printed'[p] = printed[p] + 1 /\ printed[p] \in 0 .. MaxSize
      /\ UNCHANGED <<files, outs, options, read, fd, ret, status, restarts, input>>
      /\ options[p].source \in YlPaths /\ read[p] \in Accepted /\ fd[p] \in Inodes /\ fd[p] # NoFile
      /\ printed[p] < Size[read[p]]
  BY DEF Printed, Types, Local, Sourced, At, Goto, Stage, Late, Opened, PrintedSoFar
<1>2. Size[read[p]] \in 1 .. MaxSize /\ MaxSize \in Nat
  BY <1>1, Modules, DriverAssumption DEF DriverAssumption
<1>3. printed[p] + 1 \in Pieces /\ printed[p] + 1 \in 0 .. MaxSize
  BY <1>1, <1>2 DEF Pieces
<1>4. Types'
  BY <1>1, <1>3 DEF Types, Printed, Goto
<1>5. LinksOnlyAccepted' /\ OnePath'
  BY <1>1 DEF LinksOnlyAccepted, OnePath, path
<1>6. Others(p)
  BY <1>1 DEF Others
<1>7. Local(p)'
  <2>0. pc'[p] = "print" => printed[p] + 1 < Size[read[p]]
    BY <1>1, <1>2
  <2>1. PrintedSoFar(p)'
    BY <1>1, <2>0 DEF PrintedSoFar, Early
  <2> QED BY <1>1, <2>1 DEF Local, Sourced, Opened, Stage, NotDisturbed, ZeroIsWhole, ErrorShows, Early, Late
<1> QED BY <1>1, <1>3, <1>4, <1>5, <1>6, <1>7

LEMMA PrintPreserves ==
  ASSUME IInv, NEW p \in Compilers, PrintModule(p)
  PROVE  IInv'
<1> USE DEF IInv
<1>0. Printed(p) /\ failed' = failed /\ fd' = fd /\ files' = files /\ read' = read /\ options' = options
  BY DEF PrintModule, Printed
<1>1. PICK i \in Inodes : i = fd[p] /\ i # NoFile /\ content' = [content EXCEPT ![i][printed[p] + 1] = read[p]]
  BY DEF PrintModule, Printed, At, Types, Local, Opened
<1>2. read[p] \in Accepted /\ read[p] \in Texts /\ printed[p] + 1 \in Pieces
  <2>1. read[p] \in Accepted /\ pc[p] = "print"
    BY <1>0 DEF Printed, At, Local, Stage, Late
  <2>2. read[p] \in Texts /\ Size[read[p]] \in 1 .. MaxSize /\ MaxSize \in Nat
    BY <2>1, Modules, DriverAssumption DEF DriverAssumption
  <2>3. printed[p] \in 0 .. MaxSize /\ printed[p] < Size[read[p]]
    BY <2>1 DEF Types, Local, PrintedSoFar
  <2> QED BY <2>1, <2>2, <2>3 DEF Pieces
<1>3. /\ \A n \in Pieces : content'[i][n] = IF n = printed[p] + 1 THEN read[p] ELSE content[i][n]
      /\ \A j \in Inodes : j # i => content'[j] = content[j]
      /\ content' \in [Inodes -> [Pieces -> Texts \cup {NoText}]]
  BY <1>1, <1>2 DEF Types
<1>4. /\ Types' /\ Others(p) /\ Local(p)' /\ LinksOnlyAccepted' /\ OnePath'
      /\ pc[p] = "print" /\ printed'[p] = printed[p] + 1
      /\ pc'[p] = IF printed[p] + 1 = Size[read[p]] THEN "clang" ELSE "print"
  BY <1>0, <1>3, PrintedOne DEF Types
<1>5. OnlyAccepted'
  BY <1>2, <1>3 DEF OnlyAccepted
<1>6. ASSUME NEW q \in Compilers PROVE Private(q)'
  <2>1. CASE q = p
    <3> SUFFICES ASSUME Alone(p), ~failed[p]
                 PROVE  /\ files[path(p)] = i
                        /\ content'[i] = SoFar(p)'
                        /\ pc'[p] = "clang" => content'[i] = Whole(read[p])
      BY <1>0, <1>1, <1>4, <2>1 DEF Private, Alone, path
    <3>1. files[path(p)] = i /\ content[i] = SoFar(p)
      BY <1>1, <1>4 DEF Private
    <3>2. \A n \in Pieces : content'[i][n] = IF n <= printed[p] + 1 THEN read[p] ELSE NoText
      <4>1. printed[p] \in 0 .. MaxSize /\ MaxSize \in Nat
        BY DriverAssumption DEF Types, DriverAssumption
      <4> QED BY <1>3, <3>1, <4>1 DEF SoFar, Pieces
    <3>3. content'[i] = [n \in Pieces |-> IF n <= printed[p] + 1 THEN read[p] ELSE NoText]
      BY <1>3, <3>2
    <3> QED BY <1>0, <1>4, <3>1, <3>3 DEF SoFar, Whole
  <2>2. CASE q # p
    <3>1. ASSUME Alone(q), fd[q] # NoFile PROVE fd[q] # i /\ fd[q] \in Inodes
      BY <1>1, <2>2, <3>1, Company DEF Types
    <3>2. ASSUME Alone(q), pc[q] \in {"print", "clang"}, ~failed[q] PROVE fd[q] # NoFile
      BY <3>2 DEF Private
    <3> QED BY <1>0, <1>3, <1>4, <2>2, <3>1, <3>2, OthersPrivate
  <2> QED BY <2>1, <2>2
<1> QED BY <1>4, <1>5, <1>6, OthersLocal

LEMMA PrintFailsPreserves ==
  ASSUME IInv, NEW p \in Compilers, PrintFails(p)
  PROVE  IInv'
<1> USE DEF IInv
<1>1. /\ Printed(p) /\ content' = content /\ failed'[p] /\ failed' \in [Compilers -> BOOLEAN]
      /\ \A q \in Compilers : q # p => failed'[q] = failed[q]
      /\ UNCHANGED <<files, options, read, fd>>
  BY DEF PrintFails, Printed, Types
<1>2. Types' /\ Others(p) /\ Local(p)' /\ LinksOnlyAccepted' /\ OnePath'
  BY <1>1, PrintedOne DEF Types
<1>3. OnlyAccepted'
  BY <1>1 DEF OnlyAccepted
<1>4. ASSUME NEW q \in Compilers PROVE Private(q)'
  <2>1. CASE q = p
    BY <1>1, <2>1 DEF Private
  <2>2. CASE q # p
    BY <1>1, <1>2, <2>2, OthersPrivate DEF path
  <2> QED BY <2>1, <2>2
<1> QED BY <1>2, <1>3, <1>4, OthersLocal

(* clang gets no piece but accepted ones.                                   *)
LEMMA ClangPreserves ==
  ASSUME IInv, NEW p \in Compilers, RunClang(p)
  PROVE  IInv'
<1> USE DEF IInv
<1>1. /\ pc[p] = "clang" /\ pc'[p] = "remove" /\ \A q \in Compilers : q # p => pc'[q] = pc[q]
      /\ options[p].source \in YlPaths /\ path(p) \in Temps /\ read[p] \in Accepted
      /\ input'[p] = IR(p) /\ \A q \in Compilers : q # p => input'[q] = input[q]
      /\ UNCHANGED <<files, content, options, read, fd, printed, failed, status, restarts>>
  BY Paths DEF RunClang, Types, Local, Sourced, At, Goto, Stage, Late
<1>2. /\ IR(p) \in [Pieces -> Texts \cup {NoText}]
      /\ \A n \in Pieces : IR(p)[n] \in Accepted \cup {NoText}
  <2>1. files[path(p)] \in Inodes \cup {NoFile}
    BY <1>1 DEF Types
  <2> QED BY <2>1, Modules DEF Types, IR, Blank, OnlyAccepted
<1>3. PiecesOf(IR(p)) \subseteq Accepted /\ PiecesOf(IR(p)) \subseteq Texts
  BY <1>2 DEF PiecesOf
<1>4. PICK wait \in WaitStatuses :
        /\ ret' = [ret EXCEPT ![p] = wait]
        /\ outs' = IF wait = 0 THEN [outs EXCEPT ![Output(p)] = PiecesOf(IR(p))] ELSE outs
  BY DEF RunClang
<1>5. Types'
  <2>1. outs' \in [Outputs -> SUBSET Texts]
    BY <1>3, <1>4 DEF Types
  <2>2. ret' \in [Compilers -> Nat]
    BY <1>4, DriverAssumption DEF Types, DriverAssumption
  <2> QED BY <1>1, <1>2, <2>1, <2>2 DEF Types, Goto, RunClang
<1>6. LinksOnlyAccepted'
  BY <1>3, <1>4 DEF LinksOnlyAccepted, Types
<1>7. OnePath' /\ OnlyAccepted'
  BY <1>1 DEF OnePath, OnlyAccepted, path
<1>8. Others(p)
  BY <1>1 DEF Others
<1>9. Local(p)'
  <2>1. Alone(p) /\ ~failed[p] => IR(p) = Whole(read[p])
    BY <1>1 DEF Private, IR
  <2> QED BY <1>1, <2>1 DEF Local, Sourced, Opened, PrintedSoFar, Stage, NotDisturbed, ZeroIsWhole, ErrorShows,
                            Early, Late, Alone
<1>10. ASSUME NEW q \in Compilers PROVE Private(q)'
  BY <1>1 DEF Private, SoFar, path, Alone
<1> QED BY <1>5, <1>6, <1>7, <1>8, <1>9, <1>10, OthersLocal

(* Files that are not used any more, and none else, are gone.               *)
LEMMA Reclaimed ==
  ASSUME Types, Reclaim, OnlyAccepted
  PROVE  /\ content' \in [Inodes -> [Pieces -> Texts \cup {NoText}]] /\ OnlyAccepted'
         /\ \A q \in Compilers : fd'[q] \in Inodes => content'[fd'[q]] = content[fd'[q]]
<1>1. /\ \A i \in Inodes : content'[i] \in {content[i], Blank} /\ (Used(i)' => content'[i] = content[i])
      /\ content' = [i \in Inodes |-> content'[i]]
  BY DEF Reclaim
<1>2. \A q \in Compilers : fd'[q] \in Inodes => Used(fd[q])'
  BY DEF Used
<1>3. content' \in [Inodes -> [Pieces -> Texts \cup {NoText}]]
  BY <1>1, Modules DEF Types
<1>4. OnlyAccepted'
  BY <1>1 DEF OnlyAccepted, Blank
<1> QED BY <1>1, <1>2, <1>3, <1>4

(* The path is free again; who still has it open goes on without.           *)
LEMMA RemovePreserves ==
  ASSUME IInv, NEW p \in Compilers, RemoveTemp(p)
  PROVE  IInv'
<1> USE DEF IInv
<1>1. PICK code \in Nat : Exit(p, code) /\ (failed[p] => code = 1)
  BY DEF RemoveTemp, Types
<1>2. /\ pc[p] = "remove" /\ pc'[p] = "done" /\ \A q \in Compilers : q # p => pc'[q] = pc[q]
      /\ pc' = [pc EXCEPT ![p] = "done"] /\ status' \in [Compilers -> 0 .. 255] /\ status'[p] = code % 256
      /\ \A q \in Compilers : q # p => status'[q] = status[q]
  <2>1. pc[p] = "remove"
    BY DEF RemoveTemp, At
  <2>2. status' \in [Compilers -> 0 .. 255] /\ pc' = [pc EXCEPT ![p] = "done"] /\ status'[p] = code % 256
    BY <1>1, Exits
  <2>3. \A q \in Compilers : q # p => pc'[q] = pc[q] /\ status'[q] = status[q]
    BY <1>1 DEF Exit, Goto, Types
  <2> QED BY <2>1, <2>2, <2>3 DEF Types
<1>3. /\ options[p].source \in YlPaths /\ path(p) \in Temps /\ read[p] \in Accepted
      /\ files'[path(p)] = NoFile /\ \A f \in Temps : f # path(p) => files'[f] = files[f]
      /\ fd'[p] = NoFile /\ printed'[p] = 0
      /\ \A q \in Compilers : q # p => fd'[q] = fd[q] /\ printed'[q] = printed[q] /\ failed'[q] = failed[q]
      /\ UNCHANGED <<outs, options, read, restarts, input>>
  BY <1>2, Paths DEF RemoveTemp, Unlink, Close, Types, Local, Sourced, Stage, Late
<1>4. /\ content' \in [Inodes -> [Pieces -> Texts \cup {NoText}]] /\ OnlyAccepted'
      /\ \A q \in Compilers : fd'[q] \in Inodes => content'[fd'[q]] = content[fd'[q]]
  BY Reclaimed DEF RemoveTemp, Close
<1>5. Types'
  <2>1. 0 \in 0 .. MaxSize /\ 0 \in Nat
    BY DriverAssumption DEF DriverAssumption
  <2>2. files' \in [Temps -> Inodes \cup {NoFile}] /\ fd' \in [Compilers -> Inodes \cup {NoFile}]
        /\ printed' \in [Compilers -> 0 .. MaxSize] /\ ret' \in [Compilers -> Nat] /\ failed' \in [Compilers -> BOOLEAN]
    BY <2>1 DEF RemoveTemp, Unlink, Close, Types
  <2> QED BY <1>2, <1>3, <1>4, <2>2 DEF Types
<1>6. LinksOnlyAccepted'
  BY <1>3 DEF LinksOnlyAccepted
<1>7. OnePath'
  <2>1. ASSUME NEW f \in Temps, files'[f] # NoFile PROVE f # path(p) /\ files'[f] = files[f]
    BY <1>3, <2>1
  <2>2. ASSUME NEW q \in Compilers, fd'[q] # NoFile PROVE q # p /\ fd'[q] = fd[q]
    BY <1>3, <2>2
  <2> QED BY <1>3, <2>1, <2>2 DEF OnePath, path
<1>8. Others(p)
  BY <1>2, <1>3 DEF Others
<1>9. Local(p)'
  <2>1. failed[p] => status'[p] = 1
    BY <1>1, <1>2
  <2>2. ~SawErrors(p)'
    BY <1>3, DriverAssumption DEF SawErrors, DriverAssumption
  <2> QED BY <1>2, <1>3, <2>1, <2>2
          DEF Local, Sourced, Opened, PrintedSoFar, Stage, NotDisturbed, ZeroIsWhole, ErrorShows, Early, Late, Alone
<1>10. ASSUME NEW q \in Compilers PROVE Private(q)'
  <2>1. CASE q = p
    BY <1>2, <2>1 DEF Private
  <2>2. CASE q # p
    <3>1. ASSUME Alone(q), pc[q] \in {"print", "clang"} PROVE path(q) # path(p) /\ path(q) \in Temps
      BY <1>3, <2>2, <3>1, Paths DEF Local, Sourced
    <3>2. fd[q] # NoFile => content'[fd[q]] = content[fd[q]]
      BY <1>3, <1>4, <2>2 DEF Types
    <3>3. ASSUME Alone(q), pc[q] \in {"print", "clang"}, ~failed[q] PROVE fd[q] # NoFile
      BY <3>3 DEF Private
    <3> QED BY <1>3, <1>8, <2>2, <3>1, <3>2, <3>3, OthersPrivate
  <2> QED BY <2>1, <2>2
<1> QED BY <1>4, <1>5, <1>6, <1>7, <1>8, <1>9, <1>10, OthersLocal

(* Killed or done, it begins anew; its file stays under its path.           *)
LEMMA RestartPreserves ==
  ASSUME IInv, NEW p \in Compilers, Restart(p)
  PROVE  IInv'
<1> USE DEF IInv
<1>1. /\ pc'[p] = "start" /\ read'[p] = NoText /\ fd'[p] = NoFile /\ printed'[p] = 0 /\ status'[p] = 0
      /\ \A q \in Compilers : q # p =>
           /\ pc'[q] = pc[q] /\ read'[q] = read[q] /\ fd'[q] = fd[q] /\ printed'[q] = printed[q]
           /\ failed'[q] = failed[q] /\ status'[q] = status[q] /\ input'[q] = input[q]
      /\ UNCHANGED <<files, outs, options>>
  BY DEF Restart, Goto, Types
<1>2. /\ content' \in [Inodes -> [Pieces -> Texts \cup {NoText}]] /\ OnlyAccepted'
      /\ \A q \in Compilers : fd'[q] \in Inodes => content'[fd'[q]] = content[fd'[q]]
  BY Reclaimed DEF Restart
<1>3. Types'
  <2>1. 0 \in 0 .. MaxSize /\ 0 \in Nat /\ 0 \in 0 .. 255
    BY DriverAssumption DEF DriverAssumption
  <2>2. fd' \in [Compilers -> Inodes \cup {NoFile}] /\ failed' \in [Compilers -> BOOLEAN]
        /\ read' \in [Compilers -> Texts \cup {NoText}]
        /\ pc' \in [Compilers -> {"start", "parse", "resolved", "generated", "print", "clang", "remove", "done"}]
    BY DEF Restart, Goto, Types
  <2>3. printed' \in [Compilers -> 0 .. MaxSize] /\ ret' \in [Compilers -> Nat]
        /\ status' \in [Compilers -> 0 .. 255] /\ restarts' \in Nat
    BY <2>1 DEF Restart, Types
  <2>4. input' \in [Compilers -> [Pieces -> Texts \cup {NoText}]]
    BY Modules DEF Restart, Types
  <2> QED BY <1>1, <1>2, <2>2, <2>3, <2>4 DEF Types
<1>4. LinksOnlyAccepted'
  BY <1>1 DEF LinksOnlyAccepted
<1>5. OnePath'
  <2>1. ASSUME NEW q \in Compilers, fd'[q] # NoFile PROVE q # p /\ fd'[q] = fd[q]
    BY <1>1, <2>1
  <2> QED BY <1>1, <2>1 DEF OnePath, path
<1>6. Others(p)
  BY <1>1 DEF Others
<1>7. Local(p)'
  BY <1>1 DEF Local, Sourced, Opened, PrintedSoFar, Stage, NotDisturbed, ZeroIsWhole, ErrorShows, Late
<1>8. ASSUME NEW q \in Compilers PROVE Private(q)'
  <2>1. CASE q = p
    BY <1>1, <2>1 DEF Private
  <2>2. CASE q # p
    <3>1. fd[q] # NoFile => content'[fd[q]] = content[fd[q]]
      BY <1>1, <1>2, <2>2 DEF Types
    <3>2. ASSUME Alone(q), pc[q] \in {"print", "clang"}, ~failed[q] PROVE fd[q] # NoFile
      BY <3>2 DEF Private
    <3> QED BY <1>1, <1>6, <2>2, <3>1, <3>2, OthersPrivate
  <2> QED BY <2>1, <2>2
<1> QED BY <1>2, <1>3, <1>4, <1>5, <1>6, <1>7, <1>8, OthersLocal

LEMMA Preserved == IInv /\ [Next]_vars => IInv'
<1> SUFFICES ASSUME IInv, [Next]_vars PROVE IInv'
  OBVIOUS
<1>1. CASE \E p \in Compilers : Step(p)
  <2>1. PICK p \in Compilers : Step(p)
    BY <1>1
  <2>2. CASE CreateTemp(p)
    BY <2>2, CreatePreserves
  <2>3. CASE TruncateTemp(p)
    BY <2>3, TruncatePreserves
  <2>4. CASE NoTemp(p)
    BY <2>4, NoTempPreserves
  <2>5. CASE PrintModule(p)
    BY <2>5, PrintPreserves
  <2>6. CASE PrintFails(p)
    BY <2>6, PrintFailsPreserves
  <2>7. CASE RunClang(p)
    BY <2>7, ClangPreserves
  <2>8. CASE RemoveTemp(p)
    BY <2>8, RemovePreserves
  <2>9. CASE Rerun(p) \/ Kill(p)
    BY <2>9, RestartPreserves DEF Rerun, Kill
  <2> QED BY <2>1, <2>2, <2>3, <2>4, <2>5, <2>6, <2>7, <2>8, <2>9, EarlyPreserves DEF Step
<1> QED BY <1>1, Stutters DEF Next

LEMMA Invariant == Spec => []IInv
<1> QED BY Initially, Preserved, PTL DEF Spec

-----------------------------------------------------------------------------
(* The types, and the count of the pieces that are printed, for any number  *)
(* of compilers, sources and pieces.                                        *)
THEOREM TypeCorrect == Spec => []TypeOK
<1>1. IInv => TypeOK
  BY DEF IInv, Local, TypeOK
<1> QED BY <1>1, Invariant, PTL

(* No text with errors gets into an executable.                             *)
THEOREM OnlyAcceptedLinked == Spec => []LinksOnlyAccepted
<1>1. IInv => LinksOnlyAccepted
  BY DEF IInv
<1> QED BY <1>1, Invariant, PTL

(* Compilers of different sources do not disturb each other, and what a     *)
(* killed one has left does not disturb the next.                           *)
THEOREM SourcesApart == Spec => []Undisturbed
<1>1. IInv => Undisturbed
  BY DEF IInv, Local, NotDisturbed, Undisturbed
<1> QED BY <1>1, Invariant, PTL

(* Errors show in the exit status, unless a dump was asked for.             *)
THEOREM ErrorsShow == Spec => []ErrorsExitWithOne
<1>1. IInv => ErrorsExitWithOne
  BY DEF IInv, Local, ErrorShows, ErrorsExitWithOne
<1> QED BY <1>1, Invariant, PTL

(* A file that could not be written shows in the exit status.               *)
THEOREM ZeroIsTheWholeModule == Spec => []ZeroMeansWhole
<1>1. IInv => ZeroMeansWhole
  BY DEF IInv, Local, ZeroIsWhole, ZeroMeansWhole
<1> QED BY <1>1, Invariant, PTL

-----------------------------------------------------------------------------
(* A step keeps the program counter of a compiler among the last stages, or *)
(* kills it, or removes its file; and only a compiler that goes on to print *)
(* makes one.                                                               *)
LEMMA StaysLate ==
  ASSUME IInv, NEW p \in Compilers, Step(p), ~Kill(p)
  PROVE  /\ options' = options /\ \A q \in Compilers : q # p => pc'[q] = pc[q]
         /\ pc[p] \in Late => pc'[p] \in Late \/ RemoveTemp(p)
         /\ \A f \in Temps : files'[f] # NoFile => files[f] # NoFile \/ (pc'[p] \in Late /\ f = path(p))
         /\ RemoveTemp(p) => files'[path(p)] = NoFile
<1> USE DEF IInv
<1>1. CASE CreateTemp(p)
  <2>1. /\ pc[p] = "generated" /\ pc'[p] = "print" /\ options' = options
        /\ \A q \in Compilers : q # p => pc'[q] = pc[q]
    BY <1>1 DEF CreateTemp, At, Goto, Types
  <2>2. PICK i \in Inodes : files' = [files EXCEPT ![path(p)] = i]
    BY <1>1 DEF CreateTemp
  <2>3. \A f \in Temps : f # path(p) => files'[f] = files[f]
    BY <2>2 DEF Types
  <2> QED BY <1>1, <2>1, <2>3 DEF Late, RemoveTemp, At
<1>2. CASE RemoveTemp(p)
  <2>1. options[p].source \in YlPaths
    BY <1>2 DEF RemoveTemp, At, Local, Sourced
  <2>2. path(p) \in Temps
    BY <2>1, Paths
  <2> QED BY <1>2, <2>2 DEF RemoveTemp, Unlink, Close, Exit, Goto, Types
<1>3. CASE TruncateTemp(p) \/ NoTemp(p) \/ PrintModule(p) \/ PrintFails(p) \/ RunClang(p)
  BY <1>3 DEF TruncateTemp, NoTemp, PrintModule, PrintFails, Printed, RunClang, RemoveTemp, At, Goto, Types, Late
<1>4. CASE Rerun(p)
  BY <1>4 DEF Rerun, Restart, At, Goto, Types, Late, RemoveTemp
<1>5. CASE \/ BadArguments(p) \/ ShowHelp(p) \/ NoInput(p) \/ ReadSource(p)
           \/ DumpAst(p) \/ SyntaxError(p) \/ Resolve(p) \/ DumpResolved(p)
           \/ SemanticError(p) \/ Generate(p) \/ DumpModule(p)
  <2>1. UNCHANGED <<files, options>> /\ pc[p] \in Early
    BY <1>5 DEF BadArguments, ShowHelp, NoInput, ReadSource, Starts, DumpAst, SyntaxError, Resolve, DumpResolved,
                SemanticError, Generate, DumpModule, ThisDirectory, Locals, At, Early
  <2>2. \A q \in Compilers : q # p => pc'[q] = pc[q]
    BY <1>5 DEF BadArguments, ShowHelp, NoInput, ReadSource, DumpAst, SyntaxError, Resolve, DumpResolved,
                SemanticError, Generate, DumpModule, Goto, Exit, Types
  <2> QED BY <2>1, <2>2 DEF Early, Late, RemoveTemp, At
<1> QED BY <1>1, <1>2, <1>3, <1>4, <1>5 DEF Step

(* Only a compiler that is killed leaves its file behind.                   *)
THEOREM OnlyTheKilledLeave == Spec => NoLeftovers
<1>1. ASSUME IInv, [Next]_vars
      PROVE  [\A f \in Temps : files'[f] # NoFile /\ ~Tended(f)' =>
                files[f] # NoFile /\ (Tended(f) => \E p \in Compilers : Kill(p))]_vars
  <2>1. SUFFICES ASSUME NEW p \in Compilers, Step(p), NEW f \in Temps, files'[f] # NoFile, ~Tended(f)'
                 PROVE  files[f] # NoFile /\ (Tended(f) => \E q \in Compilers : Kill(q))
    BY <1>1 DEF Next
  <2>2. CASE Kill(p)
    <3>1. files' = files
      BY <2>2 DEF Kill, Restart
    <3> QED BY <2>1, <2>2, <3>1
  <2>3. CASE ~Kill(p)
    <3>1. /\ options' = options /\ \A q \in Compilers : q # p => pc'[q] = pc[q]
          /\ pc[p] \in Late => pc'[p] \in Late \/ files'[path(p)] = NoFile
          /\ files[f] # NoFile \/ (pc'[p] \in Late /\ f = path(p))
      BY <1>1, <2>1, <2>3, StaysLate
    <3>2. \A q \in Compilers : pc'[q] \in Late => path(q) # f
      BY <2>1, <3>1 DEF Tended, path, Late
    <3>3. ~Tended(f)
      BY <2>1, <3>1, <3>2 DEF Tended, Late
    <3> QED BY <2>1, <3>1, <3>2, <3>3
  <2> QED BY <2>2, <2>3
<1> QED BY <1>1, Invariant, PTL DEF Spec, NoLeftovers
=============================================================================
