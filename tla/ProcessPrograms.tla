--------------------------- MODULE ProcessPrograms ---------------------------
(***************************************************************************)
(* Programs of 3-fileio, 8-process and 15-ipc whose processes share files, *)
(* pipes, a queue, or only a parent, one at a time: useSystem.c, waitpid.c, *)
(* copro.c, the message queue, the FIFO, the programs that write one file, *)
(* the walk of a tree that another process changes, pipe.c and pager.c,    *)
(* and those that fork and execute one command after the other, of which   *)
(* ForkExec tells the one that runs.                                       *)
(***************************************************************************)
EXTENDS Integers, Sequences, FiniteSets

CONSTANTS MaxInterrupts,               \* bound of ChildProcesses
          MaxLines, PipeSize,          \* bounds of Pipes: of pager.c,
          Senders, Receivers, MaxType, \* the message queue
          Room, Earlier,
          FifoReaders, FifoWriters,    \* and the FIFO
          MaxGiven, FifoSize,
          PerWriter,                   \* bound of SharedFile
          MaxCommands,                 \* bound of ForkExec
          MaxOpen, MaxChanges          \* bounds of FileTreeWalk

ASSUME ProcessAssumption ==
  /\ MaxInterrupts \in Nat /\ MaxLines \in Nat /\ PipeSize \in Nat
  /\ MaxType \in Nat /\ Room \in Nat /\ MaxType <= Room
  /\ Senders \cap Receivers = {} /\ Earlier \notin Senders /\ IsFiniteSet(Receivers)
  /\ FifoReaders \cap FifoWriters = {} /\ "none" \notin FifoReaders \cup {Earlier}
  /\ MaxGiven \in Nat /\ FifoSize \in Nat /\ PerWriter \in Nat /\ MaxCommands \in Nat
  /\ MaxOpen \in Nat /\ MaxChanges \in Nat

VARIABLES prog,                                           \* the program that runs
          pc, calls, child, other, status, left, ignored, interrupts, \* of System.c
          at, parent, printed, nocldwait,                 \* of waitpid.c
          copro, add2, holds, pipe1, pipe2, asked, shown, request, \* of copro.c
          next, queue, got, killed,                       \* of the message queue
          name, step, opened, line, given, read, late,    \* of the FIFO
          content, offset, count, writer, length0,        \* of SharedFile
          program, ignoring, tty, here, typed, image, main, \* of ForkExec
          round, kid, out, ended, reaped, clock, struck,
          walk, fullpath, frames, counted, unread, followed, \* of FileTreeWalk
          place, closed, touched, changes,
          lines, feeder, pager, ends, pipe, sent, paged, eof \* of pipe.c and pager.c

systemVars == <<pc, calls, child, other, status, left, ignored, interrupts>>
forkVars   == <<at, parent, printed, nocldwait>>
coproVars  == <<copro, add2, holds, pipe1, pipe2, asked, shown, request>>
queueVars  == <<next, queue, got, killed>>
fileVars   == <<content, offset, count, writer, length0>>
fifoVars   == <<name, step, opened, line, given, read, late>>
execVars   == <<program, ignoring, tty, here, typed, image, main, round, kid, out, ended, reaped,
                clock, struck>>
walkVars   == <<walk, fullpath, frames, counted, unread, followed,
                place, closed, touched, changes>>
pipeVars   == <<lines, feeder, pager, ends, pipe, sent, paged, eof>>
vars == <<prog, systemVars, forkVars, coproVars, queueVars, fileVars, walkVars,
          pipeVars, fifoVars, execVars>>

\* The records of 8-sharing ("tian\n" and "TI", or "UI"), and of 9-atomic.
SharingSize == [a |-> 5, b |-> 2]
AtomicSize  == [a |-> 4, b |-> 4]

S  == INSTANCE ChildProcesses
C  == INSTANCE Pipes WITH parent <- copro, child <- add2, program <- prog
W  == INSTANCE SharedFile WITH Appends <- FALSE, InTurn <- FALSE, Size <- SharingSize,
                               Times <- PerWriter, at <- writer
W1 == INSTANCE SharedFile WITH Appends <- FALSE, InTurn <- TRUE, Size <- SharingSize,
                               Times <- PerWriter, at <- writer
WA == INSTANCE SharedFile WITH Appends <- TRUE, InTurn <- FALSE, Size <- AtomicSize,
                               Times <- PerWriter, at <- writer
X  == INSTANCE ForkExec WITH MaxLines <- MaxCommands, nocldwait <- ignoring, lines <- typed,
                             interrupts <- struck
T  == INSTANCE FileTreeWalk
P  == INSTANCE Pipes WITH parent <- feeder, child <- pager, holds <- ends, program <- prog

\* What a program does not have keeps its first value.
SystemIdle == /\ pc = "main" /\ calls = 0 /\ interrupts = 0 /\ child = "none" /\ other = "none"
              /\ status = "0" /\ left = "0" /\ ignored = FALSE
ForkIdle   == /\ at = [p \in S!Procs |-> "unborn"] /\ parent = [p \in S!Procs |-> "shell"]
              /\ printed = [p \in S!Procs |-> {}] /\ nocldwait = FALSE
QueueIdle  == /\ next = [p \in P!Runs |-> 1] /\ queue = <<>> /\ killed = {}
              /\ got = [r \in Receivers |-> <<>>]
FileIdle   == /\ content = <<>> /\ length0 = 0
              /\ offset = [w \in W!Writers |-> 0] /\ count = [w \in W!Writers |-> 0]
              /\ writer = [w \in W!Writers |-> "open"]
ExecIdle   == /\ program = "exec" /\ ignoring = FALSE /\ tty = FALSE /\ here = FALSE /\ typed = 0
              /\ image = [p \in {"main", "kid", "sh"} |-> [glob |-> 6, held |-> <<>>, path |-> FALSE]]
              /\ main = "fork" /\ round = 1 /\ kid = "none" /\ out = <<>> /\ ended = <<>>
              /\ reaped = <<>> /\ clock = [now |-> 0, start |-> 0] /\ struck = 0
WalkIdle   == /\ walk = "lstat" /\ fullpath = <<"top">> /\ frames = <<>>
              /\ counted = [x \in T!Entries |-> 0] /\ unread = {} /\ followed = FALSE
              /\ place = [x \in T!Entries |-> <<>>] /\ closed = {} /\ touched = {} /\ changes = 0
PipeIdle   == /\ lines = 0 /\ feeder = "fork" /\ pager = "none"
              /\ ends = [parent |-> {}, child |-> {}]
              /\ pipe = <<>> /\ sent = 0 /\ paged = <<>> /\ eof = FALSE

Init ==
  /\ prog \in {"system", "waitpid", "copro", "msg", "sharing", "turns", "atomic", "myftw",
              "pipe", "pager", "fifo", "forkexec"}
  /\ IF prog = "system" THEN S!SystemInit ELSE SystemIdle
  /\ IF prog = "waitpid" THEN S!DoubleInit ELSE ForkIdle
  /\ C!CoproInit
  /\ IF prog = "msg" THEN P!QueueInit ELSE QueueIdle
  /\ P!FifoInit /\ (prog # "fifo" => name = "none")
  /\ IF prog \in {"sharing", "turns", "atomic"} THEN W!Init ELSE FileIdle
  /\ IF prog = "forkexec" THEN X!ForkExecInit ELSE ExecIdle
  /\ IF prog = "myftw" THEN T!Init ELSE WalkIdle
  /\ IF prog \in {"pipe", "pager"} THEN P!CopyInit ELSE PipeIdle

InSystem(A) == /\ prog = "system" /\ A
               /\ UNCHANGED <<prog, forkVars, coproVars, queueVars, fileVars,
                             walkVars, pipeVars, fifoVars, execVars>>
InFork(A)   == /\ prog = "waitpid" /\ A
               /\ UNCHANGED <<prog, systemVars, coproVars, queueVars,
                             fileVars, walkVars, pipeVars, fifoVars,
                             execVars>>
InCopro(A)  == /\ prog = "copro" /\ A
               /\ UNCHANGED <<prog, systemVars, forkVars, queueVars, fileVars,
                             walkVars, pipeVars, fifoVars, execVars>>
InQueue(A)  == /\ prog = "msg" /\ A
               /\ UNCHANGED <<prog, systemVars, forkVars, coproVars, fileVars,
                             walkVars, pipeVars, fifoVars, execVars>>
InFile(A)   == /\ A
               /\ UNCHANGED <<prog, systemVars, forkVars, coproVars,
                             queueVars, walkVars, pipeVars, fifoVars,
                             execVars>>
InWalk(A)   == /\ prog = "myftw" /\ A
               /\ UNCHANGED <<prog, systemVars, forkVars, coproVars,
                             queueVars, fileVars, pipeVars, fifoVars,
                             execVars>>
InPipe(A)   == /\ prog \in {"pipe", "pager"} /\ A
               /\ UNCHANGED <<systemVars, forkVars, coproVars, queueVars,
                             fileVars, walkVars, fifoVars, execVars>>
InFifo(A)   == /\ prog = "fifo" /\ A
               /\ UNCHANGED <<prog, systemVars, forkVars, coproVars,
                             queueVars, fileVars, walkVars, pipeVars,
                             execVars>>
InExec(A)   == /\ prog = "forkexec" /\ A
               /\ UNCHANGED <<prog, systemVars, forkVars, coproVars,
                             queueVars, fileVars, walkVars, pipeVars,
                             fifoVars>>

Next == \/ InSystem(S!SystemNext) \/ InFork(S!DoubleNext) \/ InCopro(C!CoproNext)
        \/ InQueue(P!QueueNext) \/ InFifo(P!FifoNext)
        \/ InFile(prog = "sharing" /\ W!Next) \/ InFile(prog = "turns" /\ W1!Next)
        \/ InFile(prog = "atomic" /\ WA!Next) \/ InExec(X!ForkExecNext)
        \/ InWalk(T!Next) \/ InPipe(P!CopyNext)

Spec == Init /\ [][Next]_vars

\* Every process is scheduled, and a pager goes on as long as there are lines.
\* Nobody has to be killed or to quit, no call has to fail, and the other child of
\* useSystem.c need not end.
FairSpec ==
  /\ Spec
  /\ WF_vars(InSystem(S!Caller)) /\ WF_vars(InSystem(S!Command))
  /\ \A p \in S!Procs : WF_vars(InFork(S!Process(p))) /\ WF_vars(InFork(S!Reaped(p)))
  /\ WF_vars(InCopro(C!CoproParent)) /\ WF_vars(InCopro(C!CoproChild))
  /\ \A p \in P!Runs : WF_vars(InQueue(P!Run(p)))
  /\ WF_vars(InWalk(T!Walk))
  /\ \A r \in FifoReaders : WF_vars(InFifo(P!Reader(r)))
  /\ \A w \in FifoWriters : WF_vars(InFifo(P!Writer(w)))
  /\ WF_vars(InExec(X!ForkExecRun))
  /\ WF_vars(InPipe(P!CopyParent)) /\ WF_vars(InPipe(P!CopyChild))

------------------------------------------------------------------------------
(* What must hold, program by program *)

TypeOK == CASE prog = "system"  -> S!SystemTypeOK
            [] prog = "waitpid" -> S!DoubleTypeOK
            [] prog = "copro"   -> C!CoproTypeOK
            [] prog = "msg"     -> P!QueueTypeOK
            [] prog = "fifo"    -> P!FifoTypeOK
            [] prog = "sharing" -> W!TypeOK
            [] prog = "turns"   -> W1!TypeOK
            [] prog = "atomic"  -> WA!TypeOK
            [] prog = "forkexec" -> X!ForkExecTypeOK
            [] prog = "myftw"   -> T!TypeOK
            [] prog \in {"pipe", "pager"} -> P!CopyTypeOK

\* System.c, lines 55-59: interrupted or not, System() leaves no child behind.
\* waitpid.c, lines 6-9 and 43-61: the trick of the second fork works, and only
\* the program itself waits and is told the truth.  pager.c, lines 50-63: the
\* parent ends before its pager only when a call fails.  wait.c, lines 22-54, and
\* the other loops: the parent has the statuses of its children in order, and of
\* all of them when it succeeds; zombie.c, lines 33-39: before that ps finds the child.
ChildrenAccounted ==
  /\ prog = "system" => S!NoChildLeft
  /\ prog = "waitpid" => S!NoZombieOfOurs /\ S!WaitTellsTruth
  /\ prog \in {"pipe", "pager"} => P!DiesOnlyAfterPager /\ P!ParentEndsLast
  /\ prog = "forkexec" => X!ReapedInOrder /\ X!ZombieShown

\* copro.c, lines 51-66: each line gets its own answer.  msgsnd.c and msgrcv.c:
\* no message is lost or taken twice.  8-sharing: descriptors opened separately
\* have their own offsets.  9-atomic: O_APPEND loses nothing.  myftw.c, lines
\* 86-90: a walk among changes counts what nobody has disturbed, once.  pager.c,
\* lines 48-61: the pager gets the lines in order, and then their end.
\* fifo.c, lines 63-66: so does a reader, unless a writer was too late.  fork.c,
\* vfork.c, wait.c and proctime.c: what is printed is about the right child, with
\* the values of the right memory, and once unless a child that has a copy writes it.
NothingLost ==
  /\ prog = "copro" => C!AnswersInStep
  /\ prog = "msg" => P!EachTakenOnce
  /\ prog = "sharing" => W!EachAtItsOffset
  /\ prog = "turns" => W1!EachAtItsOffset
  /\ prog = "atomic" => WA!NothingOverwritten
  /\ prog = "myftw" => T!PathsKept /\ T!EachCountedOnce
  /\ prog \in {"pipe", "pager"} => P!LinesInOrder
  /\ prog = "fifo" => P!LinesArrive
  /\ prog = "forkexec" => X!ShownOfChild /\ X!WrittenOnce /\ X!ValuesOfImage

\* System.c, lines 15-23: the status returned is that of the command of this
\* call, whatever other children there are.  msgsnd.c, lines 94-97: the first
\* message of its type.  signals.c, lines 18-19 and 29: an interrupt ends a command and
\* nothing else, and is told.
CallsKeepPromises == [][/\ prog = "system" => S!StatusOfOwnChild
                        /\ prog = "msg" => P!OldestFirst
                        /\ prog = "forkexec" => X!InterruptEndsCommand]_vars

\* 9-atomic: the file is an append-only log.
ImplementsAppendLog == /\ prog = "atomic" => WA!Log!Init
                       /\ [][prog = "atomic" => WA!Log!AppendRecord]_content

\* What has to come to an end, and what its end is.
MustEnd == \/ prog \in {"system", "waitpid", "copro", "msg", "myftw", "fifo", "forkexec"}
           \/ prog \in {"pipe", "pager"} /\ pager # "none"

HasEnded == CASE prog = "system"   -> S!AllTried
              [] prog = "waitpid"  -> S!NobodyLeft
              [] prog = "copro"    -> C!CoproOver
              [] prog = "msg"      -> P!ServedOrFull
              [] prog = "myftw"    -> walk = "done"
              [] prog = "fifo"     -> P!NobodyWaits
              [] prog = "forkexec" -> main \in X!Exited
              [] prog \in {"pipe", "pager"} -> P!BothOver
              [] OTHER -> TRUE

\* useSystem.c and waitpid.c end, and with waitpid.c every process is reaped;
\* neither process of copro.c outlives the other waiting for it, except for the
\* answer to an empty request; who waits for a message gets it unless the queue
\* is full; a walk ends, and so do pipe.c and pager.c, whoever quits first; with both
\* ends of a FIFO open neither process waits for ever; the loops of ForkExec end.
\* (prog never changes: one formula says it of each program.)
ProcessesEnd == MustEnd ~> HasEnded
==============================================================================
