-------------------------------- MODULE Pipes --------------------------------
(***************************************************************************)
(* Processes that talk through a pipe or a queue of 15-ipc: a parent and a *)
(* child on pipes without a name (6-copro, 1-pipe and 2-pager); and the    *)
(* queues that have a name, outlive the processes that use them, and are   *)
(* not removed by anyone: the message queue of 8-msgqueue and the FIFO of  *)
(* 7-fifo.                                                                 *)
(***************************************************************************)
EXTENDS Naturals, Sequences, FiniteSets

CONSTANTS MaxLines,           \* lines there are to read, at most
          PipeSize,           \* lines that the pipe of pager.c takes
          Senders, Receivers, \* runs of msgsnd.c and msgrcv.c
          MaxType,            \* 7 in the code
          Room,               \* messages the queue can hold
          Earlier,            \* who has left what is there at the start
          FifoReaders,        \* runs of fifo.c and
          FifoWriters,        \* of wfifo.c
          MaxGiven,           \* bound on the lines a writer is given
          FifoSize            \* lines a FIFO holds

VARIABLES parent,  \* what the parent does next
          child,   \* what its child does next
          holds,   \* the ends of the pipes each process has open
          pipe1,   \* of copro.c: requests in the pipe to the child
          pipe2,   \* answers in the pipe from the child
          asked,   \* the lines read so far
          shown,   \* the answers printed so far
          request, \* what the child has read
          program, \* "pipe" or "pager", of the other two
          lines,   \* lines of the file
          pipe,    \* lines in the pipe
          sent,    \* lines the parent has written
          paged,   \* lines the child has read
          eof,     \* the child has been told that there is no more
          next,    \* the type each run is about to send or ask for
          queue,   \* messages, each a record of its type and its sender
          got,     \* what each receiver has taken, in order
          killed,  \* runs that were killed
          name,    \* the FIFO that "tempfifo" names, or "none"
          step,    \* process -> what it does next
          opened,  \* process -> the FIFO it has open, or is opening
          line,    \* FIFO -> the lines in it
          given,   \* writer -> lines written
          read,    \* reader -> lines read
          late     \* writers that have opened a FIFO whose reader had seen its end

------------------------------------------------------------------------------
(***************************************************************************)
(* copro.c sends each line it reads to add2.c through one pipe and prints  *)
(* what comes back through another.  Either process may die; its pipes     *)
(* tell the other one.                                                     *)
(***************************************************************************)

coproVars == <<parent, child, holds, pipe1, pipe2, asked, shown, request>>

CoproProcs == {"parent", "child"}
Ends  == {"r1", "w1", "r2", "w2"}  \* fd1[0], fd1[1], fd2[0], fd2[1]
ParentEnded == {"exit0", "exit1", "killed"}
ChildEnded  == {"exit0", "exit1", "exit127", "killed"}

\* Two numbers; something else; a line that starts with a null byte, of which
\* strlen() and write() see nothing.
Lines == {"numbers", "other", "empty"}
Answer == [numbers |-> "sum", other |-> "invalid"]

Readers(e) == {p \in CoproProcs : e \in holds[p]}

CoproInit == /\ parent = "pipe" /\ child = "unborn"
             /\ holds = [p \in CoproProcs |-> {}]
             /\ pipe1 = <<>> /\ pipe2 = <<>> /\ asked = <<>> /\ shown = <<>> /\ request = <<>>

data == <<pipe1, pipe2, asked, shown, request>>

\* pipe(fd1), pipe(fd2); the second may fail after the first.
Pipes == /\ parent = "pipe"
         /\ \/ parent' = "fork" /\ holds' = [holds EXCEPT !["parent"] = Ends]
            \/ parent' = "exit1" /\ UNCHANGED holds
         /\ UNCHANGED <<child, data>>

CoproFork == /\ parent = "fork"
             /\ \/ /\ parent' = "close" /\ child' = "close"
                   /\ holds' = [holds EXCEPT !["child"] = holds["parent"]]
                \/ /\ parent' = "exit1" /\ holds' = [holds EXCEPT !["parent"] = {}]
                   /\ UNCHANGED child
             /\ UNCHANGED data

\* Mutant: the parent keeps the write end of the second pipe.
ParentCloses_One == /\ parent = "close" /\ parent' = "fgets"
                    /\ holds' = [holds EXCEPT !["parent"] = {"w1", "r2", "w2"}]
                    /\ UNCHANGED <<child, data>>

\* Lines 51-52.
ParentCloses == /\ parent = "close" /\ parent' = "fgets"
                /\ holds' = [holds EXCEPT !["parent"] = {"w1", "r2"}]
                /\ UNCHANGED <<child, data>>

ParentEnds(how) == parent' = how /\ holds' = [holds EXCEPT !["parent"] = {}]

\* fgets(), or the end of the input, or an error (lines 75-78).
Fgets ==
  /\ parent = "fgets"
  /\ \/ /\ Len(asked) < MaxLines /\ \E l \in Lines : asked' = Append(asked, l)
        /\ parent' = "write" /\ UNCHANGED holds
     \/ (ParentEnds("exit0") \/ ParentEnds("exit1")) /\ UNCHANGED asked
  /\ UNCHANGED <<child, pipe1, pipe2, shown, request>>

Line == asked[Len(asked)]

\* write(fd1[1], line, strlen(line)); SIGPIPE ends the program in sig_pipe().
CoproWrite ==
  /\ parent = "write"
  /\ IF Line = "empty" \/ Readers("r1") # {}
     THEN /\ parent' = "read" /\ UNCHANGED holds
          /\ pipe1' = IF Line = "empty" THEN pipe1 ELSE Append(pipe1, Line)
     ELSE ParentEnds("exit1") /\ UNCHANGED pipe1
  /\ UNCHANGED <<child, pipe2, asked, shown, request>>

\* Mutant: prints one answer and leaves the rest in the pipe.
ReadAnswer_Keeps ==
  /\ parent = "read" /\ pipe2 # <<>>
  /\ shown' = shown \o pipe2 /\ parent' = "fgets"
  /\ UNCHANGED <<child, holds, pipe1, pipe2, asked, request>>

\* read(fd2[0]) returns what is there, and it is printed.
ReadAnswer ==
  /\ parent = "read" /\ pipe2 # <<>>
  /\ shown' = shown \o pipe2 /\ pipe2' = <<>> /\ parent' = "fgets"
  /\ UNCHANGED <<child, holds, pipe1, asked, request>>

\* "parent: fputs error"
ShowFails == /\ parent = "read" /\ pipe2 # <<>> /\ ParentEnds("exit1") /\ pipe2' = <<>>
             /\ UNCHANGED <<child, pipe1, asked, shown, request>>

\* "child closed pipe"
ReadEnd == /\ parent = "read" /\ pipe2 = <<>> /\ Readers("w2") = {}
           /\ ParentEnds("exit0")
           /\ UNCHANGED <<child, data>>

\* Lines 81-96: the ends that are left become its standard input and output.
ChildPlumbs == /\ child = "close"
               /\ \/ child' = "exec" /\ holds' = [holds EXCEPT !["child"] = {"r1", "w2"}]
                  \/ child' = "exit1" /\ holds' = [holds EXCEPT !["child"] = {}]
               /\ UNCHANGED <<parent, data>>

CoproChildEnds(how) == child' = how /\ holds' = [holds EXCEPT !["child"] = {}]

CoproExec == /\ child = "exec"
             /\ \/ child' = "read" /\ UNCHANGED holds
                \/ CoproChildEnds("exit127")
             /\ UNCHANGED <<parent, data>>

\* add2.c, line 43: one read() takes all there is.
ReadRequest == /\ child = "read" /\ pipe1 # <<>>
               /\ request' = pipe1 /\ pipe1' = <<>> /\ child' = "answer"
               /\ UNCHANGED <<parent, holds, pipe2, asked, shown>>

ReadNothing == /\ child = "read" /\ pipe1 = <<>> /\ Readers("w1") = {}
               /\ CoproChildEnds("exit0")
               /\ UNCHANGED <<parent, data>>

\* Lines 44-59: one answer to what was read, or SIGPIPE by default.
AnswerIt ==
  /\ child = "answer"
  /\ IF Readers("r2") # {}
     THEN /\ child' = "read" /\ UNCHANGED holds
          /\ pipe2' = Append(pipe2, Answer[request[1]])
     ELSE CoproChildEnds("killed") /\ UNCHANGED pipe2
  /\ UNCHANGED <<parent, pipe1, asked, shown, request>>

Killed == \/ /\ parent \notin ParentEnded /\ ParentEnds("killed")
             /\ UNCHANGED <<child, data>>
          \/ /\ child \notin ChildEnded \cup {"unborn"} /\ CoproChildEnds("killed")
             /\ UNCHANGED <<parent, data>>

CoproParent == \/ Pipes \/ CoproFork \/ ParentCloses \/ Fgets \/ CoproWrite
               \/ ReadAnswer \/ ShowFails \/ ReadEnd
CoproChild  == ChildPlumbs \/ CoproExec \/ ReadRequest \/ ReadNothing \/ AnswerIt

CoproNext == CoproParent \/ CoproChild \/ Killed

CoproSpec == CoproInit /\ [][CoproNext]_coproVars

CoproFairSpec == CoproSpec /\ WF_coproVars(CoproParent) /\ WF_coproVars(CoproChild)

(* What must hold *)

CoproTypeOK == /\ parent \in {"pipe", "fork", "close", "fgets", "write", "read"} \cup ParentEnded
               /\ child \in {"unborn", "close", "exec", "read", "answer"} \cup ChildEnded
               /\ holds \in [CoproProcs -> SUBSET Ends]
               /\ asked \in Seq(Lines) /\ pipe1 \in Seq(Lines) /\ request \in Seq(Lines)
               /\ pipe2 \in Seq({"sum", "invalid"}) /\ shown \in Seq({"sum", "invalid"})

\* copro.c, lines 53-65: the pipes are in step.  What is printed is the answer
\* to each line in turn, and nothing is in the pipes while a line is read.
AnswersInStep ==
  /\ \A i \in 1..Len(shown) : shown[i] = Answer[asked[i]]
  /\ parent = "fgets" => Len(shown) = Len(asked) /\ pipe1 = <<>> /\ pipe2 = <<>>

\* The parent finds out when its child has gone (copro.c, lines 10-14 and
\* 66-69), and the child sees the end of its input when the parent has gone;
\* only an empty request is never answered.
CoproOver == \/ parent \in ParentEnded /\ child \in ChildEnded \cup {"unborn"}
             \/ parent = "read" /\ Line = "empty"
CoproEndsUnlessEmpty == <>[]CoproOver

------------------------------------------------------------------------------
(***************************************************************************)
(* pipe.c and pager.c: the parent writes to a pipe that its child reads.   *)
(* In pipe.c both do it once; in pager.c the parent copies a file line by  *)
(* line and the child is a pager, which may quit before the end.           *)
(***************************************************************************)

copyVars == <<program, lines, parent, child, holds, pipe, sent, paged, eof>>

CopyProcs == {"parent", "child"}
Ended == {"done", "failed", "killed"}

CopyInit == /\ program \in {"pipe", "pager"}
            /\ lines \in IF program = "pipe" THEN {1} ELSE 0..MaxLines
            /\ parent = "fork" /\ child = "none"
            /\ holds = [parent |-> {"r", "w"}, child |-> {}]
            /\ pipe = <<>> /\ sent = 0 /\ paged = <<>> /\ eof = FALSE

CopyFork == /\ parent = "fork"
            /\ \/ /\ parent' = "closer" /\ child' = "closew"
                  /\ holds' = [holds EXCEPT !.child = holds.parent]
               \/ /\ parent' = "failed" /\ UNCHANGED child
                  /\ holds' = [holds EXCEPT !.parent = {}]
            /\ UNCHANGED <<program, lines, pipe, sent, paged, eof>>

Readable == \E p \in CopyProcs : "r" \in holds[p]
Writable == \E p \in CopyProcs : "w" \in holds[p]

(* The parent *)

\* Mutant: the parent keeps the read end.
CloseRead_Skipped == /\ parent = "closer" /\ parent' = "copy"
                     /\ UNCHANGED <<program, lines, child, holds, pipe, sent, paged, eof>>

CloseRead == /\ parent = "closer" /\ parent' = "copy"
             /\ holds' = [holds EXCEPT !.parent = {"w"}]
             /\ UNCHANGED <<program, lines, child, pipe, sent, paged, eof>>

\* write() of the next line waits while the pipe is full; without a reader it
\* ends the program by SIGPIPE, or fails if that is ignored.
CopyWrite == /\ parent = "copy" /\ sent < lines
             /\ IF Readable
                THEN /\ Len(pipe) < PipeSize
                     /\ pipe' = Append(pipe, sent + 1) /\ sent' = sent + 1
                     /\ UNCHANGED <<parent, holds>>
                ELSE /\ parent' \in {"killed", "failed"} /\ holds' = [holds EXCEPT !.parent = {}]
                     /\ UNCHANGED <<pipe, sent>>
             /\ UNCHANGED <<program, lines, child, paged, eof>>

\* Mutant: the parent waits with the write end open.
CloseWrite_Skipped == /\ parent = "copy" /\ sent = lines /\ parent' = "waitpid"
                      /\ UNCHANGED <<program, lines, child, holds, pipe, sent, paged, eof>>

CloseWrite == /\ parent = "copy" /\ sent = lines /\ parent' = "waitpid"
              /\ holds' = [holds EXCEPT !.parent = {}]
              /\ UNCHANGED <<program, lines, child, pipe, sent, paged, eof>>

\* Mutant: the parent does not wait.
Waitpid_Skipped == /\ parent = "waitpid" /\ parent' = "done"
                   /\ UNCHANGED <<program, lines, child, holds, pipe, sent, paged, eof>>

Waitpid == /\ parent = "waitpid" /\ child \in Ended /\ parent' = "done"
           /\ UNCHANGED <<program, lines, child, holds, pipe, sent, paged, eof>>

\* fgets() fails in the middle of the file.
FgetsFails == /\ program = "pager" /\ parent = "copy" /\ parent' = "failed"
              /\ holds' = [holds EXCEPT !.parent = {}]
              /\ UNCHANGED <<program, lines, child, pipe, sent, paged, eof>>

CopyParent == CopyFork \/ CloseRead \/ CopyWrite \/ CloseWrite \/ Waitpid

(* The child *)

\* Mutant: the child keeps its write end.
ChildCloseWrite_Skipped ==
  /\ child = "closew" /\ child' = IF program = "pipe" THEN "read" ELSE "dup2"
  /\ UNCHANGED <<program, lines, parent, holds, pipe, sent, paged, eof>>

ChildCloseWrite ==
  /\ child = "closew" /\ child' = IF program = "pipe" THEN "read" ELSE "dup2"
  /\ holds' = [holds EXCEPT !.child = @ \ {"w"}]
  /\ UNCHANGED <<program, lines, parent, pipe, sent, paged, eof>>

\* dup2() to standard input, and execl() of the pager
CopyExec == /\ child = "dup2"
            /\ \/ child' = "read" /\ UNCHANGED holds
               \/ child' = "failed" /\ holds' = [holds EXCEPT !.child = {}]
            /\ UNCHANGED <<program, lines, parent, pipe, sent, paged, eof>>

CopyChildEnds == child' = "done" /\ holds' = [holds EXCEPT !.child = {}]

\* The child of pipe.c reads once, whatever there is.
Read == /\ child = "read"
        /\ \/ /\ pipe # <<>> /\ paged' = Append(paged, Head(pipe)) /\ pipe' = Tail(pipe)
              /\ UNCHANGED eof
              /\ IF program = "pipe" THEN CopyChildEnds ELSE UNCHANGED <<child, holds>>
           \/ /\ pipe = <<>> /\ ~Writable /\ eof' = TRUE /\ CopyChildEnds
              /\ UNCHANGED <<pipe, paged>>
        /\ UNCHANGED <<program, lines, parent, sent>>

\* The user quits the pager.
Quit == /\ program = "pager" /\ child = "read" /\ CopyChildEnds
        /\ UNCHANGED <<program, lines, parent, pipe, sent, paged, eof>>

CopyChild == ChildCloseWrite \/ CopyExec \/ Read

CopyNext == CopyParent \/ FgetsFails \/ CopyChild \/ Quit

CopySpec == CopyInit /\ [][CopyNext]_copyVars

\* Both are scheduled; nobody has to quit.
CopyFairSpec == CopySpec /\ WF_copyVars(CopyParent) /\ WF_copyVars(CopyChild)

(* What must hold *)

CopyTypeOK == /\ program \in {"pipe", "pager"} /\ lines \in 0..MaxLines \cup {1}
              /\ parent \in Ended \cup {"fork", "closer", "copy", "waitpid"}
              /\ child \in Ended \cup {"none", "closew", "dup2", "read"}
              /\ holds \in [CopyProcs -> SUBSET {"r", "w"}]
              /\ pipe \in Seq(1..lines) /\ Len(pipe) <= PipeSize
              /\ sent \in 0..lines /\ paged \in Seq(1..lines) /\ eof \in BOOLEAN

\* pager.c, lines 48-61: the pager gets the lines in order, and is told of their
\* end only after all that were written.
LinesInOrder == /\ Len(paged) <= sent /\ \A i \in DOMAIN paged : paged[i] = i
                /\ (eof => Len(paged) = sent /\ parent \notin {"fork", "closer", "copy"})

\* Lines 50-55: the parent dies in write() only if the pager has ended before.
DiesOnlyAfterPager == parent = "killed" => child \in Ended

\* Line 63: who has copied everything does not end before the pager.
ParentEndsLast == parent = "done" => child \in Ended

\* Lines 45-46, 61 and 69: the ends that are closed in both make both end,
\* whoever quits first.
BothOver == parent \in Ended /\ child \in Ended
BothEnd  == (child # "none") ~> BothOver

------------------------------------------------------------------------------
(***************************************************************************)
(* Runs of msgsnd.c put messages of types 1, 2, ... into the queue of a    *)
(* key, runs of msgrcv.c take them in the opposite order.  The queue holds *)
(* what earlier runs have left.                                            *)
(***************************************************************************)

queueVars == <<next, queue, got, killed>>

Runs == Senders \cup Receivers
Message(t, s) == [type |-> t, from |-> s]

\* An earlier run of msgsnd.c has got some way, and nobody has read.
QueueInit == /\ next = [p \in Runs |-> IF p \in Senders THEN 1 ELSE MaxType]
             /\ \E n \in 0..MaxType : queue = [i \in 1..n |-> Message(i, Earlier)]
             /\ got = [r \in Receivers |-> <<>>]
             /\ killed = {}

Done(p) == IF p \in Senders THEN next[p] > MaxType ELSE next[p] = 0

\* Mutant: IPC_NOWAIT, and the loop goes on.
Send_NoWait(s) ==
  /\ s \notin killed /\ next[s] <= MaxType
  /\ queue' = IF Len(queue) < Room THEN Append(queue, Message(next[s], s)) ELSE queue
  /\ next' = [next EXCEPT ![s] = @ + 1]
  /\ UNCHANGED <<got, killed>>

\* Mutant: for (i = 1; i < 7; ++i).
Send_Short(s) == /\ s \notin killed /\ next[s] < MaxType /\ Len(queue) < Room
                 /\ queue' = Append(queue, Message(next[s], s))
                 /\ next' = [next EXCEPT ![s] = @ + 1]
                 /\ UNCHANGED <<got, killed>>

\* msgsnd() with flag 0 sleeps while the queue is full.
Send(s) == /\ s \notin killed /\ next[s] <= MaxType /\ Len(queue) < Room
           /\ queue' = Append(queue, Message(next[s], s))
           /\ next' = [next EXCEPT ![s] = @ + 1]
           /\ UNCHANGED <<got, killed>>

\* Mutant: the last message of the type.
Oldest_Last(t) == {i \in DOMAIN queue : /\ queue[i].type = t
                                        /\ \A j \in DOMAIN queue : queue[j].type = t => j <= i}

\* Where the first message of type t is.
Oldest(t) == {i \in DOMAIN queue : /\ queue[i].type = t
                                   /\ \A j \in DOMAIN queue : queue[j].type = t => i <= j}

\* msgrcv() of a type sleeps while there is no message of it.
Receive(r) ==
  /\ r \notin killed /\ next[r] > 0
  /\ \E i \in Oldest(next[r]) :
       /\ queue' = SubSeq(queue, 1, i - 1) \o SubSeq(queue, i + 1, Len(queue))
       /\ got' = [got EXCEPT ![r] = Append(@, queue[i])]
  /\ next' = [next EXCEPT ![r] = @ - 1]
  /\ UNCHANGED killed

RunKilled(p) == /\ p \notin killed /\ ~Done(p)
             /\ killed' = killed \cup {p}
             /\ UNCHANGED <<next, queue, got>>

Run(p) == \/ p \in Senders /\ Send(p)
          \/ p \in Receivers /\ Receive(p)

QueueNext == \E p \in Runs : Run(p) \/ RunKilled(p)

QueueTypeOK == /\ next \in [Runs -> 0..MaxType + 1] /\ killed \subseteq Runs
               /\ Len(queue) <= Room
               /\ \A i \in DOMAIN queue : queue[i].type \in 1..MaxType
               /\ DOMAIN got = Receivers

Taken(t, s) == Cardinality({r \in Receivers : \E i \in DOMAIN got[r] : got[r][i] = Message(t, s)})
Kept(t, s)  == Cardinality({i \in DOMAIN queue : queue[i] = Message(t, s)})

\* A message a sender has sent is in the queue or has been taken by exactly one
\* receiver, and receivers take one message of each type, highest type first.
EachTakenOnce ==
  /\ \A s \in Senders, t \in 1..MaxType :
       Taken(t, s) + Kept(t, s) = IF t < next[s] THEN 1 ELSE 0
  /\ \A r \in Receivers : \A i \in DOMAIN got[r] : got[r][i].type = MaxType + 1 - i

\* msgsnd.c, lines 94-97: of messages with one type the first one is returned:
\* what an earlier run has left goes before what the others send.
OldestFirst ==
  \A r \in Receivers : got'[r] # got[r] =>
    LET m == got'[r][Len(got'[r])]
    IN  m.from # Earlier => \A i \in DOMAIN queue : queue[i] # Message(m.type, Earlier)

\* With a sender for each receiver everybody gets all types, unless the queue
\* is full before the highest type was sent (or a run is killed).
ServedOrFull == (\A r \in Receivers : Done(r)) \/ Len(queue) = Room \/ killed # {}
ServedUnlessFull == <>[]ServedOrFull

------------------------------------------------------------------------------
(***************************************************************************)
(* 15-ipc/7-fifo: fifo.c makes a FIFO and reads it to its end, wfifo.c     *)
(* writes to it.  Nobody removes the name; somebody else may.              *)
(***************************************************************************)

fifoVars == <<name, step, opened, line, given, read, late>>

FifoProcs == FifoReaders \cup FifoWriters
FifoEnded == {"exit0", "exit1", "killed"}

\* The FIFO of a run of fifo.c is named for it; an earlier one may have left another.
Fifos == FifoReaders \cup {Earlier}

FifoInit == /\ name \in {"none", Earlier}
            /\ step = [p \in FifoProcs |-> IF p \in FifoReaders THEN "mkfifo" ELSE "open"]
            /\ opened = [p \in FifoProcs |-> "none"] /\ line = [f \in Fifos |-> <<>>]
            /\ given = [w \in FifoWriters |-> 0] /\ read = [r \in FifoReaders |-> <<>>] /\ late = {}

Open(f, procs) == {p \in procs : opened[p] = f}

\* Line 53 of fifo.c: EEXIST, whatever "tempfifo" is.  The reader that makes a FIFO
\* stands for it.
Mkfifo(r) == /\ step[r] = "mkfifo"
             /\ IF name = "none" THEN name' = r /\ step' = [step EXCEPT ![r] = "open"]
                ELSE step' = [step EXCEPT ![r] = "exit1"] /\ UNCHANGED name
             /\ UNCHANGED <<opened, line, given, read, late>>

Unlink == /\ name # "none" /\ name' = "none"
          /\ UNCHANGED <<step, opened, line, given, read, late>>

\* open() waits for the other end, and lets who waits there go on.
OpenFifo(p, others, then) ==
  /\ step[p] = "open"
  /\ IF name = "none" THEN step' = [step EXCEPT ![p] = "exit1"] /\ UNCHANGED opened
     ELSE /\ opened' = [opened EXCEPT ![p] = name]
          /\ step' = [q \in FifoProcs |->
               IF q = p THEN IF Open(name, others) = {} THEN "wait" ELSE then
               ELSE IF q \in others /\ opened[q] = name /\ step[q] = "wait"
                    THEN IF q \in FifoReaders THEN "read" ELSE "write"
               ELSE step[q]]
  /\ UNCHANGED <<name, line, given, read>>

OpenRead(r) == OpenFifo(r, FifoWriters, "read") /\ UNCHANGED late

OpenWrite(w) == /\ OpenFifo(w, FifoReaders, "write")
                /\ late' = (IF \E r \in Open(name, FifoReaders) : step[r] = "close"
                            THEN late \cup {w} ELSE late)

\* What is in a FIFO is gone with the last of its ends.
Leaves(p, status) ==
  LET f == opened[p]
  IN /\ step' = [step EXCEPT ![p] = status] /\ opened' = [opened EXCEPT ![p] = "none"]
     /\ line' = IF f # "none" /\ Open(f, FifoProcs) = {p} THEN [line EXCEPT ![f] = <<>>] ELSE line
     /\ UNCHANGED <<name, given, read, late>>

\* Mutant: O_NONBLOCK, and EAGAIN is taken for the end.
ReadFifo_NonBlock(r) ==
  LET f == opened[r]
  IN /\ step[r] = "read"
     /\ \/ /\ line[f] # <<>> /\ line' = [line EXCEPT ![f] = Tail(@)]
           /\ read' = [read EXCEPT ![r] = Append(@, Head(line[f]))] /\ UNCHANGED step
        \/ /\ line[f] = <<>>
           /\ step' = [step EXCEPT ![r] = "close"] /\ UNCHANGED <<line, read>>
     /\ UNCHANGED <<name, opened, given, late>>

\* Lines 63-66 of fifo.c: 0 when the FIFO is empty and has no writer.
ReadFifo(r) ==
  LET f == opened[r]
  IN /\ step[r] = "read"
     /\ \/ /\ line[f] # <<>> /\ line' = [line EXCEPT ![f] = Tail(@)]
           /\ read' = [read EXCEPT ![r] = Append(@, Head(line[f]))] /\ UNCHANGED step
        \/ /\ line[f] = <<>> /\ Open(f, FifoWriters) = {}
           /\ step' = [step EXCEPT ![r] = "close"] /\ UNCHANGED <<line, read>>
     /\ UNCHANGED <<name, opened, given, late>>

CloseFifo(r) == step[r] = "close" /\ Leaves(r, "exit0")

\* Lines 16-21 of wfifo.c: without a reader SIGPIPE ends it, or write() fails.
WriteFifo(w) ==
  LET f == opened[w]
  IN /\ step[w] = "write" /\ given[w] < MaxGiven
     /\ \/ /\ Open(f, FifoReaders) # {} /\ Len(line[f]) < FifoSize
           /\ line' = [line EXCEPT ![f] = Append(@, <<w, given[w] + 1>>)]
           /\ given' = [given EXCEPT ![w] = @ + 1]
           /\ UNCHANGED <<name, step, opened, read, late>>
        \/ /\ Open(f, FifoReaders) = {}
           /\ Leaves(w, "killed") \/ Leaves(w, "exit1")

\* The end of its input, or an error.
InputEnds(w) == step[w] = "write" /\ (Leaves(w, "exit0") \/ Leaves(w, "exit1"))

FifoKilled(p) == step[p] \notin FifoEnded /\ Leaves(p, "killed")

Reader(r) == Mkfifo(r) \/ OpenRead(r) \/ ReadFifo(r) \/ CloseFifo(r)
Writer(w) == OpenWrite(w) \/ WriteFifo(w) \/ InputEnds(w)

FifoNext == \/ \E r \in FifoReaders : Reader(r)
            \/ \E w \in FifoWriters : Writer(w)
            \/ \E p \in FifoProcs : FifoKilled(p)
            \/ Unlink

FifoTypeOK == /\ name \in Fifos \cup {"none"} /\ opened \in [FifoProcs -> Fifos \cup {"none"}]
              /\ \A f \in Fifos : Len(line[f]) <= FifoSize
              /\ given \in [FifoWriters -> 0..MaxGiven]

\* fifo.c, lines 63-66: the lines of a writer come once and in order, and those of one
\* that has succeeded come all, unless a reader had seen the end of the FIFO before
\* that writer opened it, or was killed.
LinesArrive ==
  /\ \A r \in FifoReaders : \A i, j \in DOMAIN read[r] :
       i < j /\ read[r][i][1] = read[r][j][1] => read[r][i][2] < read[r][j][2]
  /\ \A w \in FifoWriters \ late :
       step[w] = "exit0" /\ (\A r \in FifoReaders : step[r] \in {"exit0", "exit1"}) =>
         \A i \in 1..given[w] : \E r \in FifoReaders : \E j \in DOMAIN read[r] : read[r][j] = <<w, i>>

\* Once both ends are open neither process waits for ever.
NobodyWaits == \A p \in FifoProcs : step[p] \notin {"read", "write"}
FifoEnds == []<>NobodyWaits
==============================================================================
