----------------------------- MODULE ThreadLife ------------------------------
(***************************************************************************)
(* How threads begin and end: create.c, exitjoin.c, errexit.c and detach.c *)
(* of 11-thread; attr.c, thrio.c and mutexatt.c of 12-thrctl; and threads  *)
(* that are cancelled, 12-thrctl/7-cancel/cancel.c and                     *)
(* 11-thread/5-cancelup/cancelup.c.                                        *)
(***************************************************************************)
EXTENDS Naturals, Sequences, SequencesExt

VARIABLES begun,      \* of the threads that begin and end: the program
          mainAt,     \* what main() does next, or how the process has ended
          thrAt,      \* thread -> what it does next
          detached,   \* threads that are detached
          failed,     \* pthread_join() has returned EINVAL
          arg,        \* of exitjoin.c
          told,       \* thread -> what it has printed, or read
          codes,      \* what main() has printed
          length,     \* of the file "today"
          self,       \* of mutexatt.c: "none", "held", "EDEADLK"
          main,       \* of cancel.c and cancelup.c: what main() does next
          asked,      \* pthread_cancel() was called
          thr1, thr2, \* of cancel.c: what each thread does next
          stdout,     \* the thread that has the lock of stdout, or "free"
          type,       \* cancelability type of thread 2
          at,         \* of cancelup.c: what each thread does next
          stack,      \* the handlers each thread has pushed
          ran,        \* those that were run, in order
          late        \* tid3 was read after main() had ended

------------------------------------------------------------------------------
(***************************************************************************)
(* Threads that begin and end, and are waited for.                         *)
(***************************************************************************)

startVars == <<begun, mainAt, thrAt, detached, failed, arg, told, codes, length, self>>

Workers == {1, 2}
Over == {"exit0", "exit1", "killed", "undefined"}
Running == mainAt \notin Over

StartInit ==
  /\ begun \in {"create", "exitjoin", "errexit", "detach", "attr", "thrio", "mutexatt"}
  /\ mainAt = "create1" /\ thrAt = [t \in Workers |-> "unborn"]
  /\ detached = {} /\ failed = FALSE /\ arg = 1
  /\ told = [t \in Workers |-> 0] /\ codes = <<>> /\ self = "none"
  /\ length \in IF begun = "thrio" THEN {0, 8, 30} ELSE {0}

\* pthread_create(), and what main() does when it fails.
Create(t, to, otherwise) ==
  /\ \/ mainAt' = to /\ thrAt' = [thrAt EXCEPT ![t] = "start"]
     \/ mainAt' = otherwise /\ UNCHANGED thrAt
  /\ UNCHANGED <<begun, detached, failed, arg, told, codes, length, self>>

MainGoes(to) == /\ mainAt' = to
                /\ UNCHANGED <<begun, thrAt, detached, failed, arg, told, codes, length, self>>

\* pthread_join() waits for the end of a thread that can be joined.  For a detached
\* one it returns EINVAL, or anything may happen when that has ended and is gone; so
\* it may when the thread was never created.
Join(t, to, code) ==
  \/ /\ t \notin detached /\ thrAt[t] = "ended"
     /\ thrAt' = [thrAt EXCEPT ![t] = "joined"] /\ mainAt' = to /\ codes' = codes \o code
     /\ UNCHANGED <<begun, detached, failed, arg, told, length, self>>
  \/ /\ t \in detached /\ thrAt[t] # "ended" /\ mainAt' = to /\ failed' = TRUE
     /\ UNCHANGED <<begun, thrAt, detached, arg, told, codes, length, self>>
  \/ /\ IF t \in detached THEN thrAt[t] = "ended" ELSE thrAt[t] = "unborn"
     /\ MainGoes("undefined")

\* A thread prints what it finds and ends.
Tells(t, what) == /\ Running /\ thrAt[t] = "start"
                  /\ thrAt' = [thrAt EXCEPT ![t] = "ended"] /\ told' = [told EXCEPT ![t] = what]
                  /\ UNCHANGED <<begun, mainAt, detached, failed, arg, codes, length, self>>

\* create.c: sleep(1) is all that lets the thread print before exit().
CreateMain == /\ begun = "create"
              /\ \/ mainAt = "create1" /\ Create(1, "sleep", "exit1")
                 \/ mainAt = "sleep" /\ MainGoes("exit0")

\* Lines 78-79: by then thread 1 may have read arg or not.
AssignArg == /\ mainAt = "arg" /\ mainAt' = "create2" /\ arg' = 2
             /\ UNCHANGED <<begun, thrAt, detached, failed, told, codes, length, self>>

\* exitjoin.c, where err_quit() returns.
ExitJoinMain == /\ begun = "exitjoin"
                /\ \/ mainAt = "create1" /\ Create(1, "arg", "arg")
                   \/ AssignArg
                   \/ mainAt = "create2" /\ Create(2, "join1", "join1")
                   \/ mainAt = "join1" /\ Join(1, "join2", <<arg>>)
                   \/ mainAt = "join2" /\ Join(2, "exit0", <<arg>>)

\* errexit.c: fp points into the stack of a thread that has ended, where thread 2 may be.
ErrExitMain == /\ begun = "errexit"
               /\ \/ mainAt = "create1" /\ Create(1, "join1", "exit1")
                  \/ mainAt = "join1" /\ Join(1, "create2", <<>>)
                  \/ mainAt = "create2" /\ Create(2, "sleep", "exit1")
                  \/ /\ mainAt = "sleep" /\ mainAt' \in {"exit0", "killed"}
                     /\ codes' \in {<<1234>>, <<0>>}
                     /\ UNCHANGED <<begun, thrAt, detached, failed, arg, told, length, self>>

\* detach.c goes on when there is no thread.
DetachMain == /\ begun = "detach"
              /\ \/ mainAt = "create1" /\ Create(1, "sleep", "sleep")
                 \/ mainAt = "sleep" /\ MainGoes("join1")
                 \/ mainAt = "join1" /\ Join(1, "exit0", <<>>)

\* Lines 9-15 of detach.c; pthread_detach() does nothing when main() has begun to wait.
DetachSelf == /\ begun = "detach" /\ Running /\ thrAt[1] = "start"
              /\ thrAt' = [thrAt EXCEPT ![1] = "sleep"] /\ told' = [told EXCEPT ![1] = 1]
              /\ detached' \in IF mainAt = "join1" THEN {{}, {1}} ELSE {{1}}
              /\ UNCHANGED <<begun, mainAt, failed, arg, codes, length, self>>

DetachedEnds == /\ begun = "detach" /\ Running /\ thrAt[1] = "sleep"
                /\ thrAt' = [thrAt EXCEPT ![1] = "ended"]
                /\ UNCHANGED <<begun, mainAt, detached, failed, arg, told, codes, length, self>>

\* Mutant: exit(0) instead of line 154.
AttrMain_Exits ==
  /\ begun = "attr"
  /\ \/ mainAt = "create1" /\ MainGoes("exit1")
     \/ /\ mainAt = "create1" /\ mainAt' = "join1" /\ detached' = {1}
        /\ thrAt' = [thrAt EXCEPT ![1] = "start"]
        /\ UNCHANGED <<begun, failed, arg, told, codes, length, self>>
     \/ mainAt = "join1" /\ Join(1, "exit0", <<>>)

\* attr.c: lines 125-139 may fail; the thread is created detached; pthread_exit() leaves
\* the process to the threads there are.
AttrMain ==
  /\ begun = "attr"
  /\ \/ mainAt = "create1" /\ MainGoes("exit1")
     \/ /\ mainAt = "create1" /\ mainAt' = "join1" /\ detached' = {1}
        /\ thrAt' = [thrAt EXCEPT ![1] = "start"]
        /\ UNCHANGED <<begun, failed, arg, told, codes, length, self>>
     \/ mainAt = "join1" /\ Join(1, "pthread_exit", <<>>)
     \/ mainAt = "pthread_exit" /\ thrAt[1] = "ended" /\ MainGoes("exit0")

\* thrio.c, whose threads have one file open; main() does not look at what they return.
ThrIoMain == /\ begun = "thrio"
             /\ \/ mainAt = "create1" /\ MainGoes("exit1")
                \/ mainAt = "create1" /\ Create(1, "create2", "exit1")
                \/ mainAt = "create2" /\ Create(2, "join1", "exit1")
                \/ mainAt = "join1" /\ Join(1, "join2", <<>>)
                \/ mainAt = "join2" /\ Join(2, "exit0", <<>>)

\* pread() from byte 3 or 10; 100 when there is nothing, or an error.
Pread(t) == LET from == IF t = 1 THEN 3 ELSE 10
            IN \/ Tells(t, 100)
               \/ length > from /\ Tells(t, from)

\* mutexatt.c: each call may fail until the type is set; then the second lock does.
MutexAttMain ==
  /\ begun = "mutexatt"
  /\ \/ mainAt = "create1" /\ MainGoes("exit1")
     \/ /\ mainAt = "create1" /\ mainAt' = "lock" /\ self' = "held"
        /\ UNCHANGED <<begun, thrAt, detached, failed, arg, told, codes, length>>
     \/ /\ mainAt = "lock" /\ mainAt' = "exit0" /\ self' = "EDEADLK"
        /\ UNCHANGED <<begun, thrAt, detached, failed, arg, told, codes, length>>

StartMain == \/ CreateMain \/ ExitJoinMain \/ ErrExitMain \/ DetachMain \/ AttrMain \/ ThrIoMain
             \/ MutexAttMain

StartThread(t) == \/ begun \in {"create", "errexit", "attr"} /\ Tells(t, t)
                  \/ begun = "exitjoin" /\ Tells(t, arg)
                  \/ begun = "thrio" /\ Pread(t)
                  \/ t = 1 /\ (DetachSelf \/ DetachedEnds)

StartNext == StartMain \/ \E t \in Workers : StartThread(t)

StartTypeOK == /\ thrAt \in [Workers -> {"unborn", "start", "sleep", "ended", "joined"}]
               /\ detached \subseteq {1} /\ failed \in BOOLEAN /\ arg \in 1..2
               /\ told \in [Workers -> {0, 1, 2, 3, 10, 100}]

\* exitjoin.c, lines 9-20 and 78-94: thread 2 finds 2, and so does main(), twice;
\* only thread 1 may find either.
ArgOverwritten ==
  begun = "exitjoin" => /\ codes \in {<<>>, <<2>>, <<2, 2>>}
                        /\ told[1] \in {0, 1, 2} /\ told[2] \in {0, 2}

\* detach.c, lines 40-43, and the others: a join that does not fail has seen the thread
\* end; and attr.c, line 154: the process does not end before its thread has entered.
JoinedHasEnded ==
  mainAt = "exit0" =>
    /\ begun = "detach" => failed \/ thrAt[1] = "joined"
    /\ begun \in {"exitjoin", "thrio"} => thrAt = [t \in Workers |-> "joined"]
    /\ begun = "attr" => told[1] = 1 /\ failed

\* Each of them ends.
StartEnds == <>(mainAt \in Over)

------------------------------------------------------------------------------
(***************************************************************************)
(* cancel.c: main cancels thread 2, which never ends by itself; thread 1   *)
(* disables its cancellation.  All of them print, and a thread that is     *)
(* cancelled asynchronously may leave stdout locked.                       *)
(***************************************************************************)

cancelVars == <<main, thr1, thr2, stdout, type, asked>>

CancelInit == /\ main = "create1" /\ thr1 = "unborn" /\ thr2 = "unborn"
              /\ stdout = "free" /\ type = "deferred" /\ asked = FALSE

CancelFailed == main = "failed"

\* Lines 127-133: main returns when a thread cannot be created.
CancelCreate ==
  /\ \/ main = "create1" /\ main' = "create2" /\ thr1' = "print" /\ UNCHANGED thr2
     \/ main = "create2" /\ main' = "print" /\ thr2' = "print" /\ UNCHANGED thr1
     \/ main \in {"create1", "create2"} /\ main' = "failed" /\ UNCHANGED <<thr1, thr2>>
  /\ UNCHANGED <<stdout, type, asked>>

\* printf() takes the lock of stdout, and gives it back.
Take(t) == stdout = "free" /\ stdout' = t
Give(t) == stdout = t /\ stdout' = "free"

GoMain(from, to) == main = from /\ main' = to /\ UNCHANGED <<thr1, thr2, type>>
Go1(from, to) == ~CancelFailed /\ thr1 = from /\ thr1' = to
                  /\ UNCHANGED <<main, thr2, type, asked>>
Go2(from, to) == ~CancelFailed /\ thr2 = from /\ thr2' = to /\ UNCHANGED <<main, thr1, asked>>

\* Lines 135-139; the second before that is no promise.
Main == \/ GoMain("print", "printing") /\ Take("main") /\ UNCHANGED asked
        \/ GoMain("printing", "cancel") /\ Give("main") /\ UNCHANGED asked
        \/ GoMain("cancel", "exited") /\ asked' = TRUE /\ UNCHANGED stdout

\* Lines 5-39: its prints are one here; it is never cancelled.
Thread1 == \/ Go1("print", "printing") /\ Take("thr1")
           \/ Go1("printing", "ended") /\ Give("thr1")

\* Mutant: line 46 is missing.
SetType_Skipped == Go2("settype", "print2") /\ UNCHANGED <<stdout, type>>

\* Line 46.
SetType == Go2("settype", "print2") /\ type' = "asynchronous" /\ UNCHANGED stdout

\* Lines 45, 52 and 53.
Print2 == /\ \/ Go2("print", "printing") /\ Take("thr2")
             \/ Go2("printing", "settype") /\ Give("thr2")
             \/ Go2("print2", "printing2") /\ Take("thr2")
             \/ Go2("printing2", "loop") /\ Give("thr2")
          /\ UNCHANGED type

\* Deferred cancellation acts where printf() writes, and gives its lock back.
CancelDeferred == /\ asked /\ type = "deferred" /\ Go2("printing", "ended") /\ Give("thr2")
                  /\ UNCHANGED type

\* Asynchronous cancellation acts anywhere; in the middle of printf() the lock
\* is given back or not.
CancelNow == /\ asked /\ type = "asynchronous"
             /\ \E from \in {"print2", "printing2", "loop"} : Go2(from, "ended")
             /\ stdout' \in (IF stdout = "thr2" THEN {"thr2", "free"} ELSE {stdout})
             /\ UNCHANGED type

Thread2 == SetType \/ Print2 \/ CancelDeferred

CancelNext == CancelCreate \/ Main \/ Thread1 \/ Thread2 \/ CancelNow

(* What must hold *)

CancelTypeOK ==
  /\ main \in {"create1", "create2", "print", "printing", "cancel", "exited", "failed"}
  /\ thr1 \in {"unborn", "print", "printing", "ended"}
  /\ thr2 \in {"unborn", "print", "printing", "settype", "print2", "printing2", "loop", "ended"}
  /\ stdout \in {"free", "main", "thr1", "thr2"} /\ type \in {"deferred", "asynchronous"}
  /\ asked \in BOOLEAN

\* Lines 53-60: thread 2 leaves its loop only because it was cancelled, and what
\* has stdout is printing, unless it was cancelled while it did.
StdoutOwned ==
  /\ thr2 = "ended" => asked
  /\ stdout = "main" => main = "printing"
  /\ stdout = "thr1" => thr1 = "printing"
  /\ stdout = "thr2" =>
       thr2 \in {"printing", "printing2"} \/ (thr2 = "ended" /\ type = "asynchronous")

\* The process ends, or thread 1 waits for ever for a lock that thread 2 has
\* taken with it.
EndsUnlessTorn == \/ <>(CancelFailed \/ (thr1 = "ended" /\ thr2 = "ended"))
                  \/ <>[](stdout = "thr2" /\ thr2 = "ended" /\ thr1 = "print")

------------------------------------------------------------------------------
(***************************************************************************)
(* cancelup.c: thread 1 cancels thread 3 and returns, thread 2 pops two of *)
(* its clean-up handlers and exits, thread 3 prints until it is cancelled. *)
(* Thread 1 reads tid3 in the frame of main().                             *)
(***************************************************************************)

Threads == {1, 2, 3}

cleanupVars == <<main, at, stack, ran, asked, late>>

\* The handlers each thread pushes.
Pushes == [t \in Threads |-> IF t = 1 THEN 2 ELSE IF t = 2 THEN 4 ELSE 1]

CleanupInit == /\ main = "create3" /\ at = [t \in Threads |-> "unborn"]
               /\ stack = [t \in Threads |-> <<>>] /\ ran = [t \in Threads |-> <<>>]
               /\ asked = FALSE /\ late = FALSE

CleanupFailed == main = "quit"

\* Lines 131-145; err_quit() ends the process.
CleanupCreate ==
  /\ \/ main = "create3" /\ main' = "create1" /\ at' = [at EXCEPT ![3] = "push"]
     \/ main = "create1" /\ main' = "create2" /\ at' = [at EXCEPT ![1] = "push"]
     \/ main = "create2" /\ main' = "sleep" /\ at' = [at EXCEPT ![2] = "push"]
     \/ main = "sleep" /\ main' = "exited" /\ UNCHANGED at
     \/ main \in {"create3", "create1", "create2"} /\ main' = "quit" /\ UNCHANGED at
  /\ UNCHANGED <<stack, ran, asked, late>>

Go(t, from, to) == ~CleanupFailed /\ at[t] = from /\ at' = [at EXCEPT ![t] = to]

\* Lines 14-15, 41-44 and 70; the handlers are numbered as they are pushed.
Push(t) ==
  /\ Go(t, "push", IF Len(stack[t]) + 1 < Pushes[t] THEN "push"
                   ELSE IF t = 1 THEN "cancel" ELSE IF t = 2 THEN "pop1" ELSE "loop")
  /\ stack' = [stack EXCEPT ![t] = Append(@, Len(@) + 1)]
  /\ UNCHANGED <<main, ran, asked, late>>

\* Lines 16-20: what main() leaves of tid3 may be anything; then nobody is
\* cancelled, and pthread_cancel() may fail.
Cancel ==
  /\ \/ Go(1, "cancel", "return") /\ asked' = TRUE /\ UNCHANGED <<late, main>>
     \/ main = "exited" /\ Go(1, "cancel", "return") /\ late' = TRUE /\ UNCHANGED <<asked, main>>
     \/ main = "exited" /\ Go(1, "cancel", "return") /\ late' = TRUE /\ main' = "quit"
        /\ UNCHANGED asked
  /\ UNCHANGED <<stack, ran>>

\* Line 25: a return runs no handler.
Return == Go(1, "return", "ended") /\ UNCHANGED <<main, stack, ran, asked, late>>

\* Mutant: the two arguments are exchanged.
Pop_Swapped(execute, from, to) ==
  /\ Go(2, from, to) /\ stack' = [stack EXCEPT ![2] = Front(@)]
  /\ ran' = (IF execute = 0 THEN [ran EXCEPT ![2] = Append(@, Last(stack[2]))] ELSE ran)
  /\ UNCHANGED <<main, asked, late>>

\* pthread_cleanup_pop(): the last one goes, and is run if the argument is not 0.
Pop(execute, from, to) ==
  /\ Go(2, from, to) /\ stack' = [stack EXCEPT ![2] = Front(@)]
  /\ ran' = (IF execute # 0 THEN [ran EXCEPT ![2] = Append(@, Last(stack[2]))] ELSE ran)
  /\ UNCHANGED <<main, asked, late>>

\* Lines 49 and 54.
Pops == Pop(1, "pop1", "pop2") \/ Pop(0, "pop2", "exit")

\* Line 61, and the cancellation of thread 3 at a printf() that writes: the
\* handlers are run one by one, the last first.
Exit2 == Go(2, "exit", "unwind") /\ UNCHANGED <<main, stack, ran, asked, late>>

\* Mutant: no cancellation point in the loop (lines 72-78).
Cancelled_Never == FALSE /\ UNCHANGED cleanupVars

Cancelled == asked /\ Go(3, "loop", "unwind") /\ UNCHANGED <<main, stack, ran, asked, late>>

Unwind(t) ==
  \/ /\ stack[t] # <<>> /\ Go(t, "unwind", "unwind")
     /\ ran' = [ran EXCEPT ![t] = Append(@, Last(stack[t]))]
     /\ stack' = [stack EXCEPT ![t] = Front(@)] /\ UNCHANGED <<main, asked, late>>
  \/ /\ stack[t] = <<>> /\ Go(t, "unwind", "ended") /\ UNCHANGED <<main, stack, ran, asked, late>>

Thread(t) == \/ Push(t) \/ Unwind(t)
             \/ t = 1 /\ (Cancel \/ Return)
             \/ t = 2 /\ (Pops \/ Exit2)
             \/ t = 3 /\ Cancelled

CleanupNext == CleanupCreate \/ \E t \in Threads : Thread(t)

(* What must hold *)

CleanupTypeOK ==
  /\ main \in {"create3", "create1", "create2", "sleep", "exited", "quit"}
  /\ at \in [Threads -> {"unborn", "push", "cancel", "return", "pop1", "pop2", "exit", "loop",
                         "unwind", "ended"}]
  /\ \A t \in Threads : Len(stack[t]) + Len(ran[t]) <= Pushes[t]
  /\ asked \in BOOLEAN /\ late \in BOOLEAN

\* Lines 46-59: handlers are run in the opposite order, each once; the third of
\* thread 2 never, those of thread 1 not at all, that of thread 3 when it was asked.
HandlersInReverse ==
  /\ ran[1] = <<>>
  /\ ran[2] \in {SubSeq(<<4, 2, 1>>, 1, k) : k \in 0..3}
  /\ at[2] = "ended" => ran[2] = <<4, 2, 1>>
  /\ at[3] \in {"unwind", "ended"} => asked
  /\ at[3] = "ended" => ran[3] = <<1>>

\* The process ends, unless thread 1 was so late that main() had left tid3 behind:
\* the second of line 143 is all that keeps it alive.
EndsUnlessLate == <>(CleanupFailed \/ (\A t \in Threads : at[t] = "ended") \/ late)
==============================================================================
