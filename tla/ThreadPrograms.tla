---------------------------- MODULE ThreadPrograms ----------------------------
(***************************************************************************)
(* The programs of 11-thread and 12-thrctl that are modelled, one at a     *)
(* time: cond.c, thrsig.c, thrfork.c, rwlock.c, mutex.c, thrsafe.c,        *)
(* thrspec.c, cancel.c and cancelup.c; and those that begin and end, of    *)
(* which ThreadLife tells the one that has begun.                          *)
(***************************************************************************)
EXTENDS Naturals, FiniteSets

CONSTANT MaxSent   \* bound on the signals sent to thrsig.c

ASSUME MaxSentAssumption == MaxSent \in Nat

VARIABLES prog,                        \* the program that runs
          mutex,                       \* of cond.c and thrsig.c
          pc, state, blocked,          \* of cond.c
          main, thr, waiting, quitflag, pending, taken, ended, \* of thrsig.c
          sent,                        \* of both
          at, lock,                    \* of thrfork.c: its pc and lock
          rwMain, rwThr1, rwThr2, readers, writer, misused, \* of rwlock.c
          muMain, muThr1, muThr2, i1, i2, number, holder,   \* of mutex.c
          user, envMain, envThr, once, envLock, envbuf, buf, got, shown, \* of both getenv
          caMain, caThr1, caThr2, stdout, type, caAsked,    \* of cancel.c
          upMain, upAt, stack, ran, upAsked, late,          \* of cancelup.c
          begun, mainAt, thrAt, detached, failed, arg, told, codes, length, self

condVars == <<pc, state, blocked>>
sigVars  == <<main, thr, waiting, quitflag, pending, taken, ended>>
forkVars == <<at, lock>>
rwVars   == <<rwMain, rwThr1, rwThr2, readers, writer, misused>>
muVars   == <<muMain, muThr1, muThr2, i1, i2, number, holder>>
envVars  == <<user, envMain, envThr, once, envLock, envbuf, buf, got, shown>>
caVars   == <<caMain, caThr1, caThr2, stdout, type, caAsked>>
upVars   == <<upMain, upAt, stack, ran, upAsked, late>>
startVars == <<begun, mainAt, thrAt, detached, failed, arg, told, codes, length, self>>
lockVars == <<forkVars, rwVars, muVars>>
endVars  == <<caVars, upVars, startVars>>
vars == <<prog, mutex, condVars, sigVars, sent, lockVars, envVars, endVars>>

C == INSTANCE CondWait
T == INSTANCE ThreadSignal
R == INSTANCE ThreadLocks WITH main <- rwMain, thr1 <- rwThr1, thr2 <- rwThr2
M == INSTANCE ThreadLocks WITH main <- muMain, thr1 <- muThr1, thr2 <- muThr2
GR == INSTANCE Getenv WITH Specific <- FALSE, main <- envMain, thr <- envThr, lock <- envLock
GS == INSTANCE Getenv WITH Specific <- TRUE, main <- envMain, thr <- envThr, lock <- envLock
CA == INSTANCE ThreadLife WITH main <- caMain, asked <- caAsked, thr1 <- caThr1, thr2 <- caThr2,
                               at <- upAt
UP == INSTANCE ThreadLife WITH main <- upMain, asked <- upAsked, thr1 <- caThr1, thr2 <- caThr2,
                               at <- upAt

\* What a program does not have keeps its first value.
CondIdle == pc = [t \in C!Threads |-> "none"] /\ state = 0 /\ blocked = {}
ForkIdle == at = [t \in R!ForkThreads |-> "none"] /\ lock = <<>>
SigIdle  == /\ main = "block" /\ thr = "none" /\ waiting = FALSE /\ quitflag = 0
            /\ pending = {} /\ taken = 0 /\ ended = "no"
EnvIdle  == /\ user = FALSE /\ envMain = "create1" /\ envThr = [t \in GR!Threads |-> "unborn"]
            /\ once = "never" /\ envLock = "free" /\ envbuf = "zeros"
            /\ buf = [t \in GR!Threads |-> "none"] /\ got = buf
            /\ shown = [t \in GR!Threads |-> {}]
StartIdle == /\ begun = "create" /\ mainAt = "create1" /\ thrAt = [t \in CA!Workers |-> "unborn"]
             /\ detached = {} /\ failed = FALSE /\ arg = 1 /\ told = [t \in CA!Workers |-> 0]
             /\ codes = <<>> /\ length = 0 /\ self = "none"

Init ==
  /\ prog \in {"cond", "thrsig", "thrfork", "rwlock", "mutex", "thrsafe", "thrspec", "cancel",
               "cancelup", "start"}
  /\ R!RwInit /\ M!MutexInit /\ CA!CancelInit /\ UP!CleanupInit
  /\ IF prog = "cond"    THEN C!Init ELSE CondIdle
  /\ IF prog = "thrsig"  THEN T!Init ELSE SigIdle
  /\ IF prog = "thrfork" THEN R!ForkInit ELSE ForkIdle
  /\ CASE prog = "thrsafe" -> GR!Init
       [] prog = "thrspec" -> GS!Init
       [] OTHER            -> EnvIdle
  /\ IF prog = "start"   THEN CA!StartInit ELSE StartIdle
  /\ prog \notin {"cond", "thrsig"} => mutex = "free" /\ sent = 0

InCond(A) == prog = "cond" /\ A /\ UNCHANGED <<prog, sigVars, lockVars, envVars, endVars>>
InSig(A)  == prog = "thrsig" /\ A /\ UNCHANGED <<prog, condVars, lockVars, envVars, endVars>>
Other(A)  == A /\ UNCHANGED <<prog, mutex, condVars, sigVars, sent>>
InFork(A) == prog = "thrfork" /\ Other(A) /\ UNCHANGED <<rwVars, muVars, envVars, endVars>>
InRw(A)   == prog = "rwlock" /\ Other(A) /\ UNCHANGED <<forkVars, muVars, envVars, endVars>>
InMu(A)   == prog = "mutex" /\ Other(A) /\ UNCHANGED <<forkVars, rwVars, envVars, endVars>>
InEnv(A)  == Other(A) /\ UNCHANGED <<lockVars, endVars>>
InSafe(A) == prog = "thrsafe" /\ InEnv(A)
InSpec(A) == prog = "thrspec" /\ InEnv(A)
InCa(A)   == prog = "cancel" /\ Other(A) /\ UNCHANGED <<lockVars, envVars, upVars, startVars>>
InUp(A)   == prog = "cancelup" /\ Other(A) /\ UNCHANGED <<lockVars, envVars, caVars, startVars>>
InStart(A) == prog = "start" /\ Other(A) /\ UNCHANGED <<lockVars, envVars, caVars, upVars>>

Next == \/ InCond(C!Next) \/ InSig(T!Next) \/ InFork(R!ForkNext) \/ InRw(R!RwNext)
        \/ InMu(M!MutexNext) \/ InSafe(GR!Next) \/ InSpec(GS!Next)
        \/ InCa(CA!CancelNext) \/ InUp(UP!CleanupNext) \/ InStart(CA!StartNext)

MainThread   == \/ InCond(C!Main \/ C!Waiter("main")) \/ InSig(T!MainThread)
                \/ InFork(R!ForkMain) \/ InRw(R!RwMain) \/ InMu(M!MutexMain)
                \/ InSafe(GR!Create) \/ InSpec(GS!Create)
                \/ InCa(CA!CancelCreate \/ CA!Main) \/ InUp(UP!CleanupCreate)
                \/ InStart(CA!StartMain)
SecondThread == \/ InCond(C!Waiter("thread2")) \/ InSig(T!SignalThread)
                \/ InFork(R!ForkThread2) \/ InRw(R!RwThread2) \/ InMu(M!MutexThread2)
                \/ InSafe(GR!Thread("thread2")) \/ InSpec(GS!Thread("thread2"))
                \/ InCa(CA!Thread2) \/ InUp(UP!Thread(2))
                \/ InStart(CA!StartThread(2))
ThirdThread  == \/ InCond(C!Thread1) \/ InFork(R!ForkChild)
                \/ InRw(R!RwThread1) \/ InMu(M!MutexThread1)
                \/ InSafe(GR!Thread("thread1")) \/ InSpec(GS!Thread("thread1"))
                \/ InCa(CA!Thread1) \/ InUp(UP!Thread(1))
                \/ InStart(CA!StartThread(1))

Spec == Init /\ [][Next]_vars

\* Every thread is scheduled.  A wait is promised neither a spurious wake-up nor
\* its timeout, and thrsig.c's signal thread gets a mutex that is free again
\* and again.
FairSpec == /\ Spec
            /\ WF_vars(MainThread) /\ WF_vars(SecondThread) /\ WF_vars(ThirdThread)
            /\ SF_vars(InSig(T!ThrLock))
            /\ WF_vars(InCa(CA!CancelNow)) /\ WF_vars(InUp(UP!Thread(3)))

------------------------------------------------------------------------------
(* What must hold, program by program *)

TypeOK == CASE prog = "cond"    -> C!TypeOK
            [] prog = "thrsig"  -> T!TypeOK
            [] prog = "thrfork" -> R!ForkTypeOK
            [] prog = "rwlock"  -> R!RwTypeOK
            [] prog = "mutex"   -> M!MutexTypeOK
            [] prog = "thrsafe" -> GR!TypeOK
            [] prog = "thrspec" -> GS!TypeOK
            [] prog = "cancel"  -> CA!CancelTypeOK
            [] prog = "cancelup" -> UP!CleanupTypeOK
            [] prog = "start"   -> CA!StartTypeOK

\* cond.c, lines 29-33, 48-60 and 107-123: two signals are enough for two
\* waiters, although state was set without the mutex, and who leaves a wait loop
\* finds the condition true.  thrsig.c, lines 31-36 and 145-158: main leaves its
\* loop only for a SIGQUIT that was taken, the flag it clears without the mutex
\* stays cleared, and only a signal that comes too late kills the process.
WokenForCause ==
  /\ prog = "cond" => C!NoLostWakeup /\ C!WakesForReason
  /\ prog = "thrsig" => T!LeavesOnQuit /\ T!ClearedForGood /\ T!KilledByExtraSignal

\* thrfork.c, lines 39-78 and 119-128: the child never has a lock of a thread
\* that was not copied, and the handlers unlock what prepare() has locked.
\* rwlock.c, lines 58-69 and 134: each thread has the lock that its next unlock
\* gives back, and only main unlocks a lock that nobody has.  mutex.c, lines
\* 14-22 and 164: number is as the holder of the mutex left it, except before
\* thread 1 takes the mutex at all, and the mutex is free when it is destroyed.
\* thrsafe.c, lines 57-71, and thrspec.c, lines 13-27: thread_init() has ended
\* before what it makes is used, and a thread prints the value if there is one,
\* from a buffer that is its own and not freed.  cancel.c, lines 53-60: who has
\* stdout prints.  cancelup.c, lines 46-59: clean-up handlers are run in the
\* opposite order, each once, and only for those who exit or are cancelled.
\* exitjoin.c, lines 9-20 and 78-94: only thread 1 may find either value of what it
\* shares with main(); a join that does not fail has seen its thread end.
LocksKept ==
  /\ prog = "thrfork" => R!NoOrphanLock /\ R!HandlersUnlockOwn
  /\ prog = "rwlock" => R!EachHasWhatItUnlocks /\ R!OnlyMainMisuses
  /\ prog = "mutex" => M!UndisturbedWithMutex /\ M!DestroyedFree
  /\ prog = "thrsafe" => GR!InitBeforeUse /\ GR!PrintsValue
  /\ prog = "thrspec" => GS!InitBeforeUse /\ GS!PrintsValue
  /\ prog = "cancel" => CA!StdoutOwned
  /\ prog = "cancelup" => UP!HandlersInReverse
  /\ prog = "start" => CA!ArgOverwritten /\ CA!JoinedHasEnded

\* cond.c ends even if no timed wait ever times out; main of thrsig.c cannot
\* miss the wake-up call; neither fork() nor the child of thrfork.c waits for
\* ever for a lock; mutex.c ends; rwlock.c ends, or thread 2 waits for ever
\* because thread 1 has ended with the read lock of line 28.  Threads that fail to
\* get memory (thrspec.c, lines 58-61) let the other one go on; cancel.c ends unless
\* a thread is cancelled inside printf(), cancelup.c unless thread 1 is late;
\* those that wait for their threads see them end.
ThreadsEnd ==
  /\ (prog = "cond") => C!Terminates
  /\ (prog = "thrsig") => T!QuitEnds
  /\ (prog = "thrfork") => R!ForkEnds
  /\ (prog = "rwlock") => R!EndsUnlessLeft
  /\ (prog = "mutex") => M!Ends
  /\ (prog = "thrsafe") => GR!Ends
  /\ (prog = "thrspec") => GS!Ends
  /\ (prog = "cancel") => CA!EndsUnlessTorn
  /\ (prog = "cancelup") => UP!EndsUnlessLate
  /\ (prog = "start") => CA!StartEnds
==============================================================================
