----------------------------- MODULE ThreadProofs -----------------------------
(***************************************************************************)
(* The invariants of the programs of ThreadPrograms, each with an          *)
(* inductive invariant of its own: which locks a thread has at each of its *)
(* steps, and what it has sent, printed, pushed or seen by then.           *)
(***************************************************************************)
EXTENDS ThreadPrograms, Sequences, SequenceTheorems, TLAPS

------------------------------------------------------------------------------
(* cond.c *)

\* Who is between its lock and its unlock has the mutex.  A waiter that is about to
\* wait has found state still 0, so thread 1 has not signalled: with each of its
\* signals one of the two waiters is gone from the queue for good.
CondInv ==
  /\ C!TypeOK
  /\ \A w \in C!Waiters : pc[w] \in {"test", "wait", "unlock"} => mutex = w
  /\ pc["thread1"] \in {"signal", "unlock"} => mutex = "thread1"
  /\ pc["thread1"] \in {"lock", "signal", "unlock", "done"} => state = 1
  /\ pc["thread1"] \in {"none", "sleep", "lock", "signal", "unlock", "done", "gone"}
  /\ pc["main"] = "create1" => pc["thread1"] = "none"
  /\ pc["thread1"] = "gone" => \A w \in C!Waiters : pc[w] = "gone"
  /\ pc["thread1"] \in {"none", "sleep"} => sent = 0
  /\ pc["thread1"] \in {"lock", "signal"} => sent < 2
  /\ pc["thread1"] = "unlock" => sent > 0
  /\ pc["thread1"] = "done" => sent = 2
  /\ \A w \in C!Waiters : pc[w] = "wait" => sent = 0
  /\ \A w \in C!Waiters : pc[w] \in {"unlock", "join", "done"} => state = 1
  /\ sent = 1 => blocked # C!Waiters
  /\ sent = 2 => blocked = {}

------------------------------------------------------------------------------
(* thrsig.c *)

\* How many of the signals of one kind are pending.
Waits(s) == IF s \in pending THEN 1 ELSE 0

\* What is taken or pending was sent, and only a thread that has taken a SIGQUIT
\* sets the flag.
SigInv ==
  /\ T!TypeOK
  /\ taken + Waits("INT") + Waits("QUIT") <= sent
  /\ main \in {"block", "create"} => thr = "none"
  /\ thr \notin {"none", "sigwait"} => taken > 0
  /\ quitflag = 1 => thr \in {"unlock", "signal", "done"}
  /\ T!LeavesOnQuit
  /\ T!ClearedForGood
  /\ T!KilledByExtraSignal

------------------------------------------------------------------------------
(* thrfork.c *)

\* What prepare(), parent() and child() hold on their way.
ForkInv ==
  /\ R!ForkTypeOK
  /\ at["main"] = "prepare2" => lock["parent"][1] = "main"
  /\ at["main"] \in {"fork", "parent1"} => \A k \in R!Locks : lock["parent"][k] = "main"
  /\ at["main"] = "parent2" => lock["parent"][2] = "main"
  /\ at["thread2"] = "sleep" => lock["parent"][1] = "thread2"
  /\ at["child"] \in {"none", "child1", "child2", "return", "gone"}
  /\ at["child"] = "child1" => \A k \in R!Locks : lock["child"][k] = "main"
  /\ at["child"] = "child2" => lock["child"][1] = "free" /\ lock["child"][2] = "main"
  /\ at["child"] \in {"none", "return", "gone"} => \A k \in R!Locks : lock["child"][k] = "free"

------------------------------------------------------------------------------
(* rwlock.c *)

\* Thread 1 asks for the write lock while it reads, so only thread 2 ever writes.
RwSteps ==
  /\ rwMain \in {"create", "create2", "join1", "join2", "unlock", "destroy", "failed", "done"}
  /\ rwThr1 \in {"unborn", "rdlock", "trywrlock", "unlock", "tryrdlock", "exit", "ended"}
  /\ rwThr2 \in {"unborn", "rdlock", "unlock", "wrlock", "unlock2", "exit", "ended"}
  /\ rwMain \in {"create", "create2"} => rwThr2 = "unborn"
  /\ rwMain \in {"join2", "unlock", "destroy", "done"} => rwThr1 = "ended"
  /\ rwMain \in {"unlock", "destroy", "done"} => rwThr2 = "ended"

RwHolders ==
  /\ readers \subseteq {1, 2} /\ writer \in {0, 2}
  /\ (writer = 2) <=> (rwThr2 = "unlock2")
  /\ (2 \in readers) <=> (rwThr2 = "unlock")
  /\ rwThr1 \in {"trywrlock", "unlock"} => 1 \in readers
  /\ writer # 0 => readers = {}

RwMisuse == misused \in BOOLEAN /\ (misused => rwMain \in {"destroy", "done"})

RwInv == RwSteps /\ RwHolders /\ RwMisuse

------------------------------------------------------------------------------
(* mutex.c *)

\* From i1 = 10 on thread 1 has the mutex whenever it uses number; what thread 2
\* may find besides its own value is the last one that was written without it.
MutexInv ==
  /\ M!MutexTypeOK
  /\ muMain = "create1" => muThr1 = "unborn" /\ muThr2 = "unborn"
  /\ muMain = "create2" => muThr1 # "unborn" /\ muThr2 = "unborn"
  /\ muMain \in {"join2", "destroy", "done"} => muThr1 = "ended"
  /\ muMain \in {"destroy", "done"} => muThr2 = "ended"
  /\ muThr1 = "unborn" => muThr2 = "unborn" /\ i1 = 0
  /\ muThr1 = "lock" => i1 = 10
  /\ muThr1 \in {"unlock", "ended"} => i1 = 12
  /\ (holder = 1) <=> (muThr1 \in {"write", "show", "unlock"} /\ i1 >= 10)
  /\ (holder = 2) <=> (muThr2 \in {"write", "show", "unlock"})
  /\ muThr1 = "show" /\ i1 >= 10 => number = i1
  /\ muThr1 = "show" /\ i1 < 10 /\ muThr2 = "show" => number \in {i1, i2}
  /\ muThr2 = "show" /\ i1 >= 10 => number \in {i2, 2}

------------------------------------------------------------------------------
(* thrsafe.c and thrspec.c *)

\* What is the same in both: thread_init() is run by the thread once names, and
\* the mutex is held between lock and unlock.
OnceInv ==
  /\ envMain = "create1" => envThr["thread1"] = "unborn" /\ envThr["thread2"] = "unborn"
  /\ envMain = "create2" => envThr["thread2"] = "unborn"
  /\ \A t \in GR!Threads : envThr[t] = "init" <=> once = t
  /\ \A t \in GR!Threads :
       envThr[t] \in {"lock", "alloc", "copy", "unlock", "print", "exit", "ended"} => once = "done"
  /\ \A t \in GR!Threads : envThr[t] \in {"alloc", "copy", "unlock"} => envLock = t

\* thrsafe.c: the static buffer has the value once somebody has written it, the
\* caller's buffer after the copy.
SafeInv ==
  /\ GR!TypeOK
  /\ OnceInv
  /\ \A t \in GR!Threads : envThr[t] # "alloc"
  /\ \A t \in GR!Threads : envThr[t] = "show" /\ user => envbuf = "value"
  /\ \A t \in GR!Threads : buf[t] \in (IF user THEN {"garbage", "value"} ELSE {"garbage"})
  /\ \A t \in GR!Threads : got[t] # "NULL"
  /\ \A t \in GR!Threads : envThr[t] \in {"unlock", "print"} /\ user => buf[t] = "value"
  /\ \A t \in GR!Threads : shown[t] \subseteq IF user THEN {"value"} ELSE {"garbage", "NULL"}
  /\ ~user => envbuf = "zeros"

\* thrspec.c: a buffer that is not NULL and was returned holds the value, and it is
\* freed by nobody but its thread.
SpecInv ==
  /\ GS!TypeOK
  /\ OnceInv
  /\ \A t \in GS!Threads : envThr[t] \notin {"getenv", "show"}
  /\ \A t \in GS!Threads : envThr[t] \in {"copy", "unlock"} => buf[t] \in {"garbage", "value"}
  /\ \A t \in GS!Threads : envThr[t] = "unlock" => got[t] \in {"buffer", "NULL"}
  /\ \A t \in GS!Threads : envThr[t] = "print" => got[t] \in {"buffer", "NULL"}
  /\ \A t \in GS!Threads :
       envThr[t] \in {"unlock", "print"} /\ got[t] = "buffer" => buf[t] = "value"
  /\ \A t \in GS!Threads : envThr[t] = "ended" => buf[t] \in {"none", "freed"}
  /\ \A t \in GS!Threads : shown[t] \subseteq {"value", "NULL"}

------------------------------------------------------------------------------
(* cancel.c *)

\* Who prints has the lock of stdout, which only an asynchronous cancellation can
\* leave behind.
CancelInv ==
  /\ CA!CancelTypeOK
  /\ CA!StdoutOwned
  /\ caMain = "printing" => stdout = "main"
  /\ caThr1 = "printing" => stdout = "thr1"
  /\ caThr2 \in {"printing", "printing2"} => stdout = "thr2"
  /\ caMain = "create1" => caThr1 = "unborn" /\ caThr2 = "unborn"
  /\ caMain = "create2" => caThr2 = "unborn"
  /\ caThr2 \in {"unborn", "print", "printing", "settype"} => type = "deferred"
  /\ caThr2 \in {"print2", "printing2", "loop"} => type = "asynchronous"

------------------------------------------------------------------------------
(* cancelup.c *)

\* The first n handlers of a thread, in the order they were pushed.
Handlers(n) == [i \in 1..n |-> i]

\* What each thread still has on its stack, and what it has run, at each of its steps.
CleanupSteps ==
  /\ upMain \in {"create3", "create1", "create2", "sleep", "exited", "quit"}
  /\ upAt \in [UP!Threads -> {"unborn", "push", "cancel", "return", "pop1", "pop2", "exit", "loop",
                              "unwind", "ended"}]
  /\ stack \in [UP!Threads -> {Handlers(n) : n \in 0..4}]
  /\ DOMAIN ran = UP!Threads
  /\ upMain = "create3" => \A t \in UP!Threads : upAt[t] = "unborn"
  /\ upMain = "create1" => upAt[1] = "unborn" /\ upAt[2] = "unborn"
  /\ upMain = "create2" => upAt[2] = "unborn"
  /\ \A t \in UP!Threads :
       /\ upAt[t] = "unborn" => stack[t] = Handlers(0)
       /\ upAt[t] = "push" => \E n \in 0..(UP!Pushes[t] - 1) : stack[t] = Handlers(n)
       /\ upAt[t] \in {"unborn", "push"} => ran[t] = <<>>

HandlersOf1 ==
  /\ upAt[1] \in {"unborn", "push", "cancel", "return", "ended"}
  /\ upAt[1] \in {"cancel", "return", "ended"} => stack[1] = Handlers(2)
  /\ ran[1] = <<>>

HandlersOf2 ==
  /\ upAt[2] \in {"unborn", "push", "pop1", "pop2", "exit", "unwind", "ended"}
  /\ upAt[2] = "pop1" => stack[2] = Handlers(4) /\ ran[2] = <<>>
  /\ upAt[2] = "pop2" => stack[2] = Handlers(3) /\ ran[2] = <<4>>
  /\ upAt[2] = "exit" => stack[2] = Handlers(2) /\ ran[2] = <<4>>
  /\ upAt[2] = "unwind" => \/ stack[2] = Handlers(2) /\ ran[2] = <<4>>
                           \/ stack[2] = Handlers(1) /\ ran[2] = <<4, 2>>
                           \/ stack[2] = Handlers(0) /\ ran[2] = <<4, 2, 1>>
  /\ upAt[2] = "ended" => stack[2] = Handlers(0) /\ ran[2] = <<4, 2, 1>>

HandlersOf3 ==
  /\ upAt[3] \in {"unborn", "push", "loop", "unwind", "ended"}
  /\ upAt[3] = "loop" => stack[3] = Handlers(1) /\ ran[3] = <<>>
  /\ upAt[3] = "unwind" => \/ stack[3] = Handlers(1) /\ ran[3] = <<>>
                           \/ stack[3] = Handlers(0) /\ ran[3] = <<1>>
  /\ upAt[3] = "ended" => stack[3] = Handlers(0) /\ ran[3] = <<1>>

CleanupFlags == /\ upAsked \in BOOLEAN /\ late \in BOOLEAN
                /\ upAt[3] \in {"unwind", "ended"} => upAsked

CleanupInv == CleanupSteps /\ HandlersOf1 /\ HandlersOf2 /\ HandlersOf3 /\ CleanupFlags

------------------------------------------------------------------------------
(* The programs that begin and end *)

\* What has been printed and joined when main() gets to each of its calls.
ExitJoinInv ==
  /\ detached = {}
  /\ mainAt \in {"create1", "arg", "create2", "join1", "join2", "exit0", "undefined"}
  /\ mainAt \in {"create1", "arg", "create2"} => thrAt[2] = "unborn"
  /\ mainAt \notin {"create1", "arg"} => arg = 2
  /\ mainAt \in {"create1", "arg", "create2", "join1"} => codes = <<>>
  /\ mainAt = "join2" => codes = <<2>> /\ thrAt[1] = "joined"
  /\ mainAt = "exit0" => codes = <<2, 2>> /\ thrAt[1] = "joined" /\ thrAt[2] = "joined"
  /\ mainAt = "undefined" => codes \in {<<>>, <<2>>}
  /\ told[1] \in {0, 1, 2} /\ told[2] \in {0, 2}

ThrIoInv ==
  /\ detached = {}
  /\ mainAt = "join2" => thrAt[1] = "joined"
  /\ mainAt = "exit0" => thrAt[1] = "joined" /\ thrAt[2] = "joined"

DetachInv == mainAt = "exit0" /\ ~failed => thrAt[1] = "joined"

AttrSteps ==
  /\ mainAt \in {"create1", "exit1", "join1", "pthread_exit", "exit0", "undefined"}
  /\ mainAt \notin {"create1", "exit1"} => detached = {1}
  /\ mainAt = "create1" => thrAt[1] = "unborn"
  /\ thrAt[1] = "ended" => told[1] = 1
  /\ thrAt[1] \in {"unborn", "start", "ended"}
  /\ mainAt = "exit0" => thrAt[1] = "ended"

AttrFailed == mainAt \in {"pthread_exit", "exit0"} => failed

StartInv ==
  /\ CA!StartTypeOK
  /\ begun = "exitjoin" => ExitJoinInv
  /\ begun = "thrio" => ThrIoInv
  /\ begun = "detach" => DetachInv
  /\ begun = "attr" => AttrSteps /\ AttrFailed

------------------------------------------------------------------------------
(* All programs *)

IInv ==
  /\ prog \in {"cond", "thrsig", "thrfork", "rwlock", "mutex", "thrsafe", "thrspec", "cancel",
               "cancelup", "start"}
  /\ prog = "cond"     => CondInv
  /\ prog = "thrsig"   => SigInv
  /\ prog = "thrfork"  => ForkInv
  /\ prog = "rwlock"   => RwInv
  /\ prog = "mutex"    => MutexInv
  /\ prog = "thrsafe"  => SafeInv
  /\ prog = "thrspec"  => SpecInv
  /\ prog = "cancel"   => CancelInv
  /\ prog = "cancelup" => CleanupInv
  /\ prog = "start"    => StartInv

------------------------------------------------------------------------------
(* The proofs, program by program *)

\* cond.c begins with nobody on the queue.
LEMMA CondInit == C!Init => CondInv
BY DEF C!Init, CondInv, C!TypeOK, C!Threads, C!Waiters, C!Free, C!Signals

\* Each step of cond.c.
LEMMA CondStep == CondInv /\ C!Next => CondInv'
<1> SUFFICES ASSUME CondInv, C!Next PROVE CondInv'
  OBVIOUS
<1> USE DEF CondInv, C!TypeOK, C!Threads, C!Waiters, C!Free, C!Signals, C!At, C!Goto,
            C!Acquire, C!Drop, C!EndProcess
<1>1. CASE C!SetState
  BY <1>1 DEF C!SetState
<1>2. CASE C!SignalLock
  BY <1>2 DEF C!SignalLock
<1>3. CASE C!Signal
  <2>1. /\ pc["thread1"] = "signal" /\ pc' = [pc EXCEPT !["thread1"] = "unlock"]
        /\ sent' = sent + 1 /\ sent \in {0, 1} /\ state' = state /\ mutex' = mutex
    BY <1>3 DEF C!Signal
  <2>2. blocked' \subseteq blocked /\ (blocked' = {} \/ blocked' # blocked)
    <3>1. blocked' \in IF blocked = {} THEN {{}} ELSE (SUBSET blocked) \ {blocked}
      BY <1>3 DEF C!Signal
    <3>2. CASE blocked = {}
      BY <3>1, <3>2
    <3>3. CASE blocked # {}
      <4>1. blocked' \in (SUBSET blocked) \ {blocked}
        BY <3>1, <3>3
      <4> QED
        BY <4>1
    <3> QED
      BY <3>2, <3>3
  <2>3. (sent' = 1 => blocked' # C!Waiters) /\ (sent' = 2 => blocked' = {})
    <3>1. blocked \subseteq {"main", "thread2"} /\ (sent = 1 => blocked # {"main", "thread2"})
      OBVIOUS
    <3>2. blocked' # {"main", "thread2"}
      BY <2>2, <3>1
    <3>3. sent = 1 => blocked' = {}
      BY <2>2, <3>1
    <3> QED
      BY <2>1, <3>2, <3>3
  <2>4. blocked' \subseteq C!Waiters
    BY <2>2
  <2> QED
    BY <2>1, <2>3, <2>4
<1>4. CASE C!SignalUnlock
  BY <1>4 DEF C!SignalUnlock
<1>5. CASE C!Main
  <2>1. CASE C!Create1
    <3>1. pc["main"] = "create1" /\ UNCHANGED <<state, mutex, blocked, sent>>
      BY <2>1 DEF C!Create1
    <3>2. CASE pc' = [t \in C!Threads |-> "gone"]
      BY <3>1, <3>2
    <3>3. CASE pc' = [pc EXCEPT !["main"] = "create2", !["thread1"] = "sleep"]
      <4>1. sent = 0
        BY <3>1
      <4> QED
        BY <3>1, <3>3, <4>1
    <3> QED
      BY <2>1, <3>2, <3>3 DEF C!Create1
  <2>2. CASE C!Create2
    BY <2>2 DEF C!Create2
  <2>3. CASE C!Join
    BY <2>3 DEF C!Join
  <2> QED
    BY <1>5, <2>1, <2>2, <2>3 DEF C!Main
<1>6. ASSUME NEW w \in C!Waiters, C!Waiter(w) \/ C!WakeAlone(w) PROVE CondInv'
  <2>1. CASE C!WaitLock(w)
    BY <2>1 DEF C!WaitLock
  <2>2. CASE C!Test(w)
    <3>1. CASE state = 0
      <4>1. /\ pc[w] = "test" /\ pc' = [pc EXCEPT ![w] = "wait"] /\ mutex = w
            /\ UNCHANGED <<state, mutex, blocked, sent>>
        BY <2>2, <3>1 DEF C!Test
      <4>2. sent = 0 /\ pc["thread1"] \in {"none", "sleep"}
        BY <3>1, <4>1
      <4> QED
        BY <3>1, <4>1, <4>2
    <3>2. CASE state = 1
      <4>1. /\ pc[w] = "test" /\ pc' = [pc EXCEPT ![w] = "unlock"] /\ mutex = w
            /\ UNCHANGED <<state, mutex, blocked, sent>>
        BY <2>2, <3>2 DEF C!Test
      <4>2. CASE w = "main"
        BY <3>2, <4>1, <4>2
      <4>3. CASE w = "thread2"
        BY <3>2, <4>1, <4>3
      <4> QED
        BY <4>2, <4>3
    <3> QED
      BY <3>1, <3>2
  <2>3. CASE C!Wait(w)
    BY <2>3 DEF C!Wait
  <2>4. CASE C!Relock(w)
    BY <2>4 DEF C!Relock
  <2>5. CASE C!WaitUnlock(w)
    BY <2>5 DEF C!WaitUnlock
  <2>6. CASE C!WakeAlone(w)
    BY <2>6 DEF C!WakeAlone
  <2> QED
    BY <1>6, <2>1, <2>2, <2>3, <2>4, <2>5, <2>6 DEF C!Waiter
<1> QED
  BY <1>1, <1>2, <1>3, <1>4, <1>5, <1>6 DEF C!Next, C!Thread1

\* thrsig.c begins with no signal sent.
LEMMA SigInit == T!Init => SigInv
<1> SUFFICES ASSUME T!Init PROVE SigInv
  OBVIOUS
<1>1. Waits("INT") = 0 /\ Waits("QUIT") = 0
  BY DEF T!Init, Waits
<1>2. T!TypeOK
  <2>1. waiting \in BOOLEAN
    BY DEF T!Init
  <2> QED
    BY <2>1, MaxSentAssumption DEF T!Init, T!TypeOK, T!Free, T!Signals
<1>3. T!LeavesOnQuit /\ T!ClearedForGood /\ T!KilledByExtraSignal
  BY DEF T!Init, T!LeavesOnQuit, T!ClearedForGood, T!KilledByExtraSignal
<1>4. taken = 0 /\ sent = 0 /\ thr = "none" /\ quitflag = 0
  BY DEF T!Init
<1> QED
  BY <1>1, <1>2, <1>3, <1>4 DEF SigInv

\* Each step of thrsig.c.
LEMMA SigStep == SigInv /\ T!Next => SigInv'
<1> SUFFICES ASSUME SigInv, T!Next PROVE SigInv'
  OBVIOUS
<1>a. UNCHANGED pending => UNCHANGED <<Waits("INT"), Waits("QUIT")>>
  BY DEF Waits
<1>b. Waits("INT") \in {0, 1} /\ Waits("QUIT") \in {0, 1}
  BY DEF Waits
<1>c. pending # {} => Waits("INT") = 1 \/ Waits("QUIT") = 1
  BY DEF Waits, SigInv, T!TypeOK, T!Signals
<1> USE MaxSentAssumption
    DEF SigInv, T!TypeOK, T!Free, T!LeavesOnQuit, T!ClearedForGood,
        T!KilledByExtraSignal, T!Main, T!Thr, T!idle
<1>1. ASSUME NEW s \in T!Signals, T!SigWait(s) PROVE SigInv'
  <2>1. /\ s \in {"INT", "QUIT"} /\ s \in pending /\ pending' = pending \ {s}
        /\ pending' \subseteq T!Signals /\ taken' = taken + 1 /\ thr' \in {"lock", "sigwait"}
        /\ ended = "no" /\ thr = "sigwait" /\ UNCHANGED <<main, mutex, waiting, quitflag, sent, ended>>
    BY <1>1 DEF T!SigWait, T!Signals
  <2>2. Waits("INT")' + Waits("QUIT")' + 1 = Waits("INT") + Waits("QUIT")
    BY <2>1 DEF Waits
  <2>3. Waits("INT")' \in {0, 1} /\ Waits("QUIT")' \in {0, 1}
    BY DEF Waits
  <2> QED
    BY <2>1, <2>2, <2>3, <1>b
<1>2. CASE T!ThrLock \/ T!SetFlag \/ T!ThrUnlock \/ T!CondSignal
  BY <1>2, <1>a DEF T!ThrLock, T!SetFlag, T!ThrUnlock, T!CondSignal
<1>3. CASE T!Block \/ T!MainLock \/ T!Test \/ T!Wait \/ T!Relock
  BY <1>3, <1>a DEF T!Block, T!MainLock, T!Test, T!Wait, T!Relock
<1>8. CASE T!Create
  <2>1. /\ main = "create" /\ main' = "lock" /\ ended = "no"
        /\ UNCHANGED <<mutex, waiting, quitflag, pending, sent, taken>>
    BY <1>8 DEF T!Create
  <2>2. CASE thr' = "sigwait" /\ UNCHANGED ended
    BY <2>1, <2>2, <1>a
  <2>3. CASE ended' = "exit" /\ UNCHANGED thr
    BY <2>1, <2>3, <1>a
  <2> QED
    BY <1>8, <2>2, <2>3 DEF T!Create
<1>4. CASE T!MainUnlock \/ T!ClearFlag \/ T!Return
  BY <1>4, <1>a DEF T!MainUnlock, T!ClearFlag, T!Return
<1>5. CASE T!Restore
  BY <1>5, <1>a, <1>b, <1>c DEF T!Restore
<1>6. CASE T!SpuriousWake
  BY <1>6, <1>a DEF T!SpuriousWake
<1>7. ASSUME NEW s \in T!Signals, T!Send(s) PROVE SigInv'
  <2>1. /\ s \in {"INT", "QUIT"} /\ ended = "no" /\ sent < MaxSent /\ sent' = sent + 1
        /\ UNCHANGED <<main, thr, mutex, waiting, quitflag, taken>>
    BY <1>7 DEF T!Send, T!Signals
  <2>2. CASE pending' = pending \cup {s} /\ UNCHANGED ended
    <3>1. Waits("INT")' + Waits("QUIT")' <= Waits("INT") + Waits("QUIT") + 1
      BY <2>1, <2>2 DEF Waits
    <3>2. Waits("INT")' \in {0, 1} /\ Waits("QUIT")' \in {0, 1}
      BY DEF Waits
    <3>3. pending' \subseteq T!Signals
      BY <2>2
    <3> QED
      BY <2>1, <2>2, <3>1, <3>2, <3>3, <1>b
  <2>3. CASE main \in {"block", "return"} /\ ended' = "killed" /\ UNCHANGED pending
    BY <2>1, <2>3, <1>a, <1>b
  <2> QED
    BY <1>7, <2>2, <2>3 DEF T!Send, T!Blocked
<1> QED
  BY <1>1, <1>2, <1>3, <1>4, <1>5, <1>6, <1>7, <1>8 DEF T!Next, T!SignalThread, T!MainThread

\* thrfork.c begins with both locks free.
LEMMA ForkInit == R!ForkInit => ForkInv
BY DEF R!ForkInit, ForkInv, R!ForkTypeOK, R!ForkThreads, R!Locks, R!Free

\* Each step of thrfork.c.
LEMMA ForkStep == ForkInv /\ R!ForkNext => ForkInv'
<1> SUFFICES ASSUME ForkInv, R!ForkNext PROVE ForkInv'
  OBVIOUS
<1> USE DEF ForkInv, R!ForkTypeOK, R!ForkThreads, R!Locks, R!Free, R!At, R!Goto, R!EndParent,
            R!Acquire, R!Release
<1>1. CASE R!Create2
  BY <1>1 DEF R!Create2
<1>2. CASE R!AtFork
  BY <1>2 DEF R!AtFork
<1>3. CASE R!Create1
  BY <1>3 DEF R!Create1
<1>4. CASE R!Prepare1
  BY <1>4 DEF R!Prepare1
<1>5. CASE R!Prepare2
  BY <1>5 DEF R!Prepare2
<1>6. CASE R!Fork
  BY <1>6 DEF R!Fork
<1>7. CASE R!Parent1
  BY <1>7 DEF R!Parent1
<1>8. CASE R!Parent2
  BY <1>8 DEF R!Parent2
<1>9. CASE R!ForkReturn
  BY <1>9 DEF R!ForkReturn
<1>10. CASE R!Child1
  BY <1>10 DEF R!Child1
<1>11. CASE R!Child2
  BY <1>11 DEF R!Child2
<1>12. CASE R!ChildReturn
  BY <1>12 DEF R!ChildReturn
<1>13. CASE R!ForkThread1
  BY <1>13 DEF R!ForkThread1
<1>14. CASE R!Thread2Lock
  BY <1>14 DEF R!Thread2Lock
<1>15. CASE R!Thread2Unlock
  BY <1>15 DEF R!Thread2Unlock
<1> QED
  BY <1>1, <1>2, <1>3, <1>4, <1>5, <1>6, <1>7, <1>8, <1>9, <1>10, <1>11, <1>12, <1>13, <1>14,
     <1>15 DEF R!ForkNext, R!ForkMain, R!ForkChild, R!ForkThread2

\* rwlock.c begins with the lock free.
LEMMA RwInit == R!RwInit => RwInv
<1> SUFFICES ASSUME R!RwInit PROVE RwInv
  OBVIOUS
<1>1. RwSteps /\ RwHolders
  BY DEF R!RwInit, RwSteps, RwHolders
<1>2. RwMisuse
  BY DEF R!RwInit, RwMisuse
<1> QED
  BY <1>1, <1>2 DEF RwInv

\* Each step of rwlock.c.
LEMMA RwStep == RwInv /\ R!RwNext => RwInv'
<1> SUFFICES ASSUME RwInv, R!RwNext PROVE RwInv'
  OBVIOUS
<1> USE DEF R!rwLock, R!Alive, R!WriteFree, R!RwGo1, R!RwGo2
<1>1. CASE R!RwCreate
  <2>1. RwSteps' /\ RwHolders'
    BY <1>1 DEF R!RwCreate, RwInv, RwSteps, RwHolders
  <2>2. RwMisuse'
    BY <1>1 DEF R!RwCreate, RwInv, RwMisuse
  <2> QED
    BY <2>1, <2>2 DEF RwInv
<1>2. CASE R!RwJoin
  <2>1. RwSteps' /\ RwHolders'
    BY <1>2 DEF R!RwJoin, RwInv, RwSteps, RwHolders
  <2>2. RwMisuse'
    BY <1>2 DEF R!RwJoin, RwInv, RwMisuse
  <2> QED
    BY <2>1, <2>2 DEF RwInv
<1>3. CASE R!MainUnlock
  <2>1. RwSteps' /\ RwHolders'
    BY <1>3 DEF R!MainUnlock, RwInv, RwSteps, RwHolders
  <2>2. RwMisuse'
    BY <1>3 DEF R!MainUnlock, RwInv, RwMisuse
  <2> QED
    BY <2>1, <2>2 DEF RwInv
<1>4. CASE R!RwDestroy
  <2>1. RwSteps' /\ RwHolders'
    BY <1>4 DEF R!RwDestroy, RwInv, RwSteps, RwHolders
  <2>2. RwMisuse'
    BY <1>4 DEF R!RwDestroy, RwInv, RwMisuse
  <2> QED
    BY <2>1, <2>2 DEF RwInv
<1>5. CASE R!RwThread1 \/ R!RwThread2
  <2>1. CASE R!RwUnlock1
    <3>1. /\ rwThr1 = "unlock" /\ rwThr1' = "tryrdlock" /\ UNCHANGED <<rwMain, rwThr2>>
          /\ 1 \in readers /\ writer = 0
      BY <2>1 DEF R!RwUnlock1, RwInv, RwHolders
    <3>2. readers' = readers \ {1} /\ UNCHANGED writer
      BY <2>1, <3>1 DEF R!RwUnlock1, R!Unlock
    <3>3. misused' = (misused \/ (writer # 1 /\ 1 \notin readers))
      BY <2>1 DEF R!RwUnlock1, R!Unlock
    <3>4. RwSteps' /\ RwHolders'
      BY <3>1, <3>2 DEF RwInv, RwSteps, RwHolders
    <3>5. misused' \in BOOLEAN /\ (misused' => misused)
      BY <3>1, <3>3
    <3> QED
      BY <3>1, <3>4, <3>5 DEF RwInv, RwMisuse
  <2>2. CASE R!RwUnlock2
    <3>1. /\ rwThr2 = "unlock" /\ rwThr2' = "wrlock" /\ UNCHANGED <<rwMain, rwThr1>>
          /\ 2 \in readers /\ writer = 0
      BY <2>2 DEF R!RwUnlock2, RwInv, RwHolders
    <3>2. readers' = readers \ {2} /\ UNCHANGED writer
      BY <2>2, <3>1 DEF R!RwUnlock2, R!Unlock
    <3>3. misused' = (misused \/ (writer # 2 /\ 2 \notin readers))
      BY <2>2 DEF R!RwUnlock2, R!Unlock
    <3>4. RwSteps' /\ RwHolders'
      BY <3>1, <3>2 DEF RwInv, RwSteps, RwHolders
    <3>5. misused' \in BOOLEAN /\ (misused' => misused)
      BY <3>1, <3>3
    <3> QED
      BY <3>1, <3>4, <3>5 DEF RwInv, RwMisuse
  <2>3. CASE R!UnlockWriter
    <3>1. /\ rwThr2 = "unlock2" /\ rwThr2' = "exit" /\ UNCHANGED <<rwMain, rwThr1>>
          /\ writer = 2 /\ readers = {}
      BY <2>3 DEF R!UnlockWriter, RwInv, RwHolders
    <3>2. writer' = 0 /\ UNCHANGED readers
      BY <2>3, <3>1 DEF R!UnlockWriter, R!Unlock
    <3>3. misused' = (misused \/ (writer # 2 /\ 2 \notin readers))
      BY <2>3 DEF R!UnlockWriter, R!Unlock
    <3>4. RwSteps' /\ RwHolders'
      BY <3>1, <3>2 DEF RwInv, RwSteps, RwHolders
    <3>5. misused' \in BOOLEAN /\ (misused' => misused)
      BY <3>1, <3>3
    <3> QED
      BY <3>1, <3>4, <3>5 DEF RwInv, RwMisuse
  <2>4. ASSUME UNCHANGED <<rwMain, misused>>, RwSteps', RwHolders' PROVE RwInv'
    BY <2>4 DEF RwInv, RwMisuse
  <2>5. CASE R!ReadLock1
    BY <2>4, <2>5 DEF R!ReadLock1, RwInv, RwSteps, RwHolders
  <2>6. CASE R!TryWriteLock
    <3>1. rwThr1 = "trywrlock" /\ rwThr1' = "unlock" /\ UNCHANGED <<rwMain, rwThr2, readers, misused>>
      BY <2>6 DEF R!TryWriteLock
    <3>2. UNCHANGED writer
      BY <2>6, <3>1 DEF R!TryWriteLock, RwInv, RwHolders
    <3>3. RwSteps'
      BY <3>1 DEF RwInv, RwSteps
    <3>4. RwHolders'
      BY <3>1, <3>2 DEF RwInv, RwHolders
    <3> QED
      BY <2>4, <3>1, <3>3, <3>4
  <2>7. CASE R!TryReadLock
    <3>1. /\ rwThr1 = "tryrdlock" /\ rwThr1' = "exit"
          /\ UNCHANGED <<rwMain, rwThr2, writer, misused>>
      BY <2>7 DEF R!TryReadLock
    <3>2. (writer = 0 /\ readers' = readers \cup {1}) \/ UNCHANGED readers
      BY <2>7 DEF R!TryReadLock
    <3>3. RwSteps'
      BY <3>1 DEF RwInv, RwSteps
    <3>4. RwHolders'
      <4>1. CASE writer = 0 /\ readers' = readers \cup {1}
        BY <3>1, <4>1 DEF RwInv, RwHolders
      <4>2. CASE UNCHANGED readers
        BY <3>1, <4>2 DEF RwInv, RwHolders
      <4> QED
        BY <3>2, <4>1, <4>2
    <3> QED
      BY <2>4, <3>1, <3>3, <3>4
  <2>8. CASE R!Exit1 \/ R!Exit2
    BY <2>4, <2>8 DEF R!Exit1, R!Exit2, RwInv, RwSteps, RwHolders
  <2>9. CASE R!ReadLock2
    <3>1. /\ rwThr2 = "rdlock" /\ rwThr2' = "unlock" /\ writer = 0 /\ readers' = readers \cup {2}
          /\ UNCHANGED <<rwMain, rwThr1, writer, misused>>
      BY <2>9 DEF R!ReadLock2
    <3>2. RwSteps'
      BY <3>1 DEF RwInv, RwSteps
    <3>3. RwHolders'
      BY <3>1 DEF RwInv, RwHolders
    <3> QED
      BY <2>4, <3>1, <3>2, <3>3
  <2>10. CASE R!WriteLock
    <3>1. /\ rwThr2 = "wrlock" /\ rwThr2' = "unlock2" /\ writer' = 2 /\ readers = {}
          /\ UNCHANGED <<rwMain, rwThr1, readers, misused>>
      BY <2>10 DEF R!WriteLock
    <3>2. RwSteps'
      BY <3>1 DEF RwInv, RwSteps
    <3>3. RwHolders'
      BY <3>1 DEF RwInv, RwHolders
    <3> QED
      BY <2>4, <3>1, <3>2, <3>3
  <2> QED
    BY <1>5, <2>1, <2>2, <2>3, <2>5, <2>6, <2>7, <2>8, <2>9, <2>10
    DEF R!RwThread1, R!RwThread2
<1> QED
  BY <1>1, <1>2, <1>3, <1>4, <1>5 DEF R!RwNext, R!RwMain
\* mutex.c begins with the mutex free.
LEMMA MutexInit == M!MutexInit => MutexInv
BY DEF M!MutexInit, MutexInv, M!MutexTypeOK

\* Each step of mutex.c.
LEMMA MutexStep == MutexInv /\ M!MutexNext => MutexInv'
<1> SUFFICES ASSUME MutexInv, M!MutexNext PROVE MutexInv'
  OBVIOUS
<1> USE DEF MutexInv, M!MutexTypeOK, M!Running, M!MutexGo1, M!MutexGo2
<1>1. CASE M!MutexCreate
  BY <1>1 DEF M!MutexCreate
<1>2. CASE M!MutexJoin \/ M!MutexDestroy
  BY <1>2 DEF M!MutexJoin, M!MutexDestroy
<1>3. CASE M!Write1
  BY <1>3 DEF M!Write1
<1>4. CASE M!Show1
  BY <1>4 DEF M!Show1
<1>5. CASE M!Lock1
  BY <1>5 DEF M!Lock1
<1>6. CASE M!MutexUnlock1
  BY <1>6 DEF M!MutexUnlock1
<1>7. CASE M!Lock2
  BY <1>7 DEF M!Lock2
<1>8. CASE M!Write2
  BY <1>8 DEF M!Write2
<1>9. CASE M!Show2
  BY <1>9 DEF M!Show2
<1>10. CASE M!MutexUnlock2
  BY <1>10 DEF M!MutexUnlock2
<1> QED
  BY <1>1, <1>2, <1>3, <1>4, <1>5, <1>6, <1>7, <1>8, <1>9, <1>10
  DEF M!MutexNext, M!MutexMain, M!MutexThread1, M!MutexThread2

\* thrsafe.c begins with no thread.
LEMMA SafeInit == GR!Init => SafeInv
<1> SUFFICES ASSUME GR!Init PROVE SafeInv
  OBVIOUS
<1>1. user \in BOOLEAN
  BY DEF GR!Init
<1>2. GR!TypeOK
  BY <1>1 DEF GR!Init, GR!TypeOK, GR!Threads
<1>3. OnceInv
  BY DEF GR!Init, OnceInv, GR!Threads
<1>4. /\ envbuf = "zeros" /\ envThr = [t \in GR!Threads |-> "unborn"]
      /\ buf = [t \in GR!Threads |-> "garbage"]
      /\ got = [t \in GR!Threads |-> "none"] /\ shown = [t \in GR!Threads |-> {}]
  BY DEF GR!Init
<1> QED
  BY <1>2, <1>3, <1>4 DEF SafeInv, GR!Threads

\* Each step of thrsafe.c.
LEMMA SafeStep == SafeInv /\ GR!Next => SafeInv'
<1> SUFFICES ASSUME SafeInv, GR!Next PROVE SafeInv'
  OBVIOUS
<1> USE DEF SafeInv, OnceInv, GR!TypeOK, GR!Threads, GR!Go, GR!First
<1>1. CASE GR!Create
  BY <1>1 DEF GR!Create, GR!data
<1>2. ASSUME NEW t \in GR!Threads, GR!Thread(t) PROVE SafeInv'
  <2>1. CASE GR!GetenvStatic(t)
    BY <1>2, <2>1 DEF GR!GetenvStatic
  <2>2. CASE GR!ShowStatic(t)
    BY <1>2, <2>2 DEF GR!ShowStatic
  <2>3. CASE GR!EnterOnce(t)
    BY <1>2, <2>3 DEF GR!EnterOnce
  <2>4. CASE GR!ThreadInit(t)
    BY <1>2, <2>4 DEF GR!ThreadInit
  <2>5. CASE GR!Lock(t)
    BY <1>2, <2>5 DEF GR!Lock
  <2>6. CASE GR!AllocFails(t) \/ GR!Alloc(t)
    BY <2>6 DEF GR!AllocFails, GR!Alloc
  <2>7. CASE GR!Copy(t)
    BY <1>2, <2>7 DEF GR!Copy
  <2>8. CASE GR!Unlock(t)
    BY <1>2, <2>8 DEF GR!Unlock
  <2>9. CASE GR!Print1(t)
    BY <1>2, <2>9 DEF GR!Print1
  <2>10. CASE GR!Exit(t)
    BY <1>2, <2>10 DEF GR!Exit
  <2> QED
    BY <1>2, <2>1, <2>2, <2>3, <2>4, <2>5, <2>6, <2>7, <2>8, <2>9, <2>10 DEF GR!Thread
<1> QED
  BY <1>1, <1>2 DEF GR!Next

\* thrspec.c begins with no thread.
LEMMA SpecInit == GS!Init => SpecInv
<1> SUFFICES ASSUME GS!Init PROVE SpecInv
  OBVIOUS
<1>1. user \in BOOLEAN
  BY DEF GS!Init
<1>2. GS!TypeOK
  BY <1>1 DEF GS!Init, GS!TypeOK, GS!Threads
<1>3. OnceInv
  BY DEF GS!Init, OnceInv, GS!Threads, GR!Threads
<1>4. /\ envThr = [t \in GS!Threads |-> "unborn"]
      /\ buf = [t \in GS!Threads |-> "none"]
      /\ got = [t \in GS!Threads |-> "none"] /\ shown = [t \in GS!Threads |-> {}]
  BY DEF GS!Init
<1> QED
  BY <1>2, <1>3, <1>4 DEF SpecInv, GS!Threads

\* Each step of thrspec.c.
LEMMA SpecStep == SpecInv /\ GS!Next => SpecInv'
<1> SUFFICES ASSUME SpecInv, GS!Next PROVE SpecInv'
  OBVIOUS
<1> USE DEF SpecInv, OnceInv, GS!TypeOK, GS!Threads, GR!Threads, GS!Go, GS!First
<1>1. CASE GS!Create
  BY <1>1 DEF GS!Create, GS!data
<1>2. ASSUME NEW t \in GS!Threads, GS!Thread(t) PROVE SpecInv'
  <2>1. CASE GS!GetenvStatic(t) \/ GS!ShowStatic(t)
    BY <2>1 DEF GS!GetenvStatic, GS!ShowStatic
  <2>2. CASE GS!EnterOnce(t)
    BY <1>2, <2>2 DEF GS!EnterOnce
  <2>3. CASE GS!ThreadInit(t)
    BY <1>2, <2>3 DEF GS!ThreadInit
  <2>4. CASE GS!Lock(t)
    BY <1>2, <2>4 DEF GS!Lock
  <2>5. CASE GS!AllocFails(t)
    BY <1>2, <2>5 DEF GS!AllocFails
  <2>6. CASE GS!Alloc(t)
    BY <1>2, <2>6 DEF GS!Alloc
  <2>7. CASE GS!Copy(t)
    BY <1>2, <2>7 DEF GS!Copy
  <2>8. CASE GS!Unlock(t)
    BY <1>2, <2>8 DEF GS!Unlock
  <2>9. CASE GS!Print1(t)
    BY <1>2, <2>9 DEF GS!Print1
  <2>10. CASE GS!Exit(t)
    BY <1>2, <2>10 DEF GS!Exit
  <2> QED
    BY <1>2, <2>1, <2>2, <2>3, <2>4, <2>5, <2>6, <2>7, <2>8, <2>9, <2>10 DEF GS!Thread
<1> QED
  BY <1>1, <1>2 DEF GS!Next

\* cancel.c begins with stdout free.
LEMMA CancelInit == CA!CancelInit => CancelInv
<1> SUFFICES ASSUME CA!CancelInit PROVE CancelInv
  OBVIOUS
<1>1. caAsked \in BOOLEAN
  BY DEF CA!CancelInit
<1> QED
  BY <1>1 DEF CA!CancelInit, CancelInv, CA!CancelTypeOK, CA!StdoutOwned

\* Each step of cancel.c.
LEMMA CancelStep == CancelInv /\ CA!CancelNext => CancelInv'
<1> SUFFICES ASSUME CancelInv, CA!CancelNext PROVE CancelInv'
  OBVIOUS
<1> USE DEF CancelInv, CA!CancelTypeOK, CA!StdoutOwned, CA!CancelFailed, CA!Take, CA!Give,
            CA!GoMain, CA!Go1, CA!Go2
<1>1. CASE CA!CancelCreate
  BY <1>1 DEF CA!CancelCreate
<1>2. CASE CA!Main
  BY <1>2 DEF CA!Main
<1>3. CASE CA!Thread1
  BY <1>3 DEF CA!Thread1
<1>4. CASE CA!SetType
  BY <1>4 DEF CA!SetType
<1>5. CASE CA!Print2
  BY <1>5 DEF CA!Print2
<1>6. CASE CA!CancelDeferred
  BY <1>6 DEF CA!CancelDeferred
<1>7. CASE CA!CancelNow
  BY <1>7 DEF CA!CancelNow
<1> QED
  BY <1>1, <1>2, <1>3, <1>4, <1>5, <1>6, <1>7 DEF CA!CancelNext, CA!Thread2

\* What pushing and popping do to the handlers.
LEMMA HandlersSeq ==
  ASSUME NEW n \in Nat
  PROVE  Handlers(n) \in Seq(Nat) /\ Len(Handlers(n)) = n
BY DEF Handlers

\* Pushing numbers the next handler.
LEMMA PushNext ==
  ASSUME NEW n \in Nat
  PROVE  Append(Handlers(n), n + 1) = Handlers(n + 1)
<1>1. Append(Handlers(n), n + 1) \in Seq(Nat) /\ Len(Append(Handlers(n), n + 1)) = n + 1
  BY HandlersSeq
<1>2. Handlers(n + 1) \in Seq(Nat) /\ Len(Handlers(n + 1)) = n + 1
  BY HandlersSeq
<1>3. \A i \in 1..n+1 : Append(Handlers(n), n + 1)[i] = Handlers(n + 1)[i]
  BY HandlersSeq DEF Handlers
<1> QED
  BY <1>1, <1>2, <1>3, SeqEqual

\* Popping takes the last one off.
LEMMA PopLast ==
  ASSUME NEW n \in Nat, n > 0
  PROVE  UP!Front(Handlers(n)) = Handlers(n - 1) /\ UP!Last(Handlers(n)) = n
<1>1. /\ SubSeq(Handlers(n), 1, n - 1) \in Seq(Nat)
      /\ Len(SubSeq(Handlers(n), 1, n - 1)) = n - 1
  BY HandlersSeq DEF Handlers
<1>2. Handlers(n - 1) \in Seq(Nat) /\ Len(Handlers(n - 1)) = n - 1
  BY HandlersSeq
<1>3. \A i \in 1..n-1 : SubSeq(Handlers(n), 1, n - 1)[i] = Handlers(n - 1)[i]
  BY HandlersSeq DEF Handlers
<1>4. SubSeq(Handlers(n), 1, n - 1) = Handlers(n - 1)
  BY <1>1, <1>2, <1>3, SeqEqual
<1>5. Handlers(n)[n] = n
  BY DEF Handlers
<1> QED
  BY <1>4, <1>5, HandlersSeq DEF UP!Front, UP!Last

\* Only the first of the stacks is empty.
LEMMA NoHandlers == /\ Handlers(0) = <<>>
                    /\ \A n \in Nat : n > 0 => Handlers(n) # <<>>
BY HandlersSeq, EmptySeq

\* The handlers that thread 2 has run, one after the other.
LEMMA RanNext == /\ Append(<<>>, 4) = <<4>> /\ Append(<<4>>, 2) = <<4, 2>>
                 /\ Append(<<4, 2>>, 1) = <<4, 2, 1>> /\ Append(<<>>, 1) = <<1>>
<1>1. Append(<<4>>, 2) = <<4, 2>>
  <2> DEFINE s == Append(<<4>>, 2)
  <2>1. s \in Seq(Nat) /\ Len(s) = 2 /\ \A i \in 1..2 : s[i] = <<4, 2>>[i]
    OBVIOUS
  <2>2. <<4, 2>> \in Seq(Nat) /\ Len(<<4, 2>>) = 2
    OBVIOUS
  <2> HIDE DEF s
  <2>3. s = <<4, 2>>
    BY <2>1, <2>2, SeqEqual
  <2> QED
    BY <2>3 DEF s
<1>2. Append(<<4, 2>>, 1) = <<4, 2, 1>>
  <2> DEFINE s == Append(<<4, 2>>, 1)
  <2>1. s \in Seq(Nat) /\ Len(s) = 3 /\ \A i \in 1..3 : s[i] = <<4, 2, 1>>[i]
    OBVIOUS
  <2>2. <<4, 2, 1>> \in Seq(Nat) /\ Len(<<4, 2, 1>>) = 3
    OBVIOUS
  <2> HIDE DEF s
  <2>3. s = <<4, 2, 1>>
    BY <2>1, <2>2, SeqEqual
  <2> QED
    BY <2>3 DEF s
<1>3. Append(<<>>, 4) = <<4>> /\ Append(<<>>, 1) = <<1>>
  OBVIOUS
<1> QED
  BY <1>1, <1>2, <1>3

\* What the property says thread 2 may have run.
LEMMA RanPrefixes ==
  /\ SubSeq(<<4, 2, 1>>, 1, 0) = <<>> /\ SubSeq(<<4, 2, 1>>, 1, 1) = <<4>>
  /\ SubSeq(<<4, 2, 1>>, 1, 2) = <<4, 2>> /\ SubSeq(<<4, 2, 1>>, 1, 3) = <<4, 2, 1>>
<1> DEFINE s(n) == SubSeq(<<4, 2, 1>>, 1, n)
<1>1. \A n \in 0..3 : s(n) \in Seq(Nat) /\ Len(s(n)) = n
  OBVIOUS
<1>2. \A n \in 0..3 : \A i \in 1..n : s(n)[i] = <<4, 2, 1>>[i]
  OBVIOUS
<1>3. /\ <<4, 2, 1>> \in Seq(Nat) /\ Len(<<4, 2, 1>>) = 3
      /\ <<4, 2>> \in Seq(Nat) /\ Len(<<4, 2>>) = 2
      /\ <<4>> \in Seq(Nat) /\ Len(<<4>>) = 1
      /\ <<>> \in Seq(Nat) /\ Len(<<>>) = 0
  OBVIOUS
<1>4. /\ \A i \in 1..2 : <<4, 2, 1>>[i] = <<4, 2>>[i]
      /\ \A i \in 1..1 : <<4, 2, 1>>[i] = <<4>>[i]
  OBVIOUS
<1> HIDE DEF s
<1>5. s(3) = <<4, 2, 1>>
  BY <1>1, <1>2, <1>3, SeqEqual
<1>6. s(2) = <<4, 2>>
  BY <1>1, <1>2, <1>3, <1>4, SeqEqual
<1>7. s(1) = <<4>>
  BY <1>1, <1>2, <1>3, <1>4, SeqEqual
<1>8. s(0) = <<>>
  BY <1>1, <1>2, <1>3, SeqEqual
<1> QED
  BY <1>5, <1>6, <1>7, <1>8 DEF s

\* cancelup.c begins with no handler.
LEMMA CleanupInit == UP!CleanupInit => CleanupInv
<1> SUFFICES ASSUME UP!CleanupInit PROVE CleanupInv
  OBVIOUS
<1>1. <<>> = Handlers(0) /\ Handlers(0) \in {Handlers(n) : n \in 0..4}
  BY NoHandlers
<1>2. CleanupSteps
  BY <1>1 DEF UP!CleanupInit, CleanupSteps, UP!Threads
<1>3. HandlersOf1 /\ HandlersOf2 /\ HandlersOf3
  BY DEF UP!CleanupInit, HandlersOf1, HandlersOf2, HandlersOf3, UP!Threads
<1>4. CleanupFlags
  BY DEF UP!CleanupInit, CleanupFlags, UP!Threads
<1> QED
  BY <1>2, <1>3, <1>4 DEF CleanupInv

\* Neither flag is cleared, and thread 3 unwinds only when it was asked to.
LEMMA FlagsStep == CleanupInv /\ UP!CleanupNext => CleanupFlags'
<1> SUFFICES ASSUME CleanupInv, UP!CleanupNext PROVE CleanupFlags'
  OBVIOUS
<1> USE DEF UP!Threads, UP!Go
<1>1. upAsked \in BOOLEAN /\ late \in BOOLEAN /\ (upAt[3] \in {"unwind", "ended"} => upAsked)
  BY DEF CleanupInv, CleanupFlags
<1>2. upAt \in [UP!Threads -> {"unborn", "push", "cancel", "return", "pop1", "pop2", "exit", "loop",
                               "unwind", "ended"}]
  BY DEF CleanupInv, CleanupSteps
<1>3. (UNCHANGED upAsked \/ upAsked' = TRUE) /\ (UNCHANGED late \/ late' = TRUE)
  <2>1. CASE UP!CleanupCreate
    BY <2>1 DEF UP!CleanupCreate
  <2>2. ASSUME NEW t \in UP!Threads, UP!Thread(t)
        PROVE  (UNCHANGED upAsked \/ upAsked' = TRUE) /\ (UNCHANGED late \/ late' = TRUE)
    BY <2>2 DEF UP!Thread, UP!Push, UP!Unwind, UP!Cancel, UP!Return, UP!Pops, UP!Pop, UP!Exit2,
                UP!Cancelled
  <2> QED
    BY <2>1, <2>2 DEF UP!CleanupNext
<1>4. upAt'[3] \in {"unwind", "ended"} => upAt[3] \in {"unwind", "ended"} \/ upAsked
  <2>1. CASE UP!CleanupCreate
    BY <1>2, <2>1 DEF UP!CleanupCreate
  <2>2. ASSUME NEW t \in UP!Threads, UP!Thread(t)
        PROVE  upAt'[3] \in {"unwind", "ended"} => upAt[3] \in {"unwind", "ended"} \/ upAsked
    BY <1>2, <2>2 DEF UP!Thread, UP!Push, UP!Unwind, UP!Cancel, UP!Return, UP!Pops, UP!Pop, UP!Exit2,
                UP!Cancelled
  <2> QED
    BY <2>1, <2>2 DEF UP!CleanupNext
<1>5. upAsked' \in BOOLEAN /\ late' \in BOOLEAN
  BY <1>1, <1>3
<1>6. upAsked => upAsked'
  BY <1>1, <1>3
<1>7. upAt'[3] \in {"unwind", "ended"} => upAsked'
  BY <1>1, <1>4, <1>6
<1> QED
  BY <1>5, <1>7 DEF CleanupFlags

\* Each step of cancelup.c.
LEMMA CleanupStep == CleanupInv /\ UP!CleanupNext => CleanupInv'
<1> SUFFICES ASSUME CleanupInv, UP!CleanupNext PROVE CleanupInv'
  OBVIOUS
<1>f. CleanupFlags'
  BY FlagsStep
<1>0. ASSUME CleanupSteps', HandlersOf1', HandlersOf2', HandlersOf3' PROVE CleanupInv'
  BY <1>f, <1>0 DEF CleanupInv
<1>i. CleanupSteps /\ HandlersOf1 /\ HandlersOf2 /\ HandlersOf3
  BY DEF CleanupInv
<1>h. \A n \in 0..4 : Handlers(n) \in {Handlers(m) : m \in 0..4}
  OBVIOUS
<1>p. UP!Pushes[1] = 2 /\ UP!Pushes[2] = 4 /\ UP!Pushes[3] = 1
  BY DEF UP!Pushes, UP!Threads
<1> USE DEF UP!Threads
<1>1. CASE UP!CleanupCreate
  <2>1. UNCHANGED <<stack, ran>>
    BY <1>1 DEF UP!CleanupCreate
  <2>2. ASSUME NEW t \in UP!Threads, upAt[t] = "unborn", upAt' = [upAt EXCEPT ![t] = "push"],
               \/ upMain = "create3" /\ upMain' = "create1" /\ t = 3
               \/ upMain = "create1" /\ upMain' = "create2" /\ t = 1
               \/ upMain = "create2" /\ upMain' = "sleep" /\ t = 2
        PROVE  CleanupInv'
    <3>1. UP!Pushes[t] - 1 >= 0 /\ 0 \in 0..(UP!Pushes[t] - 1) /\ stack[t] = Handlers(0)
      BY <1>i, <1>p, <2>2 DEF CleanupSteps
    <3>2. CleanupSteps'
      BY <1>i, <1>p, <2>1, <2>2, <3>1 DEF CleanupSteps
    <3>3. HandlersOf1' /\ HandlersOf2' /\ HandlersOf3'
      BY <1>i, <2>1, <2>2 DEF CleanupSteps, HandlersOf1, HandlersOf2, HandlersOf3
    <3> QED
      BY <1>0, <3>2, <3>3
  <2>3. CASE UNCHANGED upAt /\ upMain' \in {"exited", "quit"}
    <3>1. CleanupSteps'
      BY <1>i, <2>1, <2>3 DEF CleanupSteps
    <3>2. HandlersOf1' /\ HandlersOf2' /\ HandlersOf3'
      BY <1>i, <2>1, <2>3 DEF HandlersOf1, HandlersOf2, HandlersOf3
    <3> QED
      BY <1>0, <3>1, <3>2
  <2>4. /\ upMain = "create3" => upAt[3] = "unborn"
        /\ upMain = "create1" => upAt[1] = "unborn"
        /\ upMain = "create2" => upAt[2] = "unborn"
    BY <1>i DEF CleanupSteps
  <2> QED
    BY <1>1, <2>2, <2>3, <2>4 DEF UP!CleanupCreate
<1>2. ASSUME NEW t \in UP!Threads, UP!Push(t) PROVE CleanupInv'
  <2>1. PICK n \in 0..(UP!Pushes[t] - 1) : stack[t] = Handlers(n)
    BY <1>2, <1>i DEF UP!Push, UP!Go, CleanupSteps
  <2>2. n \in Nat /\ n + 1 \in 0..4 /\ n + 1 <= UP!Pushes[t]
    BY <1>p, <2>1
  <2>3. Len(stack[t]) = n /\ Append(stack[t], Len(stack[t]) + 1) = Handlers(n + 1)
    BY <2>1, <2>2, HandlersSeq, PushNext
  <2>4. upAt[t] = "push" /\ ran[t] = <<>> /\ upMain' = upMain /\ ran' = ran
    BY <1>2, <1>i DEF UP!Push, UP!Go, CleanupSteps
  <2>5. stack' = [stack EXCEPT ![t] = Handlers(n + 1)]
    BY <1>2, <2>3 DEF UP!Push
  <2>6. upAt' = [upAt EXCEPT ![t] = IF n + 1 < UP!Pushes[t] THEN "push"
                     ELSE IF t = 1 THEN "cancel" ELSE IF t = 2 THEN "pop1" ELSE "loop"]
    BY <1>2, <2>3 DEF UP!Push, UP!Go
  <2>7. CASE n + 1 < UP!Pushes[t]
    <3>1. upAt' = upAt /\ n + 1 \in 0..(UP!Pushes[t] - 1)
      BY <1>i, <1>p, <2>2, <2>4, <2>6, <2>7 DEF CleanupSteps
    <3>2. CleanupSteps'
      BY <1>i, <1>h, <2>2, <2>4, <2>5, <3>1 DEF CleanupSteps
    <3>3. HandlersOf1' /\ HandlersOf2' /\ HandlersOf3'
      BY <1>i, <2>4, <2>5, <3>1 DEF CleanupSteps, HandlersOf1, HandlersOf2, HandlersOf3
    <3> QED
      BY <1>0, <3>2, <3>3
  <2>8. CASE n + 1 = UP!Pushes[t]
    <3>1. CASE t = 1
      <4>0. n + 1 = 2 /\ ~(n + 1 < UP!Pushes[t])
        BY <1>p, <2>8, <3>1
      <4>1. upAt' = [upAt EXCEPT ![1] = "cancel"] /\ stack' = [stack EXCEPT ![1] = Handlers(2)]
        <5>1. upAt' = [upAt EXCEPT ![1] = "cancel"]
          BY <2>6, <3>1, <4>0
        <5>2. stack' = [stack EXCEPT ![1] = Handlers(2)]
          BY <2>5, <3>1, <4>0
        <5> QED
          BY <5>1, <5>2
      <4>2. CleanupSteps'
        BY <1>i, <1>h, <2>4, <3>1, <4>1 DEF CleanupSteps
      <4>3. HandlersOf1' /\ HandlersOf2' /\ HandlersOf3'
        BY <1>i, <2>4, <3>1, <4>1 DEF CleanupSteps, HandlersOf1, HandlersOf2, HandlersOf3
      <4> QED
        BY <1>0, <4>2, <4>3
    <3>2. CASE t = 2
      <4>0. n + 1 = 4 /\ ~(n + 1 < UP!Pushes[t])
        BY <1>p, <2>8, <3>2
      <4>1. upAt' = [upAt EXCEPT ![2] = "pop1"] /\ stack' = [stack EXCEPT ![2] = Handlers(4)]
        <5>1. upAt' = [upAt EXCEPT ![2] = "pop1"]
          BY <2>6, <3>2, <4>0
        <5>2. stack' = [stack EXCEPT ![2] = Handlers(4)]
          BY <2>5, <3>2, <4>0
        <5> QED
          BY <5>1, <5>2
      <4>2. CleanupSteps'
        BY <1>i, <1>h, <2>4, <3>2, <4>1 DEF CleanupSteps
      <4>3. HandlersOf1' /\ HandlersOf2' /\ HandlersOf3'
        BY <1>i, <2>4, <3>2, <4>1 DEF CleanupSteps, HandlersOf1, HandlersOf2, HandlersOf3
      <4> QED
        BY <1>0, <4>2, <4>3
    <3>3. CASE t = 3
      <4>0. n + 1 = 1 /\ ~(n + 1 < UP!Pushes[t])
        BY <1>p, <2>8, <3>3
      <4>1. upAt' = [upAt EXCEPT ![3] = "loop"] /\ stack' = [stack EXCEPT ![3] = Handlers(1)]
        <5>1. upAt' = [upAt EXCEPT ![3] = "loop"]
          BY <2>6, <3>3, <4>0
        <5>2. stack' = [stack EXCEPT ![3] = Handlers(1)]
          BY <2>5, <3>3, <4>0
        <5> QED
          BY <5>1, <5>2
      <4>2. CleanupSteps'
        BY <1>i, <1>h, <2>4, <3>3, <4>1 DEF CleanupSteps
      <4>3. HandlersOf1' /\ HandlersOf2' /\ HandlersOf3'
        BY <1>i, <2>4, <3>3, <4>1 DEF CleanupSteps, HandlersOf1, HandlersOf2, HandlersOf3
      <4> QED
        BY <1>0, <4>2, <4>3
    <3> QED
      BY <3>1, <3>2, <3>3
  <2> QED
    BY <1>p, <2>2, <2>7, <2>8
<1>3. CASE UP!Cancel \/ UP!Return
  <2>1. ASSUME upAt[1] \in {"cancel", "return"}, NEW to \in {"return", "ended"},
               upAt' = [upAt EXCEPT ![1] = to], upMain' \in {upMain, "quit"},
               UNCHANGED <<stack, ran>>
        PROVE  CleanupInv'
    <3>1. CleanupSteps'
      BY <1>i, <2>1 DEF CleanupSteps
    <3>2. HandlersOf1' /\ HandlersOf2' /\ HandlersOf3'
      BY <1>i, <2>1 DEF CleanupSteps, HandlersOf1, HandlersOf2, HandlersOf3
    <3> QED
      BY <1>0, <3>1, <3>2
  <2>2. CASE UP!Cancel
    <3>1. UP!Go(1, "cancel", "return") /\ UNCHANGED <<stack, ran>>
      BY <2>2 DEF UP!Cancel
    <3>2. upMain' \in {upMain, "quit"}
      BY <2>2 DEF UP!Cancel
    <3> QED
      BY <2>1, <3>1, <3>2 DEF UP!Go
  <2>3. CASE UP!Return
    BY <2>1, <2>3 DEF UP!Return, UP!Go
  <2> QED
    BY <1>3, <2>2, <2>3
<1>4. CASE UP!Pops
  <2>1. CASE UP!Pop(1, "pop1", "pop2")
    <3>1. upAt[2] = "pop1" /\ stack[2] = Handlers(4) /\ ran[2] = <<>>
      BY <1>i, <2>1 DEF UP!Pop, UP!Go, HandlersOf2
    <3>2. /\ upAt' = [upAt EXCEPT ![2] = "pop2"] /\ stack' = [stack EXCEPT ![2] = Handlers(3)]
          /\ ran' = [ran EXCEPT ![2] = <<4>>] /\ upMain' = upMain
      <4>1. UP!Front(stack[2]) = Handlers(3) /\ UP!Last(stack[2]) = 4
        BY <3>1, PopLast
      <4>2. Append(ran[2], UP!Last(stack[2])) = <<4>>
        BY <3>1, <4>1, RanNext
      <4>3. /\ upAt' = [upAt EXCEPT ![2] = "pop2"] /\ upMain' = upMain
            /\ stack' = [stack EXCEPT ![2] = UP!Front(stack[2])]
        BY <2>1 DEF UP!Pop, UP!Go
      <4>4. ran' = [ran EXCEPT ![2] = Append(ran[2], UP!Last(stack[2]))]
        BY <2>1 DEF UP!Pop
      <4> QED
        BY <4>1, <4>2, <4>3, <4>4
    <3>3. CleanupSteps'
      BY <1>i, <1>h, <3>1, <3>2 DEF CleanupSteps
    <3>4. HandlersOf1' /\ HandlersOf2' /\ HandlersOf3'
      BY <1>i, <3>2 DEF CleanupSteps, HandlersOf1, HandlersOf2, HandlersOf3
    <3> QED
      BY <1>0, <3>3, <3>4
  <2>2. CASE UP!Pop(0, "pop2", "exit")
    <3>1. upAt[2] = "pop2" /\ stack[2] = Handlers(3) /\ ran[2] = <<4>>
      BY <1>i, <2>2 DEF UP!Pop, UP!Go, HandlersOf2
    <3>2. /\ upAt' = [upAt EXCEPT ![2] = "exit"] /\ stack' = [stack EXCEPT ![2] = Handlers(2)]
          /\ UNCHANGED <<ran, upMain>>
      <4>1. UP!Front(stack[2]) = Handlers(2)
        BY <3>1, PopLast
      <4>2. /\ upAt' = [upAt EXCEPT ![2] = "exit"] /\ upMain' = upMain
            /\ stack' = [stack EXCEPT ![2] = UP!Front(stack[2])]
        BY <2>2 DEF UP!Pop, UP!Go
      <4>3. ran' = ran
        BY <2>2 DEF UP!Pop
      <4> QED
        BY <4>1, <4>2, <4>3
    <3>3. CleanupSteps'
      BY <1>i, <1>h, <3>1, <3>2 DEF CleanupSteps
    <3>4. HandlersOf1' /\ HandlersOf2' /\ HandlersOf3'
      BY <1>i, <3>1, <3>2 DEF CleanupSteps, HandlersOf1, HandlersOf2, HandlersOf3
    <3> QED
      BY <1>0, <3>3, <3>4
  <2> QED
    BY <1>4, <2>1, <2>2 DEF UP!Pops
<1>5. CASE UP!Exit2 \/ UP!Cancelled
  <2>1. ASSUME NEW t \in {2, 3}, upAt[t] = IF t = 2 THEN "exit" ELSE "loop",
               upAt' = [upAt EXCEPT ![t] = "unwind"], UNCHANGED <<upMain, stack, ran>>
        PROVE  CleanupInv'
    <3>1. CleanupSteps'
      BY <1>i, <2>1 DEF CleanupSteps
    <3>2. HandlersOf1' /\ HandlersOf2' /\ HandlersOf3'
      BY <1>i, <2>1 DEF CleanupSteps, HandlersOf1, HandlersOf2, HandlersOf3
    <3> QED
      BY <1>0, <3>1, <3>2
  <2>2. CASE UP!Exit2
    BY <2>1, <2>2 DEF UP!Exit2, UP!Go
  <2>3. CASE UP!Cancelled
    <3>1. upAt[3] = "loop" /\ upAt' = [upAt EXCEPT ![3] = "unwind"]
      BY <2>3 DEF UP!Cancelled, UP!Go
    <3>2. UNCHANGED <<upMain, stack, ran>>
      BY <2>3 DEF UP!Cancelled
    <3> QED
      BY <2>1, <3>1, <3>2
  <2> QED
    BY <1>5, <2>2, <2>3
<1>6. ASSUME NEW t \in UP!Threads, UP!Unwind(t) PROVE CleanupInv'
  <2>1. upAt[t] = "unwind" /\ UNCHANGED upMain /\ t # 1
    BY <1>6, <1>i DEF UP!Unwind, UP!Go, HandlersOf1
  <2>2. ASSUME stack[t] = <<>>, upAt' = [upAt EXCEPT ![t] = "ended"], UNCHANGED <<stack, ran>>
        PROVE  CleanupInv'
    <3>1. /\ stack[t] # Handlers(1) /\ stack[t] # Handlers(2)
      BY <2>2, NoHandlers
    <3>2. CleanupSteps'
      BY <1>i, <2>1, <2>2 DEF CleanupSteps
    <3>3. HandlersOf1' /\ HandlersOf2' /\ HandlersOf3'
      BY <1>i, <2>1, <2>2, <3>1 DEF CleanupSteps, HandlersOf1, HandlersOf2, HandlersOf3
    <3> QED
      BY <1>0, <3>2, <3>3
  <2>3. ASSUME NEW n \in {0, 1}, NEW r, UNCHANGED upAt,
               ran' = [ran EXCEPT ![t] = r], stack' = [stack EXCEPT ![t] = Handlers(n)],
               \/ t = 2 /\ n = 1 /\ r = <<4, 2>>
               \/ t = 2 /\ n = 0 /\ r = <<4, 2, 1>>
               \/ t = 3 /\ n = 0 /\ r = << 1 >>
        PROVE  CleanupInv'
    <3>1. n \in 0..4
      OBVIOUS
    <3>2. CleanupSteps'
      BY <1>i, <1>h, <2>1, <2>3, <3>1 DEF CleanupSteps
    <3>3. HandlersOf1' /\ HandlersOf2' /\ HandlersOf3'
      BY <1>i, <2>1, <2>3 DEF CleanupSteps, HandlersOf1, HandlersOf2, HandlersOf3
    <3> QED
      BY <1>0, <3>2, <3>3
  <2>4. CASE stack[t] = <<>>
    BY <1>6, <2>2, <2>4 DEF UP!Unwind, UP!Go
  <2>5. CASE stack[t] # <<>>
    <3>1. /\ upAt' = [upAt EXCEPT ![t] = "unwind"]
          /\ ran' = [ran EXCEPT ![t] = Append(ran[t], UP!Last(stack[t]))]
          /\ stack' = [stack EXCEPT ![t] = UP!Front(stack[t])]
      BY <1>6, <2>5 DEF UP!Unwind, UP!Go
    <3>2. UNCHANGED upAt
      BY <1>i, <2>1, <3>1 DEF CleanupSteps
    <3>3. /\ UP!Front(Handlers(2)) = Handlers(1) /\ UP!Last(Handlers(2)) = 2
          /\ UP!Front(Handlers(1)) = Handlers(0) /\ UP!Last(Handlers(1)) = 1
      BY PopLast
    <3>4. \/ t = 2 /\ stack[t] = Handlers(2) /\ ran[t] = <<4>>
          \/ t = 2 /\ stack[t] = Handlers(1) /\ ran[t] = <<4, 2>>
          \/ t = 3 /\ stack[t] = Handlers(1) /\ ran[t] = <<>>
      BY <1>i, <2>1, <2>5, NoHandlers DEF HandlersOf2, HandlersOf3
    <3>5. CASE t = 2 /\ stack[t] = Handlers(2) /\ ran[t] = <<4>>
      <4>0. Append(ran[t], UP!Last(stack[t])) = <<4, 2>> /\ UP!Front(stack[t]) = Handlers(1)
        BY <3>3, <3>5, RanNext
      <4>1. ran' = [ran EXCEPT ![t] = <<4, 2>>] /\ stack' = [stack EXCEPT ![t] = Handlers(1)]
        BY <3>1, <4>0
      <4> QED
        BY <2>3, <3>2, <3>5, <4>1
    <3>6. CASE t = 2 /\ stack[t] = Handlers(1) /\ ran[t] = <<4, 2>>
      <4>0. Append(ran[t], UP!Last(stack[t])) = <<4, 2, 1>> /\ UP!Front(stack[t]) = Handlers(0)
        BY <3>3, <3>6, RanNext
      <4>1. ran' = [ran EXCEPT ![t] = <<4, 2, 1>>] /\ stack' = [stack EXCEPT ![t] = Handlers(0)]
        BY <3>1, <4>0
      <4> QED
        BY <2>3, <3>2, <3>6, <4>1
    <3>7. CASE t = 3 /\ stack[t] = Handlers(1) /\ ran[t] = <<>>
      <4>0. Append(ran[t], UP!Last(stack[t])) = <<1>> /\ UP!Front(stack[t]) = Handlers(0)
        BY <3>3, <3>7, RanNext
      <4>1. ran' = [ran EXCEPT ![t] = <<1>>] /\ stack' = [stack EXCEPT ![t] = Handlers(0)]
        BY <3>1, <4>0
      <4> QED
        BY <2>3, <3>2, <3>7, <4>1
    <3> QED
      BY <3>4, <3>5, <3>6, <3>7
  <2> QED
    BY <2>4, <2>5
<1> QED
  BY <1>1, <1>2, <1>3, <1>4, <1>5, <1>6 DEF UP!CleanupNext, UP!Thread

\* The programs that begin and end begin with nothing printed.
LEMMA StartInit == CA!StartInit => StartInv
<1> SUFFICES ASSUME CA!StartInit PROVE StartInv
  OBVIOUS
<1>1. failed \in BOOLEAN
  BY DEF CA!StartInit
<1>2. CA!StartTypeOK
  BY <1>1 DEF CA!StartInit, CA!StartTypeOK, CA!Workers
<1>3. ExitJoinInv /\ ThrIoInv /\ AttrSteps
  BY DEF CA!StartInit, ExitJoinInv, ThrIoInv, AttrSteps, CA!Workers
<1>4. DetachInv /\ AttrFailed
  BY DEF CA!StartInit, DetachInv, AttrFailed
<1> QED
  BY <1>2, <1>3, <1>4 DEF StartInv

\* What main() and the threads can do, one disjunct each.
LEMMA StartSteps ==
  ASSUME CA!StartNext
  PROVE  /\ begun' = begun
         /\ begun = "exitjoin" => CA!ExitJoinMain \/ \E t \in CA!Workers : CA!Tells(t, arg)
         /\ begun = "thrio" => CA!ThrIoMain \/ \E t \in CA!Workers : CA!Pread(t)
         /\ begun = "detach" => CA!DetachMain \/ CA!DetachSelf \/ CA!DetachedEnds
         /\ begun = "attr" => CA!AttrMain \/ \E t \in CA!Workers : CA!Tells(t, t)
         /\ begun = "create" => CA!CreateMain \/ \E t \in CA!Workers : CA!Tells(t, t)
         /\ begun = "errexit" => CA!ErrExitMain \/ \E t \in CA!Workers : CA!Tells(t, t)
         /\ begun \notin {"exitjoin", "thrio", "detach", "attr", "create", "errexit"}
              => CA!MutexAttMain
<1>1. begun' = begun
  <2>1. CASE CA!StartMain
    BY <2>1 DEF CA!StartMain, CA!CreateMain, CA!ExitJoinMain, CA!ErrExitMain, CA!DetachMain,
                CA!AttrMain, CA!ThrIoMain, CA!MutexAttMain, CA!Create, CA!Join, CA!MainGoes,
                CA!AssignArg
  <2>2. CASE \E t \in CA!Workers : CA!StartThread(t)
    BY <2>2 DEF CA!StartThread, CA!Tells, CA!Pread, CA!DetachSelf, CA!DetachedEnds
  <2> QED
    BY <2>1, <2>2 DEF CA!StartNext
<1> QED
  BY <1>1 DEF CA!StartNext, CA!StartMain, CA!StartThread, CA!CreateMain, CA!ExitJoinMain,
              CA!ErrExitMain, CA!DetachMain, CA!AttrMain, CA!ThrIoMain, CA!MutexAttMain,
              CA!DetachSelf, CA!DetachedEnds

\* All of the types but that of failed.
StartTyped ==
  /\ thrAt \in [CA!Workers -> {"unborn", "start", "sleep", "ended", "joined"}]
  /\ detached \subseteq {1} /\ arg \in 1..2
  /\ told \in [CA!Workers -> {0, 1, 2, 3, 10, 100}]

\* Each step keeps the types.
LEMMA StartType == CA!StartTypeOK /\ CA!StartNext => CA!StartTypeOK'
<1> SUFFICES ASSUME CA!StartTypeOK, CA!StartNext PROVE CA!StartTypeOK'
  OBVIOUS
<1>w. 1 \in CA!Workers /\ 2 \in CA!Workers
  BY DEF CA!Workers
<1>1. StartTyped
  BY DEF CA!StartTypeOK, StartTyped
<1>2. ASSUME NEW to, NEW otherwise, CA!Create(1, to, otherwise) \/ CA!Create(2, to, otherwise)
      PROVE  StartTyped'
  BY <1>w, <1>1, <1>2 DEF CA!Create, StartTyped
<1>3. ASSUME NEW to, CA!MainGoes(to) PROVE StartTyped'
  BY <1>1, <1>3 DEF CA!MainGoes, StartTyped
<1>4. ASSUME NEW to, NEW code, CA!Join(1, to, code) \/ CA!Join(2, to, code) PROVE StartTyped'
  <2>1. UNCHANGED <<detached, arg, told>>
    BY <1>4 DEF CA!Join, CA!MainGoes
  <2>2. \/ thrAt' = [thrAt EXCEPT ![1] = "joined"]
        \/ thrAt' = [thrAt EXCEPT ![2] = "joined"]
        \/ thrAt' = thrAt
    BY <1>4 DEF CA!Join, CA!MainGoes
  <2> QED
    BY <1>w, <1>1, <2>1, <2>2 DEF StartTyped
<1>5. ASSUME NEW t \in CA!Workers, NEW what \in {1, 2, 3, 10, 100}, CA!Tells(t, what)
      PROVE  StartTyped'
  BY <1>1, <1>5 DEF CA!Tells, StartTyped
<1>6. ASSUME CA!StartMain PROVE StartTyped'
  <2>1. CASE CA!CreateMain \/ CA!DetachMain \/ CA!ThrIoMain
    BY <1>2, <1>3, <1>4, <2>1 DEF CA!CreateMain, CA!DetachMain, CA!ThrIoMain
  <2>2. CASE CA!ExitJoinMain
    <3>1. CASE CA!AssignArg
      BY <1>1, <3>1 DEF CA!AssignArg, StartTyped
    <3> QED
      BY <1>2, <1>4, <2>2, <3>1 DEF CA!ExitJoinMain
  <2>3. CASE CA!ErrExitMain
    <3>1. CASE UNCHANGED <<thrAt, detached, arg, told>>
      BY <1>w, <1>1, <3>1 DEF StartTyped
    <3> QED
      BY <1>2, <1>4, <2>3, <3>1 DEF CA!ErrExitMain
  <2>4. CASE CA!AttrMain
    <3>1. CASE detached' = {1} /\ thrAt' = [thrAt EXCEPT ![1] = "start"] /\ UNCHANGED <<arg, told>>
      BY <1>w, <1>1, <3>1 DEF StartTyped
    <3> QED
      BY <1>3, <1>4, <2>4, <3>1 DEF CA!AttrMain
  <2>5. CASE CA!MutexAttMain
    <3>1. CASE UNCHANGED <<thrAt, detached, arg, told>>
      BY <1>w, <1>1, <3>1 DEF StartTyped
    <3> QED
      BY <1>3, <2>5, <3>1 DEF CA!MutexAttMain
  <2> QED
    BY <1>6, <2>1, <2>2, <2>3, <2>4, <2>5 DEF CA!StartMain
<1>7. ASSUME NEW t \in CA!Workers, CA!StartThread(t) PROVE StartTyped'
  <2>1. arg \in {1, 2}
    BY <1>1 DEF StartTyped
  <2>2. CASE CA!DetachSelf \/ CA!DetachedEnds
    <3>1. /\ thrAt' = [thrAt EXCEPT ![1] = "sleep"] \/ thrAt' = [thrAt EXCEPT ![1] = "ended"]
          /\ told' = [told EXCEPT ![1] = 1] \/ told' = told
          /\ arg' = arg
      BY <2>2 DEF CA!DetachSelf, CA!DetachedEnds
    <3>2. detached' \in {{}, {1}, detached}
      BY <2>2 DEF CA!DetachSelf, CA!DetachedEnds
    <3> QED
      BY <1>w, <1>1, <3>1, <3>2 DEF StartTyped
  <2>3. CASE CA!Pread(t)
    BY <1>5, <2>3 DEF CA!Pread
  <2> QED
    BY <1>5, <1>7, <2>1, <2>2, <2>3 DEF CA!StartThread, CA!Workers
<1>8. failed' \in BOOLEAN
  <2>1. failed \in BOOLEAN
    BY DEF CA!StartTypeOK
  <2>2. UNCHANGED failed \/ failed' = TRUE
    <3>1. CASE CA!StartMain
      BY <3>1 DEF CA!StartMain, CA!CreateMain, CA!ExitJoinMain, CA!ErrExitMain, CA!DetachMain,
                  CA!AttrMain, CA!ThrIoMain, CA!MutexAttMain, CA!Create, CA!Join, CA!MainGoes,
                  CA!AssignArg
    <3>2. CASE \E t \in CA!Workers : CA!StartThread(t)
      BY <3>2 DEF CA!StartThread, CA!Tells, CA!Pread, CA!DetachSelf, CA!DetachedEnds
    <3> QED
      BY <3>1, <3>2 DEF CA!StartNext
  <2> QED
    BY <2>1, <2>2
<1>9. StartTyped'
  BY <1>6, <1>7 DEF CA!StartNext
<1> QED
  BY <1>8, <1>9 DEF CA!StartTypeOK, StartTyped

\* What main() of exitjoin.c prints second.
LEMMA Twice == <<2>> \o <<2>> = <<2, 2>>
<1> DEFINE s == <<2>> \o <<2>>
<1>1. s \in Seq(Nat) /\ Len(s) = 2 /\ \A i \in 1..2 : s[i] = <<2, 2>>[i]
  OBVIOUS
<1>2. <<2, 2>> \in Seq(Nat) /\ Len(<<2, 2>>) = 2
  OBVIOUS
<1> HIDE DEF s
<1>3. s = <<2, 2>>
  BY <1>1, <1>2, SeqEqual
<1> QED
  BY <1>3 DEF s

\* Each step of exitjoin.c.
LEMMA ExitJoinStep ==
  ASSUME CA!StartTypeOK, ExitJoinInv, CA!ExitJoinMain \/ \E t \in CA!Workers : CA!Tells(t, arg)
  PROVE  ExitJoinInv'
<1> USE DEF CA!StartTypeOK, CA!Workers
<1>1. CASE mainAt = "create1" /\ CA!Create(1, "arg", "arg")
  BY <1>1 DEF CA!Create, ExitJoinInv
<1>2. CASE CA!AssignArg
  BY <1>2 DEF CA!AssignArg, ExitJoinInv
<1>3. CASE mainAt = "create2" /\ CA!Create(2, "join1", "join1")
  BY <1>3 DEF CA!Create, ExitJoinInv
<1>4. CASE mainAt = "join1" /\ CA!Join(1, "join2", <<arg>>)
  <2>1. arg = 2 /\ codes = <<>>
    BY <1>4 DEF ExitJoinInv
  <2>2. codes \o <<arg>> = <<2>>
    BY <2>1
  <2>a. CASE /\ 1 \notin detached /\ thrAt[1] = "ended"
               /\ thrAt' = [thrAt EXCEPT ![1] = "joined"] /\ mainAt' = "join2" /\ codes' = codes \o <<arg>>
               /\ UNCHANGED <<detached, arg, told>>
    BY <1>4, <2>1, <2>2, <2>a DEF ExitJoinInv
  <2>b. CASE /\ 1 \in detached /\ thrAt[1] # "ended" /\ mainAt' = "join2"
               /\ UNCHANGED <<thrAt, detached, arg, told, codes>>
    BY <1>4, <2>1, <2>2, <2>b DEF ExitJoinInv
  <2>c. CASE /\ IF 1 \in detached THEN thrAt[1] = "ended" ELSE thrAt[1] = "unborn"
               /\ mainAt' = "undefined"
               /\ UNCHANGED <<thrAt, detached, arg, told, codes>>
    BY <1>4, <2>1, <2>2, <2>c DEF ExitJoinInv
  <2> QED
    BY <1>4, <2>1, <2>2, <2>a, <2>b, <2>c DEF CA!Join, CA!MainGoes
<1>5. CASE mainAt = "join2" /\ CA!Join(2, "exit0", <<arg>>)
  <2>1. arg = 2 /\ codes = <<2>>
    BY <1>5 DEF ExitJoinInv
  <2>2. codes \o <<arg>> = <<2, 2>>
    BY <2>1, Twice
  <2>a. CASE /\ 2 \notin detached /\ thrAt[2] = "ended"
               /\ thrAt' = [thrAt EXCEPT ![2] = "joined"] /\ mainAt' = "exit0" /\ codes' = codes \o <<arg>>
               /\ UNCHANGED <<detached, arg, told>>
    BY <1>5, <2>1, <2>2, <2>a DEF ExitJoinInv
  <2>b. CASE /\ 2 \in detached /\ thrAt[2] # "ended" /\ mainAt' = "exit0"
               /\ UNCHANGED <<thrAt, detached, arg, told, codes>>
    BY <1>5, <2>1, <2>2, <2>b DEF ExitJoinInv
  <2>c. CASE /\ IF 2 \in detached THEN thrAt[2] = "ended" ELSE thrAt[2] = "unborn"
               /\ mainAt' = "undefined"
               /\ UNCHANGED <<thrAt, detached, arg, told, codes>>
    BY <1>5, <2>1, <2>2, <2>c DEF ExitJoinInv
  <2> QED
    BY <1>5, <2>1, <2>2, <2>a, <2>b, <2>c DEF CA!Join, CA!MainGoes
<1>6. ASSUME NEW t \in CA!Workers, CA!Tells(t, arg) PROVE ExitJoinInv'
  BY <1>6 DEF CA!Tells, CA!Running, CA!Over, ExitJoinInv
<1> QED
  BY <1>1, <1>2, <1>3, <1>4, <1>5, <1>6 DEF CA!ExitJoinMain

\* Each step of thrio.c.
LEMMA ThrIoStep ==
  ASSUME CA!StartTypeOK, ThrIoInv, CA!ThrIoMain \/ \E t \in CA!Workers : CA!Pread(t)
  PROVE  ThrIoInv'
<1> USE DEF CA!StartTypeOK, CA!Workers
<1>1. CASE CA!ThrIoMain /\ mainAt \in {"create1", "create2"}
  BY <1>1 DEF CA!ThrIoMain, CA!Create, CA!MainGoes, ThrIoInv
<1>2. CASE mainAt = "join1" /\ CA!Join(1, "join2", <<>>)
  BY <1>2 DEF CA!Join, CA!MainGoes, ThrIoInv
<1>3. CASE mainAt = "join2" /\ CA!Join(2, "exit0", <<>>)
  BY <1>3 DEF CA!Join, CA!MainGoes, ThrIoInv
<1>4. ASSUME NEW t \in CA!Workers, CA!Pread(t) PROVE ThrIoInv'
  <2>1. /\ thrAt[t] = "start" /\ thrAt' = [thrAt EXCEPT ![t] = "ended"]
        /\ UNCHANGED <<mainAt, detached>>
    BY <1>4 DEF CA!Pread, CA!Tells
  <2> QED
    BY <2>1 DEF ThrIoInv
<1> QED
  BY <1>1, <1>2, <1>3, <1>4 DEF CA!ThrIoMain

\* Each step of detach.c.
LEMMA DetachStep ==
  ASSUME CA!StartTypeOK, DetachInv, CA!DetachMain \/ CA!DetachSelf \/ CA!DetachedEnds
  PROVE  DetachInv'
<1> USE DEF CA!StartTypeOK, CA!Workers
<1>1. CASE CA!DetachMain /\ mainAt \in {"create1", "sleep"}
  BY <1>1 DEF CA!DetachMain, CA!Create, CA!MainGoes, DetachInv
<1>2. CASE mainAt = "join1" /\ CA!Join(1, "exit0", <<>>)
  <2>1. thrAt'[1] = "joined" \/ failed' = TRUE \/ mainAt' = "undefined"
    BY <1>2 DEF CA!Join, CA!MainGoes
  <2> QED
    BY <2>1 DEF DetachInv
<1>3. CASE CA!DetachSelf \/ CA!DetachedEnds
  <2>1. mainAt' = mainAt /\ mainAt # "exit0"
    BY <1>3 DEF CA!DetachSelf, CA!DetachedEnds, CA!Running, CA!Over
  <2> QED
    BY <2>1 DEF DetachInv
<1> QED
  BY <1>1, <1>2, <1>3 DEF CA!DetachMain

\* Each step of attr.c.
LEMMA AttrStep ==
  ASSUME CA!StartTypeOK, AttrSteps /\ AttrFailed,
         CA!AttrMain \/ \E t \in CA!Workers : CA!Tells(t, t)
  PROVE  AttrSteps' /\ AttrFailed'
<1> USE DEF CA!StartTypeOK, CA!Workers
<1>1. CASE CA!AttrMain /\ mainAt = "create1"
  <2>1. AttrSteps'
    BY <1>1 DEF CA!AttrMain, CA!MainGoes, AttrSteps
  <2>2. AttrFailed'
    BY <1>1 DEF CA!AttrMain, CA!MainGoes, AttrFailed
  <2> QED
    BY <2>1, <2>2
<1>2. CASE mainAt = "join1" /\ CA!Join(1, "pthread_exit", <<>>)
  <2>1. 1 \in detached
    BY <1>2 DEF AttrSteps
  <2>2. AttrSteps'
    BY <1>2, <2>1 DEF CA!Join, CA!MainGoes, AttrSteps
  <2>3. failed' = TRUE \/ mainAt' = "undefined"
    BY <1>2, <2>1 DEF CA!Join, CA!MainGoes
  <2> QED
    BY <2>2, <2>3 DEF AttrFailed
<1>3. CASE CA!AttrMain /\ mainAt = "pthread_exit"
  <2>1. AttrSteps'
    BY <1>3 DEF CA!AttrMain, CA!MainGoes, AttrSteps
  <2>2. AttrFailed'
    BY <1>3 DEF CA!AttrMain, CA!MainGoes, AttrFailed
  <2> QED
    BY <2>1, <2>2
<1>4. ASSUME NEW t \in CA!Workers, CA!Tells(t, t) PROVE AttrSteps' /\ AttrFailed'
  <2>1. AttrSteps'
    BY <1>4 DEF CA!Tells, CA!Running, CA!Over, AttrSteps
  <2>2. AttrFailed'
    BY <1>4 DEF CA!Tells, AttrFailed
  <2> QED
    BY <2>1, <2>2
<1> QED
  BY <1>1, <1>2, <1>3, <1>4 DEF CA!AttrMain

\* Each step of the programs that begin and end.
LEMMA StartStep == StartInv /\ CA!StartNext => StartInv'
BY StartSteps, StartType, ExitJoinStep, ThrIoStep, DetachStep, AttrStep DEF StartInv

------------------------------------------------------------------------------
(* All programs *)

\* The invariant of cond.c says what the properties say of it.
LEMMA CondListed == CondInv => C!TypeOK /\ C!NoLostWakeup /\ C!WakesForReason
BY DEF CondInv, C!NoLostWakeup, C!WakesForReason, C!At

\* The same for thrsig.c.
LEMMA SigListed ==
  SigInv => T!TypeOK /\ T!LeavesOnQuit /\ T!ClearedForGood /\ T!KilledByExtraSignal
BY DEF SigInv

\* The same for thrfork.c.
LEMMA ForkListed == ForkInv => R!ForkTypeOK /\ R!NoOrphanLock /\ R!HandlersUnlockOwn
<1> SUFFICES ASSUME ForkInv PROVE R!ForkTypeOK /\ R!NoOrphanLock /\ R!HandlersUnlockOwn
  OBVIOUS
<1> USE DEF R!Locks, R!ForkThreads, R!At, R!Free
<1>1. R!ForkTypeOK
  BY DEF ForkInv
<1>2. R!NoOrphanLock
  BY DEF ForkInv, R!ForkTypeOK, R!NoOrphanLock
<1>3. R!HandlersUnlockOwn
  BY DEF ForkInv, R!ForkTypeOK, R!HandlersUnlockOwn
<1> QED
  BY <1>1, <1>2, <1>3

\* The same for rwlock.c.
LEMMA RwListed == RwInv => R!RwTypeOK /\ R!EachHasWhatItUnlocks /\ R!OnlyMainMisuses
<1> SUFFICES ASSUME RwInv PROVE R!RwTypeOK /\ R!EachHasWhatItUnlocks /\ R!OnlyMainMisuses
  OBVIOUS
<1>1. misused \in BOOLEAN /\ (misused => rwMain \in {"destroy", "done"})
  BY DEF RwInv, RwMisuse
<1>2. writer \in 0..2 /\ (rwMain = "unlock" => writer = 0 /\ readers \subseteq {1})
  BY DEF RwInv, RwSteps, RwHolders
<1>3. R!RwTypeOK
  BY <1>1, <1>2 DEF RwInv, RwSteps, RwHolders, R!RwTypeOK
<1>4. R!EachHasWhatItUnlocks
  BY DEF RwInv, RwHolders, R!EachHasWhatItUnlocks
<1>5. R!OnlyMainMisuses
  BY <1>1, <1>2 DEF R!OnlyMainMisuses
<1> QED
  BY <1>3, <1>4, <1>5

\* The same for mutex.c.
LEMMA MutexListed == MutexInv => M!MutexTypeOK /\ M!UndisturbedWithMutex /\ M!DestroyedFree
<1> SUFFICES ASSUME MutexInv PROVE M!MutexTypeOK /\ M!UndisturbedWithMutex /\ M!DestroyedFree
  OBVIOUS
<1>1. M!UndisturbedWithMutex
  BY DEF MutexInv, M!MutexTypeOK, M!UndisturbedWithMutex
<1>2. M!DestroyedFree
  BY DEF MutexInv, M!MutexTypeOK, M!DestroyedFree
<1> QED
  BY <1>1, <1>2 DEF MutexInv

\* The same for thrsafe.c.
LEMMA SafeListed == SafeInv => GR!TypeOK /\ GR!InitBeforeUse /\ GR!PrintsValue
<1> SUFFICES ASSUME SafeInv PROVE GR!TypeOK /\ GR!InitBeforeUse /\ GR!PrintsValue
  OBVIOUS
<1>1. GR!InitBeforeUse
  <2>1. \A t \in GR!Threads : /\ envThr[t] \in {"lock", "alloc", "copy", "unlock"} => once = "done"
                              /\ envThr[t] \in {"alloc", "copy", "unlock"} => envLock = t
    BY DEF SafeInv, OnceInv
  <2>2. \A t, u \in GR!Threads : envThr[t] = "init" /\ envThr[u] = "init" => t = u
    BY DEF SafeInv, OnceInv
  <2> QED
    BY <2>1, <2>2 DEF GR!InitBeforeUse
<1>2. GR!PrintsValue
  BY DEF SafeInv, GR!PrintsValue
<1> QED
  BY <1>1, <1>2 DEF SafeInv

\* The same for thrspec.c.
LEMMA SpecListed == SpecInv => GS!TypeOK /\ GS!InitBeforeUse /\ GS!PrintsValue
<1> SUFFICES ASSUME SpecInv PROVE GS!TypeOK /\ GS!InitBeforeUse /\ GS!PrintsValue
  OBVIOUS
<1>0. GS!Threads = GR!Threads
  BY DEF GS!Threads, GR!Threads
<1>1. GS!InitBeforeUse
  <2>1. \A t \in GS!Threads : /\ envThr[t] \in {"lock", "alloc", "copy", "unlock"} => once = "done"
                              /\ envThr[t] \in {"alloc", "copy", "unlock"} => envLock = t
    BY <1>0 DEF SpecInv, OnceInv
  <2>2. \A t, u \in GS!Threads : envThr[t] = "init" /\ envThr[u] = "init" => t = u
    BY <1>0 DEF SpecInv, OnceInv
  <2> QED
    BY <2>1, <2>2 DEF GS!InitBeforeUse
<1>2. GS!PrintsValue
  BY DEF SpecInv, GS!PrintsValue
<1> QED
  BY <1>1, <1>2 DEF SpecInv

\* The same for cancel.c.
LEMMA CancelListed == CancelInv => CA!CancelTypeOK /\ CA!StdoutOwned
BY DEF CancelInv

\* The same for cancelup.c.
LEMMA CleanupListed == CleanupInv => UP!CleanupTypeOK /\ UP!HandlersInReverse
<1> SUFFICES ASSUME CleanupInv PROVE UP!CleanupTypeOK /\ UP!HandlersInReverse
  OBVIOUS
<1>1. /\ upAsked \in BOOLEAN /\ late \in BOOLEAN
      /\ upAt[3] \in {"unwind", "ended"} => upAsked
  BY DEF CleanupInv, CleanupFlags
<1> USE DEF UP!Threads
<1>p. UP!Pushes[1] = 2 /\ UP!Pushes[2] = 4 /\ UP!Pushes[3] = 1
  BY DEF UP!Pushes
<1>3. \A n \in 0..4 : Len(Handlers(n)) = n
  BY HandlersSeq
<1>4. CleanupSteps /\ HandlersOf1 /\ HandlersOf2 /\ HandlersOf3
  BY DEF CleanupInv
<1>5. ASSUME NEW t \in UP!Threads, upAt[t] \in {"unborn", "push"}
      PROVE  Len(stack[t]) + Len(ran[t]) <= UP!Pushes[t]
  <2>1. Len(ran[t]) = 0
    <3>1. ran[t] = <<>>
      BY <1>4, <1>5 DEF CleanupSteps
    <3> QED
      BY <3>1
  <2>2. PICK n \in 0..UP!Pushes[t] : stack[t] = Handlers(n)
    <3>1. CASE upAt[t] = "unborn"
      BY <1>4, <1>p, <3>1 DEF CleanupSteps
    <3>2. CASE upAt[t] = "push"
      BY <1>4, <1>p, <3>2 DEF CleanupSteps
    <3> QED
      BY <1>5, <3>1, <3>2
  <2>3. Len(stack[t]) = n
    <3>1. n \in 0..4
      BY <1>p, <2>2
    <3> QED
      BY <1>3, <2>2, <3>1
  <2> QED
    BY <1>p, <2>1, <2>2, <2>3
<1>6. \A t \in UP!Threads : Len(stack[t]) + Len(ran[t]) <= UP!Pushes[t]
  <2>h. /\ Len(Handlers(0)) = 0 /\ Len(Handlers(1)) = 1 /\ Len(Handlers(2)) = 2
        /\ Len(Handlers(3)) = 3 /\ Len(Handlers(4)) = 4
    BY <1>3
  <2>l. /\ Len(<<>>) = 0 /\ Len(<<4>>) = 1 /\ Len(<<4, 2>>) = 2 /\ Len(<<4, 2, 1>>) = 3
        /\ Len(<<1>>) = 1
    OBVIOUS
  <2>1. Len(stack[1]) + Len(ran[1]) <= UP!Pushes[1]
    <3>1. CASE upAt[1] \in {"cancel", "return", "ended"}
      <4>1. stack[1] = Handlers(2) /\ ran[1] = <<>>
        BY <1>4, <3>1 DEF HandlersOf1
      <4>2. Len(stack[1]) = 2 /\ Len(ran[1]) = 0
        BY <2>h, <2>l, <4>1
      <4> QED
        BY <1>p, <4>2
    <3> QED
      BY <1>4, <1>5, <3>1 DEF HandlersOf1
  <2>2. Len(stack[2]) + Len(ran[2]) <= UP!Pushes[2]
    <3>1. CASE upAt[2] \in {"pop1", "pop2", "exit", "unwind", "ended"}
      <4>1. \/ stack[2] = Handlers(4) /\ ran[2] = <<>>
            \/ stack[2] = Handlers(3) /\ ran[2] = <<4>>
            \/ stack[2] = Handlers(2) /\ ran[2] = <<4>>
            \/ stack[2] = Handlers(1) /\ ran[2] = <<4, 2>>
            \/ stack[2] = Handlers(0) /\ ran[2] = <<4, 2, 1>>
        BY <1>4, <3>1 DEF HandlersOf2
      <4>2. \/ Len(stack[2]) = 4 /\ Len(ran[2]) = 0
            \/ Len(stack[2]) = 3 /\ Len(ran[2]) = 1
            \/ Len(stack[2]) = 2 /\ Len(ran[2]) = 1
            \/ Len(stack[2]) = 1 /\ Len(ran[2]) = 2
            \/ Len(stack[2]) = 0 /\ Len(ran[2]) = 3
        BY <2>h, <2>l, <4>1
      <4>3. CASE Len(stack[2]) = 4 /\ Len(ran[2]) = 0
        BY <1>p, <4>3
      <4>4. CASE Len(stack[2]) = 3 /\ Len(ran[2]) = 1
        BY <1>p, <4>4
      <4>5. CASE Len(stack[2]) = 2 /\ Len(ran[2]) = 1
        BY <1>p, <4>5
      <4>6. CASE Len(stack[2]) = 1 /\ Len(ran[2]) = 2
        BY <1>p, <4>6
      <4>7. CASE Len(stack[2]) = 0 /\ Len(ran[2]) = 3
        BY <1>p, <4>7
      <4> QED
        BY <4>2, <4>3, <4>4, <4>5, <4>6, <4>7
    <3> QED
      BY <1>4, <1>5, <3>1 DEF HandlersOf2
  <2>3. Len(stack[3]) + Len(ran[3]) <= UP!Pushes[3]
    <3>1. CASE upAt[3] \in {"loop", "unwind", "ended"}
      <4>1. \/ stack[3] = Handlers(1) /\ ran[3] = <<>>
            \/ stack[3] = Handlers(0) /\ ran[3] = <<1>>
        BY <1>4, <3>1 DEF HandlersOf3
      <4>2. \/ Len(stack[3]) = 1 /\ Len(ran[3]) = 0
            \/ Len(stack[3]) = 0 /\ Len(ran[3]) = 1
        BY <2>h, <2>l, <4>1
      <4>3. CASE Len(stack[3]) = 1 /\ Len(ran[3]) = 0
        BY <1>p, <4>3
      <4>4. CASE Len(stack[3]) = 0 /\ Len(ran[3]) = 1
        BY <1>p, <4>4
      <4> QED
        BY <4>2, <4>3, <4>4
    <3> QED
      BY <1>4, <1>5, <3>1 DEF HandlersOf3
  <2> QED
    BY <2>1, <2>2, <2>3
<1>7. UP!CleanupTypeOK
  BY <1>1, <1>4, <1>6 DEF CleanupSteps, UP!CleanupTypeOK
<1>8. ran[2] \in {SubSeq(<<4, 2, 1>>, 1, k) : k \in 0..3}
  <2>1. ran[2] \in {<<>>, <<4>>, <<4, 2>>, <<4, 2, 1>>}
    BY <1>4 DEF CleanupSteps, HandlersOf2
  <2>2. \E k \in 0..3 : ran[2] = SubSeq(<<4, 2, 1>>, 1, k)
    <3>1. 0 \in 0..3 /\ 1 \in 0..3 /\ 2 \in 0..3 /\ 3 \in 0..3
      OBVIOUS
    <3> HIDE DEF UP!Threads
    <3> QED
      BY <2>1, <3>1, RanPrefixes, Zenon
  <2> QED
    BY <2>2
<1>9. ran[1] = <<>> /\ (upAt[2] = "ended" => ran[2] = <<4, 2, 1>>)
      /\ (upAt[3] = "ended" => ran[3] = <<1>>)
  BY <1>4 DEF HandlersOf1, HandlersOf2, HandlersOf3
<1> QED
  BY <1>1, <1>7, <1>8, <1>9 DEF UP!HandlersInReverse

\* The same for those that begin and end.
LEMMA StartListed == StartInv => CA!StartTypeOK /\ CA!ArgOverwritten /\ CA!JoinedHasEnded
<1> SUFFICES ASSUME StartInv PROVE CA!StartTypeOK /\ CA!ArgOverwritten /\ CA!JoinedHasEnded
  OBVIOUS
<1>1. CA!ArgOverwritten
  BY DEF StartInv, ExitJoinInv, CA!ArgOverwritten
<1>2. ASSUME mainAt = "exit0", begun = "detach" PROVE failed \/ thrAt[1] = "joined"
  BY <1>2 DEF StartInv, DetachInv
<1>3. ASSUME mainAt = "exit0", begun \in {"exitjoin", "thrio"}
      PROVE  thrAt = [t \in CA!Workers |-> "joined"]
  <2>1. thrAt[1] = "joined" /\ thrAt[2] = "joined"
    BY <1>3 DEF StartInv, ExitJoinInv, ThrIoInv
  <2> QED
    BY <2>1 DEF StartInv, CA!StartTypeOK, CA!Workers
<1>4. ASSUME mainAt = "exit0", begun = "attr" PROVE told[1] = 1 /\ failed
  <2>1. told[1] = 1
    BY <1>4 DEF StartInv, AttrSteps
  <2>2. failed
    BY <1>4 DEF StartInv, AttrFailed
  <2> QED
    BY <2>1, <2>2
<1>5. CA!JoinedHasEnded
  BY <1>2, <1>3, <1>4 DEF CA!JoinedHasEnded
<1> QED
  BY <1>1, <1>5 DEF StartInv

\* All of them together.
LEMMA Listed == IInv => TypeOK /\ WokenForCause /\ LocksKept
<1> SUFFICES ASSUME IInv PROVE TypeOK /\ WokenForCause /\ LocksKept
  OBVIOUS
<1> USE CondListed, SigListed, ForkListed, RwListed, MutexListed, SafeListed, SpecListed,
        CancelListed, CleanupListed, StartListed
<1>1. TypeOK
  BY DEF IInv, TypeOK
<1>2. WokenForCause
  BY DEF IInv, WokenForCause
<1>3. LocksKept
  BY DEF IInv, LocksKept
<1> QED
  BY <1>1, <1>2, <1>3

\* Each program begins where its invariant holds, whatever the others have left.
LEMMA Initially == Init => IInv
<1> SUFFICES ASSUME Init PROVE IInv
  OBVIOUS
<1> USE CondInit, SigInit, ForkInit, RwInit, MutexInit, SafeInit, SpecInit, CancelInit,
        CleanupInit, StartInit
<1>1. RwInv /\ MutexInv /\ CancelInv /\ CleanupInv
  BY DEF Init
<1>2. (prog = "cond" => CondInv) /\ (prog = "thrsig" => SigInv) /\ (prog = "thrfork" => ForkInv)
  BY DEF Init
<1>3. (prog = "thrsafe" => SafeInv) /\ (prog = "thrspec" => SpecInv) /\ (prog = "start" => StartInv)
  BY DEF Init
<1>4. prog \in {"cond", "thrsig", "thrfork", "rwlock", "mutex", "thrsafe", "thrspec", "cancel",
                "cancelup", "start"}
  BY DEF Init
<1> QED
  BY <1>1, <1>2, <1>3, <1>4 DEF IInv

\* A step is one of the program that runs, and keeps its invariant.
LEMMA Inductive == IInv /\ [Next]_vars => IInv'
<1> SUFFICES ASSUME IInv, [Next]_vars PROVE IInv'
  OBVIOUS
<1>1. CASE InCond(C!Next)
  BY <1>1, CondStep DEF IInv, InCond
<1>2. CASE InSig(T!Next)
  BY <1>2, SigStep DEF IInv, InSig
<1>3. CASE InFork(R!ForkNext)
  BY <1>3, ForkStep DEF IInv, InFork, Other
<1>4. CASE InRw(R!RwNext)
  BY <1>4, RwStep DEF IInv, InRw, Other
<1>5. CASE InMu(M!MutexNext)
  BY <1>5, MutexStep DEF IInv, InMu, Other
<1>6. CASE InSafe(GR!Next)
  BY <1>6, SafeStep DEF IInv, InSafe, InEnv, Other
<1>7. CASE InSpec(GS!Next)
  BY <1>7, SpecStep DEF IInv, InSpec, InEnv, Other
<1>8. CASE InCa(CA!CancelNext)
  BY <1>8, CancelStep DEF IInv, InCa, Other
<1>9. CASE InUp(UP!CleanupNext)
  BY <1>9, CleanupStep DEF IInv, InUp, Other
<1>10. CASE InStart(CA!StartNext)
  BY <1>10, StartStep DEF IInv, InStart, Other
<1>11. CASE UNCHANGED vars
  <2> USE <1>11 DEF vars
  <2>1. CondInv => CondInv'
    BY DEF condVars, CondInv, C!TypeOK, C!Threads, C!Waiters, C!Free, C!Signals
  <2>2. SigInv => SigInv'
    BY DEF sigVars, SigInv, Waits, T!TypeOK, T!LeavesOnQuit, T!ClearedForGood,
           T!KilledByExtraSignal
  <2>3. ForkInv => ForkInv'
    BY DEF lockVars, forkVars, ForkInv, R!ForkTypeOK
  <2>4. RwInv => RwInv'
    BY DEF lockVars, rwVars, RwInv, RwSteps, RwHolders, RwMisuse
  <2>5. MutexInv => MutexInv'
    BY DEF lockVars, muVars, MutexInv, M!MutexTypeOK
  <2>6. SafeInv => SafeInv'
    BY DEF envVars, SafeInv, OnceInv, GR!TypeOK
  <2>7. SpecInv => SpecInv'
    BY DEF envVars, SpecInv, OnceInv, GS!TypeOK
  <2>8. CancelInv => CancelInv'
    BY DEF endVars, caVars, CancelInv, CA!CancelTypeOK, CA!StdoutOwned
  <2>9. CleanupInv => CleanupInv'
    BY DEF endVars, upVars, CleanupInv, CleanupSteps, HandlersOf1, HandlersOf2, HandlersOf3,
           CleanupFlags
  <2>10. StartInv => StartInv'
    BY DEF endVars, startVars, StartInv, ExitJoinInv, ThrIoInv, DetachInv, AttrSteps, AttrFailed,
           CA!StartTypeOK
  <2> QED
    BY <2>1, <2>2, <2>3, <2>4, <2>5, <2>6, <2>7, <2>8, <2>9, <2>10 DEF IInv
<1> QED
  BY <1>1, <1>2, <1>3, <1>4, <1>5, <1>6, <1>7, <1>8, <1>9, <1>10, <1>11 DEF Next

\* Whichever program runs, its invariant holds in every state it reaches.
THEOREM Invariance == Spec => []IInv
BY Initially, Inductive, PTL DEF Spec

\* Every variable of the program that runs keeps its type.
THEOREM TypeCorrect == Spec => []TypeOK
BY Invariance, Listed, PTL

\* cond.c and thrsig.c: nobody leaves a wait loop without its condition, no waiter is left
\* on the queue after two signals, and only a signal that came too late kills thrsig.c.
THEOREM WokenAlways == Spec => []WokenForCause
BY Invariance, Listed, PTL

\* thrfork.c, rwlock.c, mutex.c, thrsafe.c, thrspec.c, cancel.c, cancelup.c and the programs
\* that begin and end: locks, buffers, handlers and joined threads are where they must be.
THEOREM LocksAlways == Spec => []LocksKept
BY Invariance, Listed, PTL
==============================================================================
