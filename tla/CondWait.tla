------------------------------- MODULE CondWait -------------------------------
(***************************************************************************)
(* 11-thread/10-cond/cond.c: the main thread and thread 2 wait on one      *)
(* condition variable until state is set; thread 1 sets it without the     *)
(* mutex and then signals twice with it.  A wait may end by a signal, by   *)
(* its timeout (main only) or for no reason at all.                        *)
(***************************************************************************)
EXTENDS Naturals, FiniteSets

Waiters == {"main", "thread2"}
Threads == Waiters \cup {"thread1"}
Free    == "free"               \* owner of the mutex when nobody has it

VARIABLES pc,      \* what each thread does next
          state,   \* the condition
          mutex,   \* who holds it
          blocked, \* waiters on the queue of the condition variable
          sent     \* signals thread 1 has sent: the i of its loop

vars == <<pc, state, mutex, blocked, sent>>

Init ==
  /\ pc = [t \in Threads |-> IF t = "main" THEN "create1" ELSE "none"]
  /\ state = 0
  /\ mutex = Free
  /\ blocked = {}
  /\ sent = 0

At(t, lbl)  == pc[t] = lbl
Goto(t, to) == pc' = [pc EXCEPT ![t] = to]

\* The end of main() is the end of every thread.
EndProcess == pc' = [t \in Threads |-> "gone"]

\* pthread_mutex_lock() and pthread_mutex_unlock()
Acquire(t) == mutex = Free /\ mutex' = t
Drop       == mutex' = Free

------------------------------------------------------------------------------
(* Thread 1 *)

\* sleep(2); state = 1, with no lock held.
SetState ==
  /\ At("thread1", "sleep")
  /\ state' = 1
  /\ Goto("thread1", "lock")
  /\ UNCHANGED <<mutex, blocked, sent>>

SignalLock ==
  /\ At("thread1", "lock")
  /\ Acquire("thread1")
  /\ Goto("thread1", "signal")
  /\ UNCHANGED <<state, blocked, sent>>

\* pthread_cond_signal() wakes at least one waiter, if there is one.
Signal ==
  /\ At("thread1", "signal")
  /\ blocked' \in IF blocked = {} THEN {{}} ELSE (SUBSET blocked) \ {blocked}
  /\ sent' = sent + 1
  /\ Goto("thread1", "unlock")
  /\ UNCHANGED <<state, mutex>>

\* Mutant: the loop runs once.
Signals_Once == 1

Signals == 2

\* Mutant: i <= 2.
SignalUnlock_OneMore ==
  /\ At("thread1", "unlock")
  /\ mutex' = IF mutex = "thread1" THEN Free ELSE mutex
  /\ Goto("thread1", IF sent <= Signals THEN "lock" ELSE "done")
  /\ UNCHANGED <<state, blocked, sent>>

SignalUnlock ==
  /\ At("thread1", "unlock")
  /\ mutex' = IF mutex = "thread1" THEN Free ELSE mutex
  /\ Goto("thread1", IF sent < Signals THEN "lock" ELSE "done")
  /\ UNCHANGED <<state, blocked, sent>>

------------------------------------------------------------------------------
(* The wait loops of thread 2 and of main *)

WaitLock(w) ==
  /\ At(w, "lock")
  /\ Acquire(w)
  /\ Goto(w, "test")
  /\ UNCHANGED <<state, blocked, sent>>

\* while (state == 0)
Test(w) ==
  /\ At(w, "test")
  /\ Goto(w, IF state = 0 THEN "wait" ELSE "unlock")
  /\ UNCHANGED <<state, mutex, blocked, sent>>

\* pthread_cond_wait() and pthread_cond_timedwait() queue the thread and
\* give up the mutex in one step.
Wait(w) ==
  /\ At(w, "wait")
  /\ blocked' = blocked \cup {w}
  /\ Drop
  /\ Goto(w, "blocked")
  /\ UNCHANGED <<state, sent>>

\* A wait that ends without a signal: for main because maketimeout()'s second
\* is over, for either by a spurious wake-up.
WakeAlone(w) ==
  /\ w \in blocked /\ At(w, "blocked")
  /\ blocked' = blocked \ {w}
  /\ UNCHANGED <<pc, state, mutex, sent>>

\* Mutant: if (state == 0), the condition is not looked at again.
Relock_NoTest(w) ==
  /\ At(w, "blocked") /\ w \notin blocked
  /\ Acquire(w)
  /\ Goto(w, "unlock")
  /\ UNCHANGED <<state, blocked, sent>>

\* A thread that is off the queue takes the mutex before the wait returns.
Relock(w) ==
  /\ At(w, "blocked") /\ w \notin blocked
  /\ Acquire(w)
  /\ Goto(w, "test")
  /\ UNCHANGED <<state, blocked, sent>>

WaitUnlock(w) ==
  /\ At(w, "unlock")
  /\ Drop
  /\ Goto(w, IF w = "main" THEN "join" ELSE "done")
  /\ UNCHANGED <<state, blocked, sent>>

------------------------------------------------------------------------------
(* The rest of main() *)

\* pthread_create(), which may fail and end the program.
Create1 ==
  /\ At("main", "create1")
  /\ \/ pc' = [pc EXCEPT !["main"] = "create2", !["thread1"] = "sleep"]
     \/ EndProcess
  /\ UNCHANGED <<state, mutex, blocked, sent>>

Create2 ==
  /\ At("main", "create2")
  /\ \/ pc' = [pc EXCEPT !["main"] = "lock", !["thread2"] = "lock"]
     \/ EndProcess
  /\ UNCHANGED <<state, mutex, blocked, sent>>

\* pthread_join(tid2) and return.
Join ==
  /\ At("main", "join") /\ At("thread2", "done")
  /\ EndProcess
  /\ UNCHANGED <<state, mutex, blocked, sent>>

------------------------------------------------------------------------------
Thread1    == SetState \/ SignalLock \/ Signal \/ SignalUnlock
Waiter(w)  == WaitLock(w) \/ Test(w) \/ Wait(w) \/ Relock(w) \/ WaitUnlock(w)
Main       == Create1 \/ Create2 \/ Join

Next ==
  \/ Thread1
  \/ Main
  \/ \E w \in Waiters : Waiter(w) \/ WakeAlone(w)

Spec == Init /\ [][Next]_vars

\* Every thread is scheduled.  Nothing promises a spurious wake-up, and main's
\* timeout gets no fairness either: nobody's progress may rest on it.
FairSpec == /\ Spec
            /\ WF_vars(Thread1) /\ WF_vars(Main)
            /\ \A w \in Waiters : WF_vars(Waiter(w))

------------------------------------------------------------------------------
(* What must hold *)

TypeOK ==
  /\ pc \in [Threads -> {"create1", "create2", "none", "sleep", "lock", "signal", "test", "wait",
                         "blocked", "unlock", "join", "done", "gone"}]
  /\ state \in {0, 1}
  /\ mutex \in Threads \cup {Free}
  /\ blocked \subseteq Waiters
  /\ sent \in 0..Signals

\* Lines 29-33: two signals are enough for two waiters; once thread 1 is done
\* nobody is left on the queue, although state was set without the mutex.
NoLostWakeup == At("thread1", "done") => blocked = {}

\* Who leaves a wait loop finds the condition true, whatever woke it.
WakesForReason == \A w \in Waiters : pc[w] \in {"unlock", "join", "done"} => state = 1

\* The program ends, even if no timed wait ever times out.
Terminates == <>(\A t \in Threads : pc[t] = "gone")
==============================================================================
