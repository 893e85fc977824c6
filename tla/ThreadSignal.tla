----------------------------- MODULE ThreadSignal -----------------------------
(***************************************************************************)
(* 12-thrctl/8-thrsig/thrsig.c: SIGINT and SIGQUIT are blocked in every    *)
(* thread and taken by one thread in sigwait(); SIGQUIT sets quitflag and  *)
(* wakes main, which restores its mask and returns.  Signals are sent to   *)
(* the process at any time.                                                *)
(***************************************************************************)
EXTENDS Naturals, FiniteSets

CONSTANT MaxSent       \* bound on the signals sent

Signals == {"INT", "QUIT"}
Free    == "free"      \* owner of the mutex when nobody has it

VARIABLES main,     \* what the main thread does next
          thr,      \* what the signal thread does next
          mutex,    \* "main", "thr" or Free
          waiting,  \* main is on the queue of the condition variable
          quitflag,
          pending,  \* signals pending for the process: one of a kind at most
          sent,     \* how many were sent
          taken,    \* how many the signal thread took
          ended     \* "no", "exit" or "killed"

vars == <<main, thr, mutex, waiting, quitflag, pending, sent, taken, ended>>
idle == <<pending, sent, taken, ended>>

Init ==
  /\ main = "block" /\ thr = "none"
  /\ mutex = Free /\ waiting = FALSE
  /\ quitflag = 0
  /\ pending = {} /\ sent = 0 /\ taken = 0
  /\ ended = "no"

Main(from, to) == ended = "no" /\ main = from /\ main' = to
Thr(from, to)  == ended = "no" /\ thr = from /\ thr' = to

\* Mutant: the signals are blocked after pthread_create().
Blocked_Late == main \notin {"block", "create", "return"}

\* The main thread blocks both signals between its two pthread_sigmask()
\* calls; the signal thread inherits that mask and keeps it.
Blocked == main \notin {"block", "return"}

------------------------------------------------------------------------------
(* kill(2): the default action of both signals ends the process *)
Send(s) ==
  /\ ended = "no" /\ sent < MaxSent
  /\ sent' = sent + 1
  /\ IF Blocked THEN pending' = pending \cup {s} /\ UNCHANGED ended
                ELSE ended' = "killed" /\ UNCHANGED pending
  /\ UNCHANGED <<main, thr, mutex, waiting, quitflag, taken>>

------------------------------------------------------------------------------
(* thr_rtn() *)

\* sigwait() takes one pending signal; SIGINT goes round the loop.
SigWait(s) ==
  /\ Thr("sigwait", IF s = "QUIT" THEN "lock" ELSE "sigwait")
  /\ s \in pending
  /\ pending' = pending \ {s}
  /\ taken' = taken + 1
  /\ UNCHANGED <<main, mutex, waiting, quitflag, sent, ended>>

\* Mutant: no mutex around the flag.
ThrLock_None ==
  /\ Thr("lock", "set")
  /\ UNCHANGED <<main, mutex, waiting, quitflag, idle>>

ThrLock ==
  /\ Thr("lock", "set")
  /\ mutex = Free /\ mutex' = "thr"
  /\ UNCHANGED <<main, waiting, quitflag, idle>>

SetFlag ==
  /\ Thr("set", "unlock")
  /\ quitflag' = 1
  /\ UNCHANGED <<main, mutex, waiting, idle>>

ThrUnlock ==
  /\ Thr("unlock", "signal")
  /\ mutex' = IF mutex = "thr" THEN Free ELSE mutex
  /\ UNCHANGED <<main, waiting, quitflag, idle>>

CondSignal ==
  /\ Thr("signal", "done")
  /\ waiting' = FALSE
  /\ UNCHANGED <<main, mutex, quitflag, idle>>

------------------------------------------------------------------------------
(* main() *)

Block ==
  /\ Main("block", "create")
  /\ UNCHANGED <<thr, mutex, waiting, quitflag, idle>>

\* pthread_create() starts the thread or fails and ends the program.
Create ==
  /\ Main("create", "lock")
  /\ \/ thr' = "sigwait" /\ UNCHANGED ended
     \/ ended' = "exit" /\ UNCHANGED thr
  /\ UNCHANGED <<mutex, waiting, quitflag, pending, sent, taken>>

MainLock ==
  /\ Main("lock", "test")
  /\ mutex = Free /\ mutex' = "main"
  /\ UNCHANGED <<thr, waiting, quitflag, idle>>

Test ==
  /\ Main("test", IF quitflag = 0 THEN "wait" ELSE "unlock")
  /\ UNCHANGED <<thr, mutex, waiting, quitflag, idle>>

Wait ==
  /\ Main("wait", "waiting")
  /\ waiting' = TRUE /\ mutex' = Free
  /\ UNCHANGED <<thr, quitflag, idle>>

SpuriousWake ==
  /\ ended = "no" /\ waiting /\ waiting' = FALSE
  /\ UNCHANGED <<main, thr, mutex, quitflag, idle>>

\* Mutant: if (quitflag == 0).
Relock_NoTest ==
  /\ Main("waiting", "unlock") /\ ~waiting
  /\ mutex = Free /\ mutex' = "main"
  /\ UNCHANGED <<thr, waiting, quitflag, idle>>

\* pthread_cond_wait() returns with the mutex.
Relock ==
  /\ Main("waiting", "test") /\ ~waiting
  /\ mutex = Free /\ mutex' = "main"
  /\ UNCHANGED <<thr, waiting, quitflag, idle>>

MainUnlock ==
  /\ Main("unlock", "clear")
  /\ mutex' = Free
  /\ UNCHANGED <<thr, waiting, quitflag, idle>>

\* quitflag = 0 without the mutex.
ClearFlag ==
  /\ Main("clear", "restore")
  /\ quitflag' = 0
  /\ UNCHANGED <<thr, mutex, waiting, idle>>

\* The old mask unblocks both signals: a pending one is delivered at once.
Restore ==
  /\ Main("restore", "return")
  /\ ended' = IF pending # {} THEN "killed" ELSE "no"
  /\ UNCHANGED <<thr, mutex, waiting, quitflag, pending, sent, taken>>

Return ==
  /\ Main("return", "return")
  /\ ended' = "exit"
  /\ UNCHANGED <<thr, mutex, waiting, quitflag, pending, sent, taken>>

------------------------------------------------------------------------------
SignalThread == \/ \E s \in Signals : SigWait(s)
                \/ ThrLock \/ SetFlag \/ ThrUnlock \/ CondSignal
MainThread   == \/ Block \/ Create \/ MainLock \/ Test \/ Wait \/ Relock
                \/ MainUnlock \/ ClearFlag \/ Restore \/ Return

Next == SignalThread \/ MainThread \/ SpuriousWake \/ \E s \in Signals : Send(s)

Spec == Init /\ [][Next]_vars

\* Both threads are scheduled, and a thread gets a mutex that is free again
\* and again: spurious wake-ups of main do not starve the other one.
FairSpec == /\ Spec
            /\ WF_vars(SignalThread) /\ WF_vars(MainThread)
            /\ SF_vars(ThrLock)

------------------------------------------------------------------------------
(* What must hold *)

TypeOK ==
  /\ main \in {"block", "create", "lock", "test", "wait", "waiting", "unlock", "clear",
               "restore", "return"}
  /\ thr \in {"none", "sigwait", "lock", "set", "unlock", "signal", "done"}
  /\ mutex \in {"main", "thr", Free}
  /\ waiting \in BOOLEAN
  /\ quitflag \in {0, 1}
  /\ pending \subseteq Signals
  /\ sent \in 0..MaxSent /\ taken \in 0..sent
  /\ ended \in {"no", "exit", "killed"}

\* Lines 31-36 and 145: main leaves its loop only because the thread took a
\* SIGQUIT and set the flag.
LeavesOnQuit == main \in {"unlock", "clear", "restore", "return"}
                  => thr \in {"unlock", "signal", "done"}

\* The flag main clears without the mutex at line 155 is never set again:
\* nobody writes it any more.
ClearedForGood == main \in {"restore", "return"} => quitflag = 0

\* Lines 17-23: main never has to worry about these signals.  A process that
\* blocked them is killed only by a signal that nobody was left to take.
KilledByExtraSignal == ended = "killed" /\ main # "block" => sent > taken /\ taken > 0

\* Lines 31-36: main cannot miss the wake-up call.  A SIGQUIT that is pending
\* ends the program.
QuitEnds == ("QUIT" \in pending /\ Blocked) ~> ended # "no"
==============================================================================
