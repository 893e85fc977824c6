------------------------------- MODULE Getenv -------------------------------
(***************************************************************************)
(* Two threads ask for USER: 12-thrctl/5-thrsafe/thrsafe.c with getenv_l(), *)
(* which has one static buffer, and getenv_r_l(), whose caller brings one; *)
(* 12-thrctl/6-thrspec/thrspec.c (Specific) with a buffer for each thread  *)
(* that is freed when the thread ends.                                     *)
(***************************************************************************)
EXTENDS Naturals

CONSTANT Specific

Threads == {"thread1", "thread2"}

VARIABLES user,   \* USER is in the environment
          main, thr,
          once,   \* pthread_once(): "never", a thread that runs it, or "done"
          lock,   \* "raw" before thread_init(), "free", or the thread that has it
          envbuf, \* of getenv_l() in thrsafe.c
          buf,    \* of each thread
          got,    \* what its call has returned
          shown   \* what it has printed

vars == <<user, main, thr, once, lock, envbuf, buf, got, shown>>
data == <<user, envbuf, buf, got, shown>>

Init ==
  /\ user \in BOOLEAN /\ main = "create1" /\ thr = [t \in Threads |-> "unborn"]
  /\ once = "never" /\ lock = (IF Specific THEN "free" ELSE "raw") /\ envbuf = "zeros"
  /\ buf = [t \in Threads |-> IF Specific THEN "none" ELSE "garbage"]
  /\ got = [t \in Threads |-> "none"] /\ shown = [t \in Threads |-> {}]

First == IF Specific THEN "once" ELSE "getenv"

\* thrsafe.c, lines 130-144, and thrspec.c, lines 136-149: main does not join.
Create ==
  /\ \/ main = "create1" /\ main' = "create2" /\ thr' = [thr EXCEPT !["thread1"] = First]
     \/ main = "create2" /\ main' = "exited" /\ thr' = [thr EXCEPT !["thread2"] = First]
     \/ main \in {"create1", "create2"} /\ main' = "failed" /\ UNCHANGED thr
  /\ UNCHANGED <<once, lock, data>>

Go(t, from, to) == /\ main # "failed" /\ thr[t] = from /\ thr' = [thr EXCEPT ![t] = to]
                   /\ UNCHANGED <<main, user>>

\* thrsafe.c, lines 15-28: another thread may copy the same bytes over these.
GetenvStatic(t) ==
  /\ Go(t, "getenv", "show") /\ envbuf' = (IF user THEN "value" ELSE envbuf)
  /\ UNCHANGED <<once, lock, buf, got, shown>>

ShowStatic(t) ==
  /\ Go(t, "show", "once")
  /\ shown' = [shown EXCEPT ![t] = @ \cup {IF user THEN envbuf ELSE "NULL"}]
  /\ UNCHANGED <<once, lock, envbuf, buf, got>>

\* Mutant: a test of the flag instead of pthread_once().
EnterOnce_Test(t) ==
  /\ IF once = "done" THEN Go(t, "once", "lock") /\ UNCHANGED once
                      ELSE Go(t, "once", "init") /\ once' = t
  /\ UNCHANGED <<lock, envbuf, buf, got, shown>>

\* pthread_once(): the first caller runs thread_init(), others wait for its end.
EnterOnce(t) ==
  /\ \/ once = "done" /\ Go(t, "once", "lock") /\ UNCHANGED once
     \/ once = "never" /\ Go(t, "once", "init") /\ once' = t
  /\ UNCHANGED <<lock, envbuf, buf, got, shown>>

\* thread_init(): the mutex of thrsafe.c, the key of thrspec.c.
ThreadInit(t) ==
  /\ Go(t, "init", "lock") /\ once' = "done"
  /\ lock' = (IF Specific THEN lock ELSE "free")
  /\ UNCHANGED <<envbuf, buf, got, shown>>

Lock(t) == /\ Go(t, "lock", IF Specific THEN "alloc" ELSE "copy") /\ lock = "free" /\ lock' = t
           /\ UNCHANGED <<once, envbuf, buf, got, shown>>

\* Mutant: line 59 is missing.
AllocFails_Keeps(t) ==
  /\ Specific /\ Go(t, "alloc", "print") /\ got' = [got EXCEPT ![t] = "NULL"]
  /\ UNCHANGED <<once, lock, envbuf, buf, shown>>

\* thrspec.c, lines 58-61.
AllocFails(t) ==
  /\ Specific /\ Go(t, "alloc", "print") /\ got' = [got EXCEPT ![t] = "NULL"]
  /\ lock' = "free" /\ UNCHANGED <<once, envbuf, buf, shown>>

\* thrspec.c, lines 55-63.
Alloc(t) == /\ Specific /\ Go(t, "alloc", "copy") /\ buf' = [buf EXCEPT ![t] = "garbage"]
            /\ UNCHANGED <<once, lock, envbuf, got, shown>>

\* The search and strcpy(): thrsafe.c, lines 74-83; thrspec.c, lines 65-73.
Copy(t) ==
  /\ Go(t, "copy", "unlock")
  /\ buf' = (IF user THEN [buf EXCEPT ![t] = "value"] ELSE buf)
  /\ got' = [got EXCEPT ![t] = IF Specific THEN (IF user THEN "buffer" ELSE "NULL") ELSE "ENOENT"]
  /\ UNCHANGED <<once, lock, envbuf, shown>>

Unlock(t) == /\ Go(t, "unlock", "print") /\ lock' = "free"
             /\ UNCHANGED <<once, envbuf, buf, got, shown>>

\* thrsafe.c prints its buffer whatever was returned.
Print1(t) ==
  /\ Go(t, "print", "exit")
  /\ shown' = [shown EXCEPT ![t] = @ \cup {IF got[t] = "NULL" THEN "NULL" ELSE buf[t]}]
  /\ UNCHANGED <<once, lock, envbuf, buf, got>>

\* Mutant: pthread_key_create(&key, NULL).
Exit_NoDestructor(t) == Go(t, "exit", "ended") /\ UNCHANGED <<once, lock, envbuf, buf, got, shown>>

\* thrspec.c, line 33: the buffer of a thread is freed when it ends.
Exit(t) ==
  /\ Go(t, "exit", "ended")
  /\ buf' = (IF Specific /\ buf[t] # "none" THEN [buf EXCEPT ![t] = "freed"] ELSE buf)
  /\ UNCHANGED <<once, lock, envbuf, got, shown>>

Thread(t) == \/ GetenvStatic(t) \/ ShowStatic(t) \/ EnterOnce(t) \/ ThreadInit(t) \/ Lock(t)
             \/ AllocFails(t) \/ Alloc(t) \/ Copy(t) \/ Unlock(t) \/ Print1(t) \/ Exit(t)

Next == Create \/ \E t \in Threads : Thread(t)

Spec == Init /\ [][Next]_vars

FairSpec == Spec /\ WF_vars(Create) /\ \A t \in Threads : WF_vars(Thread(t))

------------------------------------------------------------------------------
(* What must hold *)

TypeOK ==
  /\ user \in BOOLEAN /\ main \in {"create1", "create2", "exited", "failed"}
  /\ thr \in [Threads -> {"unborn", "getenv", "show", "once", "init", "lock", "alloc", "copy",
                          "unlock", "print", "exit", "ended"}]
  /\ once \in Threads \cup {"never", "done"} /\ lock \in Threads \cup {"raw", "free"}
  /\ envbuf \in {"zeros", "value"}
  /\ buf \in [Threads -> {"none", "garbage", "value", "freed"}]
  /\ got \in [Threads -> {"none", "buffer", "NULL", "ENOENT"}]

\* thrsafe.c, lines 57-71, and thrspec.c, lines 13-27: thread_init() is run once and
\* has ended before anybody uses what it makes; the mutex excludes.
InitBeforeUse ==
  /\ \A t \in Threads : /\ thr[t] \in {"lock", "alloc", "copy", "unlock"} => once = "done"
                        /\ thr[t] \in {"alloc", "copy", "unlock"} => lock = t
  /\ \A t, u \in Threads : thr[t] = "init" /\ thr[u] = "init" => t = u

\* Both threads print the value if there is one, from a buffer that nobody has freed,
\* and NULL otherwise; only thrsafe.c prints bytes it never wrote (lines 95-96,
\* where the returned error is not looked at).
PrintsValue ==
  \A t \in Threads :
    /\ shown[t] \subseteq {"value", "NULL"} \cup (IF user \/ Specific THEN {} ELSE {"garbage"})
    /\ user /\ ~Specific => shown[t] \subseteq {"value"}
    /\ thr[t] = "ended" => buf[t] \notin {"value", "garbage"} \/ ~Specific

Ends == <>(main = "failed" \/ \A t \in Threads : thr[t] = "ended")
==============================================================================
