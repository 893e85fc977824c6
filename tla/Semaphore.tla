------------------------------ MODULE Semaphore ------------------------------
(***************************************************************************)
(* 15-ipc/9-semaph/semaph.c: parent and child take turns with a System V   *)
(* semaphore.  The semaphore belongs to a key, not to a run of the         *)
(* program: a second run resets and removes the one of the first, and a    *)
(* process that dies gives back what SEM_UNDO remembers.                   *)
(***************************************************************************)
EXTENDS Integers, FiniteSets

CONSTANT Launches \* runs of the program

VARIABLES pc,    \* what each process does next
          id,    \* the semaphore id each run got from semget()
          sem,   \* id of the semaphore under the key, or 0
          val,   \* its value
          undo,  \* the SEM_UNDO adjustment of each process
          made,  \* semaphores created so far
          reset  \* semaphores set or removed while another run was using them

vars == <<pc, id, sem, val, undo, made, reset>>

Procs     == Launches \X {"parent", "child"}
Ended     == {"done", "failed", "killed"}
Parent(l) == <<l, "parent">>
Child(l)  == <<l, "child">>

Init ==
  /\ pc = [p \in Procs |-> IF p[2] = "parent" THEN "semget" ELSE "unborn"]
  /\ id = [l \in Launches |-> 0]
  /\ sem = 0 /\ val = 0 /\ made = 0
  /\ undo = [p \in Procs |-> 0]
  /\ reset = {}

Go(p, from, to) == pc[p] = from /\ pc' = [pc EXCEPT ![p] = to]

\* Processes between their two semop() calls on semaphore s.
Inside(s) == {p \in Procs : pc[p] = "inside" /\ id[p[1]] = s}

\* Processes of other runs than l that still need the semaphore s.
OtherUsers(s, l) ==
  {p \in Procs : p[1] # l /\ pc[p] \in {"fork", "take", "inside"} /\ id[p[1]] = s}

\* A process ends: the kernel applies its adjustment, if the semaphore is
\* still the one it was made for, and stops at 0.
Undo(p) ==
  /\ val' = IF id[p[1]] = sem /\ val + undo[p] >= 0 THEN val + undo[p]
            ELSE IF id[p[1]] = sem THEN 0 ELSE val
  /\ undo' = [undo EXCEPT ![p] = 0]

\* semget(key, 1, IPC_CREAT | 0666)
Semget(l) ==
  /\ Go(Parent(l), "semget", "setval")
  /\ IF sem = 0
     THEN sem' = made + 1 /\ made' = made + 1 /\ val' = 0
     ELSE UNCHANGED <<sem, made, val>>
  /\ id' = [id EXCEPT ![l] = sem']
  /\ UNCHANGED <<undo, reset>>

\* semctl(SETVAL) also clears every adjustment there is.
Setval(l) ==
  /\ IF id[l] = sem
     THEN /\ Go(Parent(l), "setval", "fork")
          /\ val' = 1
          /\ undo' = [p \in Procs |-> IF id[p[1]] = sem THEN 0 ELSE undo[p]]
          /\ reset' = IF Inside(sem) # {} THEN reset \cup {sem} ELSE reset
     ELSE /\ Go(Parent(l), "setval", "failed") /\ UNCHANGED <<val, undo, reset>>
  /\ UNCHANGED <<id, sem, made>>

Fork(l) ==
  /\ pc[Parent(l)] = "fork"
  /\ \/ pc' = [pc EXCEPT ![Parent(l)] = "take", ![Child(l)] = "take"]
     \/ Go(Parent(l), "fork", "failed")
  /\ UNCHANGED <<id, sem, val, undo, made, reset>>

\* Mutant: without SEM_UNDO.
Take_NoUndo(p) ==
  /\ Go(p, "take", "inside") /\ id[p[1]] = sem /\ val > 0
  /\ val' = val - 1
  /\ UNCHANGED <<id, sem, undo, made, reset>>

\* semop(-1) with SEM_UNDO: waits while the value is 0.
Take(p) ==
  /\ Go(p, "take", "inside") /\ id[p[1]] = sem /\ val > 0
  /\ val' = val - 1 /\ undo' = [undo EXCEPT ![p] = @ + 1]
  /\ UNCHANGED <<id, sem, made, reset>>

\* Mutant: the second operation has no SEM_UNDO, and exit() gives back twice.
Give_NoUndo(p) ==
  /\ Go(p, "inside", IF p[2] = "child" THEN "exit" ELSE "waitpid") /\ id[p[1]] = sem
  /\ val' = val + 1
  /\ UNCHANGED <<id, sem, undo, made, reset>>

\* Mutant: sem_op = 2.
Give_Two(p) ==
  /\ Go(p, "inside", IF p[2] = "child" THEN "exit" ELSE "waitpid") /\ id[p[1]] = sem
  /\ val' = val + 2 /\ undo' = [undo EXCEPT ![p] = @ - 2]
  /\ UNCHANGED <<id, sem, made, reset>>

\* semop(+1) with SEM_UNDO.
Give(p) ==
  /\ Go(p, "inside", IF p[2] = "child" THEN "exit" ELSE "waitpid") /\ id[p[1]] = sem
  /\ val' = val + 1 /\ undo' = [undo EXCEPT ![p] = @ - 1]
  /\ UNCHANGED <<id, sem, made, reset>>

\* EIDRM or EINVAL: the semaphore is gone, and so the process exits.
SemopFails(p) ==
  /\ pc[p] \in {"take", "inside"} /\ id[p[1]] # sem
  /\ pc' = [pc EXCEPT ![p] = "failed"]
  /\ Undo(p)
  /\ UNCHANGED <<id, sem, made, reset>>

ChildExit(l) == /\ Go(Child(l), "exit", "done") /\ Undo(Child(l))
                /\ UNCHANGED <<id, sem, made, reset>>

\* Mutant: the parent removes the semaphore without waiting for its child.
Waitpid_Skipped(l) == /\ Go(Parent(l), "waitpid", "remove")
                      /\ UNCHANGED <<id, sem, val, undo, made, reset>>

Waitpid(l) == /\ Go(Parent(l), "waitpid", "remove") /\ pc[Child(l)] \in Ended
              /\ UNCHANGED <<id, sem, val, undo, made, reset>>

\* semctl(IPC_RMID), at once and for everybody.
Remove(l) ==
  /\ pc[Parent(l)] = "remove"
  /\ IF id[l] = sem
     THEN /\ Go(Parent(l), "remove", "done") /\ sem' = 0 /\ val' = 0
          /\ reset' = IF OtherUsers(sem, l) # {} THEN reset \cup {sem} ELSE reset
          /\ undo' = [p \in Procs |-> IF id[p[1]] = sem THEN 0 ELSE undo[p]]
          /\ UNCHANGED <<id, made>>
     ELSE /\ Go(Parent(l), "remove", "failed") /\ Undo(Parent(l))
          /\ UNCHANGED <<id, sem, made, reset>>

Killed(p) == /\ pc[p] \notin Ended \cup {"unborn"}
             /\ pc' = [pc EXCEPT ![p] = "killed"]
             /\ Undo(p)
             /\ UNCHANGED <<id, sem, made, reset>>

Process(p) == Take(p) \/ Give(p) \/ SemopFails(p)
Launch(l)  == Semget(l) \/ Setval(l) \/ Fork(l) \/ ChildExit(l) \/ Waitpid(l) \/ Remove(l)

Next == \/ \E p \in Procs : Process(p) \/ Killed(p)
        \/ \E l \in Launches : Launch(l)

Spec == Init /\ [][Next]_vars

\* Processes are scheduled, and a semop() that can go on again and again does.
FairSpec == /\ Spec
            /\ \A p \in Procs : SF_vars(Process(p))
            /\ \A l \in Launches : WF_vars(Launch(l))

------------------------------------------------------------------------------
(* What must hold *)

TypeOK ==
  /\ pc \in [Procs -> Ended \cup {"unborn", "semget", "setval", "fork", "take", "inside",
                                  "exit", "waitpid", "remove"}]
  /\ \A l \in Launches : pc[Child(l)] \in Ended \cup {"unborn", "take", "inside", "exit"}
  /\ made \in Nat /\ id \in [Launches -> 0..made] /\ sem \in 0..made
  /\ val \in Nat /\ undo \in [Procs -> -1..1] /\ reset \subseteq 1..made

\* One process at a time is between its two operations, as long as no other
\* run of the program sets or removes the semaphore in the middle.
TakeTurns == \A s \in 1..made : s \notin reset => Cardinality(Inside(s)) <= 1

\* No unit is lost or made, whoever died where: the value and the processes
\* inside add up to the one that SETVAL put there.
UnitsConserved ==
  (/\ sem # 0 /\ sem \notin reset
   /\ \E p \in Procs : pc[p] \in {"fork", "take", "inside"} /\ id[p[1]] = sem)
    => val + Cardinality(Inside(sem)) = 1

\* semop() fails only for a run whose semaphore another run has removed.
FailsOnlyIfRemoved ==
  \A p \in Procs : pc[p] \in {"take", "inside"} /\ pc'[p] = "failed" => id[p[1]] \in reset

\* Nobody waits for ever: a run, once started, ends, even when its processes
\* or those of the other run are killed.
Terminates == \A p \in Procs : pc[p] \in {"fork", "take"} ~> pc[p] \in Ended
==============================================================================
