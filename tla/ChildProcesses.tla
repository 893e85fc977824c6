--------------------------- MODULE ChildProcesses ----------------------------
(***************************************************************************)
(* Processes that are waited for: 8-process/11-System/System.c and         *)
(* 8-process/6-waitpid/waitpid.c.                                          *)
(***************************************************************************)
EXTENDS Naturals, FiniteSets

CONSTANT MaxInterrupts \* bound on the signals that interrupt waitpid()

VARIABLES pc,      \* of the caller: in main(), or in System()
          calls,   \* commands started
          child,   \* the process of the present command
          other,   \* another child of the caller
          status,  \* what System() has returned
          left,    \* the status the present command ended with
          ignored, \* SIGCHLD is ignored
          interrupts,
          at,      \* of waitpid.c: what each process does next
          parent,  \* parent of each process
          printed, \* lines it has printed
          nocldwait \* SIGCHLD is ignored by the program that started this one

------------------------------------------------------------------------------
(***************************************************************************)
(* System(), as useSystem.c calls it: three commands one after the other.  *)
(* The caller may have another child, handle signals, or run with SIGCHLD  *)
(* ignored by the program that started it.                                 *)
(***************************************************************************)

systemVars == <<pc, calls, child, other, status, left, ignored, interrupts>>

Statuses == {"0", "44", "127", "signal"}

\* useSystem.c: what the shell makes of each command.
Result == <<"0", "127", "44">>
Commands == 1..3

SystemInit == /\ pc = "main" /\ calls = 0 /\ interrupts = 0
              /\ child = "none" /\ status = "0" /\ left = "0"
              /\ other \in {"none", "running"}
              /\ ignored \in BOOLEAN

\* Lines 33-34 and 54: only the parent and its failed fork() return from here.
SystemFork ==
  /\ pc = "main" /\ calls < 3
  /\ calls' = calls + 1
  /\ \/ pc' = "wait" /\ child' = "forked" /\ UNCHANGED status
     \/ pc' = "returned" /\ child' = "none" /\ status' = "-1"
  /\ UNCHANGED <<other, left, ignored, interrupts>>

\* A process ends; nobody has to wait for it while SIGCHLD is ignored.
SystemDead == IF ignored THEN "gone" ELSE "zombie"

\* Mutant: the child of a failed execl() leaves with 1.
ExecFails_One == /\ child = "forked" /\ child' = SystemDead /\ left' = "1"
                 /\ UNCHANGED <<pc, calls, other, status, ignored, interrupts>>

Exec == /\ child = "forked" /\ child' = "running"
        /\ UNCHANGED <<pc, calls, other, status, left, ignored, interrupts>>

\* execl() returns, and the child leaves with _exit(127).
ExecFails == /\ child = "forked" /\ child' = SystemDead /\ left' = "127"
             /\ UNCHANGED <<pc, calls, other, status, ignored, interrupts>>

\* The shell ends with the status of its command, or a signal kills it.
CommandEnds == /\ child = "running" /\ child' = SystemDead
               /\ left' \in {Result[calls], "signal"}
               /\ UNCHANGED <<pc, calls, other, status, ignored, interrupts>>

OtherEnds == /\ other = "running" /\ other' = SystemDead
             /\ UNCHANGED <<pc, calls, child, status, left, ignored, interrupts>>

\* Mutant: wait() for any child.
Waited_Any ==
  \/ child = "zombie" /\ child' = "gone" /\ status' = left /\ UNCHANGED other
  \/ other = "zombie" /\ other' = "gone" /\ status' = "0" /\ UNCHANGED child

\* waitpid(pid): the status of this child and no other.
Waited == child = "zombie" /\ child' = "gone" /\ status' = left /\ UNCHANGED other

Reap == /\ pc = "wait" /\ Waited /\ pc' = "returned"
        /\ UNCHANGED <<calls, left, ignored, interrupts>>

\* Mutant: any error of waitpid() ends the loop.
Interrupted_Returns ==
  /\ pc = "wait" /\ interrupts < MaxInterrupts
  /\ interrupts' = interrupts + 1 /\ pc' = "returned" /\ status' = "-1"
  /\ UNCHANGED <<calls, child, other, left, ignored>>

\* EINTR: line 55 again.
Interrupted == /\ pc = "wait" /\ interrupts < MaxInterrupts
               /\ interrupts' = interrupts + 1
               /\ UNCHANGED <<pc, calls, child, other, status, left, ignored>>

\* With SIGCHLD ignored waitpid() fails with ECHILD once the child it waits for
\* is gone (lines 56-59).
NoChild == /\ pc = "wait" /\ child = "gone"
           /\ pc' = "returned" /\ status' = "-1"
           /\ UNCHANGED <<calls, child, other, left, ignored, interrupts>>

\* Mutant: main() tests for status != 0.
Return_Strict == /\ pc = "returned"
                 /\ pc' = IF status # "0" THEN "failed" ELSE IF calls = 3 THEN "done" ELSE "main"
                 /\ UNCHANGED <<calls, child, other, status, left, ignored, interrupts>>

\* useSystem.c, lines 26-38: only a negative status stops the program.
SystemReturn == /\ pc = "returned"
                /\ pc' = IF status = "-1" THEN "failed" ELSE IF calls = 3 THEN "done" ELSE "main"
                /\ UNCHANGED <<calls, child, other, status, left, ignored, interrupts>>

Caller  == SystemFork \/ Reap \/ Interrupted \/ NoChild \/ SystemReturn
Command == Exec \/ ExecFails \/ CommandEnds

SystemNext == Caller \/ Command \/ OtherEnds

SystemSpec == SystemInit /\ [][SystemNext]_systemVars

\* The three commands end; the other child need not.
SystemFairSpec == SystemSpec /\ WF_systemVars(Caller) /\ WF_systemVars(Command)

(* What must hold *)

SystemTypeOK == /\ pc \in {"main", "wait", "returned", "failed", "done"}
                /\ calls \in 0..3 /\ interrupts \in 0..MaxInterrupts
                /\ child \in {"none", "forked", "running", "zombie", "gone"}
                /\ other \in {"none", "running", "zombie", "gone"}
                /\ status \in Statuses \cup {"-1"} /\ left \in Statuses
                /\ ignored \in BOOLEAN

\* Lines 15-23: System() returns the status of the command it was given, not
\* of an earlier one or of another child; -1 only if there is none to return.
StatusOfOwnChild ==
  pc = "wait" /\ pc' = "returned" =>
    \/ status' = left /\ left \in {Result[calls], "127", "signal"}
    \/ status' = "-1" /\ ignored

\* When System() is back its command has ended and is not a zombie, however
\* often waitpid() was interrupted.
NoChildLeft == pc \in {"returned", "main", "failed", "done"} => child \in {"none", "gone"}

\* All three commands are tried unless one of the calls has failed for good;
\* a command that exits with 127 or 44 is not such a failure.
AllTried == \/ pc = "done" /\ calls = 3
            \/ pc = "failed" /\ status = "-1"
Ends == <>AllTried

------------------------------------------------------------------------------
(***************************************************************************)
(* waitpid.c forks a child that forks another one and exits at once, so    *)
(* that the program need not wait for the second child and yet has no      *)
(* zombie.                                                                 *)
(***************************************************************************)

doubleVars == <<at, parent, printed, nocldwait>>

Procs == {"original", "first", "second"}
DoubleDead  == {"zombie", "gone"}

DoubleInit == /\ at = [p \in Procs |-> IF p = "original" THEN "fork" ELSE "unborn"]
              /\ parent = [p \in Procs |-> "shell"]
              /\ printed = [p \in Procs |-> {}]
              /\ nocldwait \in BOOLEAN

Go(p, from, to) == at[p] = from /\ at' = [at EXCEPT ![p] = to]

\* A process that ends hands its children to init, and stays a zombie until
\* its own parent has waited for it.
Exit(p) ==
  /\ at' = [at EXCEPT ![p] = IF nocldwait THEN "gone" ELSE "zombie"]
  /\ parent' = [q \in Procs |-> IF parent[q] = p THEN "init" ELSE parent[q]]

\* fork(), line 14.
DoubleFork == /\ at["original"] = "fork"
              /\ at' = [at EXCEPT !["original"] = "waitpid", !["first"] = "fork"]
              /\ parent' = [parent EXCEPT !["first"] = "original"]
              /\ UNCHANGED <<printed, nocldwait>>

ForkFails(p) == /\ p \in {"original", "first"} /\ at[p] = "fork"
                /\ printed' = [printed EXCEPT ![p] = @ \cup {"fork_error"}]
                /\ Exit(p)
                /\ UNCHANGED nocldwait

\* fork(), line 19, in the first child.
ForkAgain == /\ at["first"] = "fork"
             /\ at' = [at EXCEPT !["first"] = "exit", !["second"] = "print"]
             /\ parent' = [parent EXCEPT !["second"] = "first"]
             /\ UNCHANGED <<printed, nocldwait>>

\* Line 24.
FirstExits == /\ at["first"] = "exit" /\ Exit("first")
              /\ UNCHANGED <<printed, nocldwait>>

\* Lines 39-41; sleep(2) does not promise that the first child has gone.
PrintParent(p) == /\ Go(p, "print", "exit2")
            /\ printed' = [printed EXCEPT ![p] = @ \cup {parent[p]}]
            /\ UNCHANGED <<parent, nocldwait>>

\* Mutant: without the exit(0) of line 55 (comment, lines 43-54).
SecondExits_Missing(p) == /\ Go(p, "exit2", "waitpid")
                          /\ UNCHANGED <<parent, printed, nocldwait>>

\* Line 55.
SecondExits(p) == /\ at[p] = "exit2" /\ Exit(p)
                  /\ UNCHANGED <<printed, nocldwait>>

\* Mutant: WNOHANG.
Waitable_Now == TRUE

\* Line 58 sleeps until the first child has ended.
Waitable == at["first"] \in DoubleDead

\* waitpid() reaps the first child, or fails: of a process that is not its
\* parent, or if the child is gone without a trace.
Waitpid(p) ==
  /\ at[p] = "waitpid"
  /\ IF p = "original" THEN Waitable ELSE TRUE
  /\ IF p = "original" /\ at["first"] = "zombie"
     THEN /\ at' = [at EXCEPT ![p] = "return", !["first"] = "gone"]
          /\ printed' = [printed EXCEPT ![p] = @ \cup {"wait_success"}]
     ELSE /\ at' = [at EXCEPT ![p] = "return"]
          /\ printed' = [printed EXCEPT ![p] = @ \cup {"wait_error"}]
  /\ UNCHANGED <<parent, nocldwait>>

DoubleReturn(p) == /\ at[p] = "return" /\ Exit(p) /\ UNCHANGED <<printed, nocldwait>>

\* init and the shell wait for their children.
Reaped(p) == /\ parent[p] \in {"init", "shell"} /\ Go(p, "zombie", "gone")
             /\ UNCHANGED <<parent, printed, nocldwait>>

Killed(p) == /\ at[p] \notin DoubleDead \cup {"unborn"} /\ Exit(p)
             /\ UNCHANGED <<printed, nocldwait>>

Process(p) == \/ p = "original" /\ DoubleFork
              \/ p = "first" /\ (ForkAgain \/ FirstExits)
              \/ ForkFails(p) \/ PrintParent(p) \/ SecondExits(p) \/ Waitpid(p) \/ DoubleReturn(p)

DoubleNext == \E p \in Procs : Process(p) \/ Reaped(p) \/ Killed(p)

DoubleSpec == DoubleInit /\ [][DoubleNext]_doubleVars

DoubleFairSpec ==
  DoubleSpec /\ \A p \in Procs : WF_doubleVars(Process(p)) /\ WF_doubleVars(Reaped(p))

(* What must hold *)

DoubleTypeOK == /\ at \in [Procs -> {"unborn", "fork", "waitpid", "exit", "print", "exit2",
                                    "return"} \cup DoubleDead]
                /\ parent \in [Procs -> {"shell", "init", "original", "first"}]
                /\ printed \in [Procs -> SUBSET {"fork_error", "wait_success", "wait_error",
                                                 "shell", "init", "first"}]
                /\ nocldwait \in BOOLEAN

\* Lines 6-9 and 63-65: once waitpid() is back the program has no child, and
\* so no zombie, although the second child may still run; that one has been
\* handed to init.
NoZombieOfOurs ==
  at["original"] = "return" =>
    /\ {p \in Procs : at[p] # "gone" /\ parent[p] = "original"} = {}
    /\ at["second"] \notin DoubleDead \cup {"unborn"} => parent["second"] = "init"

\* Lines 58-61: the wait is for the first child, it succeeds unless somebody
\* else has arranged that there are no statuses, and nobody else does it.
WaitTellsTruth ==
  /\ "wait_error" \in printed["original"] => nocldwait
  /\ \A p \in Procs \ {"original"} : printed[p] \cap {"wait_success", "wait_error"} = {}

\* Every process ends and is waited for by somebody.
NobodyLeft == \A p \in Procs : at[p] \in {"gone", "unborn"}
AllReaped  == <>NobodyLeft
==============================================================================
