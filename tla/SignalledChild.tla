--------------------------- MODULE SignalledChild ----------------------------
(***************************************************************************)
(* A parent and a child that are ordered by nothing but sleep(), and the   *)
(* signals that reach the child: usekill.c and orphan.c.                   *)
(***************************************************************************)
EXTENDS Naturals

VARIABLES main,     \* what the parent of usekill.c does next
          kid,      \* what the child does next; in usekill.c "zombie", then "gone"
          usr1,     \* SIGUSR1 is pending for the child
          how,      \* how the child ended: "none", "exited", "killed"
          missed,   \* its handler has run before pause()
          answers,  \* what each kill() has returned: "none", "ok", "esrch"
          recycled, \* another process has the pid of the child
          stranger, \* that one was sent a SIGUSR1
          ignored,  \* the program was started with SIGCHLD ignored
          parent,   \* the parent of orphan.c: "fork", "sleep", "exited"
          stopped,  \* its child is stopped
          catches,  \* the child has its handler for SIGHUP
          hup,      \* a SIGHUP is pending for it
          fg,       \* foreground group of the terminal: "job" or "shell"
          input,    \* "none", or "any" when a line has been typed
          result    \* of read(): "none", "char", "EIO"

------------------------------------------------------------------------------
(***************************************************************************)
(* 10-signal/5-usekill/usekill.c: the parent sends SIGUSR1 to its child    *)
(* twice and asks with signal 0 whether it is there; the child pauses      *)
(* until its handler has run.                                              *)
(***************************************************************************)

killVars == <<main, kid, usr1, how, missed, answers, recycled, stranger, ignored>>

KillEnded == {"done", "failed"}
Alive == kid \in {"signal", "pause", "paused", "exit"}
Kills == {"usr1", "null", "again", "after"}

KillInit == /\ main = "fork" /\ kid = "none" /\ usr1 = FALSE /\ how = "none" /\ missed = FALSE
            /\ answers = [k \in Kills |-> "none"]
            /\ recycled = FALSE /\ stranger = FALSE /\ ignored \in BOOLEAN

KillFork == /\ main = "fork"
            /\ \/ main' = "sleep" /\ kid' = "signal"
               \/ main' = "failed" /\ UNCHANGED kid
            /\ UNCHANGED <<usr1, how, missed, answers, recycled, stranger, ignored>>

\* sleep(5) says nothing about the child, and system() nothing either.
Sleep == /\ main = "sleep" /\ main' = "usr1"
         /\ UNCHANGED <<kid, usr1, how, missed, answers, recycled, stranger, ignored>>

System == /\ main = "system" /\ main' = "null"
          /\ UNCHANGED <<kid, usr1, how, missed, answers, recycled, stranger, ignored>>

\* kill() reaches whoever has the pid, a zombie too.
Found == kid # "gone" \/ recycled

Answered(k) == answers' = [answers EXCEPT ![k] = IF Found THEN "ok" ELSE "esrch"]

\* Mutant: kill(pid, 0) everywhere.
SendUsr1_Null == UNCHANGED <<usr1, stranger>>

SendUsr1 == /\ usr1' = (usr1 \/ Alive)
            /\ stranger' = (stranger \/ recycled)

Usr1 == /\ main = "usr1" /\ main' = IF Found THEN "system" ELSE "failed"
        /\ Answered("usr1") /\ SendUsr1
        /\ UNCHANGED <<kid, how, missed, recycled, ignored>>

Null == /\ main = "null" /\ main' = "again" /\ Answered("null")
        /\ UNCHANGED <<kid, usr1, how, missed, recycled, stranger, ignored>>

Again == /\ main = "again" /\ main' = "waitpid"
         /\ Answered("again") /\ SendUsr1
         /\ UNCHANGED <<kid, how, missed, recycled, ignored>>

\* waitpid() fails when there is nobody left to wait for.
Waitpid == /\ main = "waitpid" /\ ~Alive
           /\ IF kid = "zombie" THEN main' = "after" /\ kid' = "gone"
              ELSE main' = "failed" /\ UNCHANGED kid
           /\ UNCHANGED <<usr1, how, missed, answers, recycled, stranger, ignored>>

\* Lines 147-167: kill(pid, 0) once more, and a SIGINT to itself.
After == /\ main = "after" /\ main' = "done" /\ Answered("after")
         /\ UNCHANGED <<kid, usr1, how, missed, recycled, stranger, ignored>>

Parent == KillFork \/ Sleep \/ System \/ Usr1 \/ Null \/ Again \/ Waitpid \/ After

(* The child *)

KillSignal == /\ kid = "signal" /\ kid' = "pause"
              /\ UNCHANGED <<main, usr1, how, missed, answers, recycled, stranger, ignored>>

Pause == /\ kid = "pause" /\ kid' = "paused"
         /\ UNCHANGED <<main, usr1, how, missed, answers, recycled, stranger, ignored>>

\* Mutant: nobody stays as a zombie.
Dead_Gone == "gone"

\* Where a child goes when it ends.
Dead == IF ignored THEN "gone" ELSE "zombie"

Exit == /\ kid = "exit" /\ kid' = Dead /\ how' = "exited" /\ usr1' = FALSE
        /\ UNCHANGED <<main, missed, answers, recycled, stranger, ignored>>

\* SIGUSR1: the default action before signal(), the handler after it.
Deliver ==
  /\ usr1 /\ Alive
  /\ CASE kid = "signal" -> kid' = Dead /\ how' = "killed" /\ UNCHANGED missed
       [] kid = "pause"  -> missed' = TRUE /\ UNCHANGED <<kid, how>>
       [] kid = "paused" -> kid' = "exit" /\ UNCHANGED <<how, missed>>
       [] kid = "exit"   -> UNCHANGED <<kid, how, missed>>
  /\ usr1' = FALSE
  /\ UNCHANGED <<main, answers, recycled, stranger, ignored>>

Recycle == /\ kid = "gone" /\ ~recycled /\ recycled' = TRUE
           /\ UNCHANGED <<main, kid, usr1, how, missed, answers, stranger, ignored>>

KillChild == KillSignal \/ Pause \/ Exit

KillNext == Parent \/ KillChild \/ Deliver \/ Recycle

KillSpec == KillInit /\ [][KillNext]_killVars

\* Both processes are scheduled and signals are delivered.
KillFairSpec == KillSpec /\ WF_killVars(Parent) /\ WF_killVars(KillChild) /\ WF_killVars(Deliver)

(* What must hold *)

KillTypeOK == /\ main \in KillEnded \cup {"fork", "sleep", "usr1", "system", "null", "again",
                                          "waitpid", "after"}
              /\ kid \in {"none", "signal", "pause", "paused", "exit", "zombie", "gone"}
              /\ usr1 \in BOOLEAN /\ missed \in BOOLEAN /\ how \in {"none", "exited", "killed"}
              /\ answers \in [Kills -> {"none", "ok", "esrch"}]
              /\ recycled \in BOOLEAN /\ stranger \in BOOLEAN /\ ignored \in BOOLEAN

\* usekill.c, lines 113-128 and 144-150: until waitpid() the child is found, dead
\* or alive, and no signal goes to a process that has its pid by then; after it
\* only such a process is found.
FoundUntilReaped ==
  ~ignored => /\ \A k \in {"usr1", "null", "again"} : answers[k] # "esrch"
              /\ ~stranger
              /\ (answers["after"] = "ok" => recycled)

\* Line 139: waitpid() returns, unless a SIGUSR1 came between signal() and
\* pause() of the child.
ReapedOrMissed    == main \in KillEnded \/ missed
ReapsUnlessMissed == (main = "sleep") ~> ReapedOrMissed

------------------------------------------------------------------------------
(***************************************************************************)
(* 9-procship/5-orphan/orphan.c, started as a foreground job: the child    *)
(* stops itself, and the end of its parent makes its process group an      *)
(* orphaned one.  Somebody else may send it SIGCONT.                       *)
(***************************************************************************)

orphanVars == <<parent, kid, stopped, catches, hup, fg, input, result>>

OrphanInit == /\ parent = "fork" /\ kid = "none" /\ stopped = FALSE /\ catches = FALSE
              /\ hup = FALSE /\ fg = "job" /\ input = "none" /\ result = "none"

OrphanEnded == {"none", "done", "killed"}

\* Its parent was the one that another group of the session had.
Orphaned == parent = "exited"

OrphanFork == /\ parent = "fork"
              /\ \/ parent' = "sleep" /\ kid' = "ids"
                 \/ parent' = "exited" /\ UNCHANGED kid
              /\ UNCHANGED <<stopped, catches, hup, fg, input, result>>

\* Mutant: the kernel leaves a stopped process as it is.
ParentExit_Silent ==
  /\ parent = "sleep" /\ parent' = "exited"
  /\ UNCHANGED <<kid, stopped, catches, hup, fg, input, result>>

\* sleep(5) and exit(): whoever is stopped in the group that is an orphan now is
\* sent SIGHUP, then SIGCONT.
ParentExit ==
  /\ parent = "sleep" /\ parent' = "exited"
  /\ hup' = stopped /\ stopped' = FALSE
  /\ UNCHANGED <<kid, catches, fg, input, result>>

\* The shell has waited for its job and takes the terminal back.
ShellTakes == /\ parent = "exited" /\ fg = "job" /\ fg' = "shell"
              /\ UNCHANGED <<parent, kid, stopped, catches, hup, input, result>>

KidStep(from, to) == ~stopped /\ ~hup /\ kid = from /\ kid' = to

Ids == /\ KidStep("ids", "signal")
       /\ UNCHANGED <<parent, stopped, catches, hup, fg, input, result>>

OrphanSignal == /\ KidStep("signal", "stop") /\ catches' = TRUE
                /\ UNCHANGED <<parent, stopped, hup, fg, input, result>>

\* Mutant: the group being orphaned makes no difference.
Stop_Always ==
  /\ KidStep("stop", "read") /\ stopped' = TRUE
  /\ UNCHANGED <<parent, catches, hup, fg, input, result>>

\* kill(getpid(), SIGTSTP): in an orphaned group it does not stop.
Stop ==
  /\ KidStep("stop", "read") /\ stopped' = ~Orphaned
  /\ UNCHANGED <<parent, catches, hup, fg, input, result>>

\* read() from the terminal: EIO in the background, where SIGTTIN cannot stop
\* an orphan; until the shell has the terminal, it waits for a line.
Read ==
  /\ KidStep("read", IF fg = "shell" THEN "done" ELSE "reading")
  /\ result' = IF fg = "shell" THEN "EIO" ELSE result
  /\ UNCHANGED <<parent, stopped, catches, hup, fg, input>>

Got == /\ KidStep("reading", "done") /\ input = "any" /\ input' = "none" /\ result' = "char"
       /\ UNCHANGED <<parent, stopped, catches, hup, fg>>

Hup == /\ hup /\ ~stopped /\ hup' = FALSE
       /\ IF catches THEN UNCHANGED kid ELSE kid' = "killed"
       /\ UNCHANGED <<parent, stopped, catches, fg, input, result>>

\* A SIGCONT, by a user
Cont == /\ stopped /\ stopped' = FALSE
        /\ UNCHANGED <<parent, kid, catches, hup, fg, input, result>>

\* A line is typed, or the shell reads it.
Type == /\ kid \notin OrphanEnded
        /\ \/ input = "none" /\ input' = "any"
           \/ input = "any" /\ fg = "shell" /\ input' = "none"
        /\ UNCHANGED <<parent, kid, stopped, catches, hup, fg, result>>

OrphanChild == Ids \/ OrphanSignal \/ Stop \/ Read \/ Got \/ Hup

OrphanNext == OrphanFork \/ ParentExit \/ ShellTakes \/ OrphanChild \/ Cont \/ Type

OrphanSpec == OrphanInit /\ [][OrphanNext]_orphanVars

\* Processes that are not stopped are scheduled.  Nobody has to type.
OrphanFairSpec == /\ OrphanSpec /\ WF_orphanVars(OrphanFork \/ ParentExit)
                  /\ WF_orphanVars(ShellTakes) /\ WF_orphanVars(OrphanChild)

(* What must hold *)

OrphanTypeOK == /\ parent \in {"fork", "sleep", "exited"} /\ fg \in {"job", "shell"}
                /\ kid \in OrphanEnded \cup {"ids", "signal", "stop", "read", "reading"}
                /\ stopped \in BOOLEAN /\ catches \in BOOLEAN /\ hup \in BOOLEAN
                /\ input \in {"none", "any"} /\ result \in {"none", "char", "EIO"}

\* orphan.c, lines 29-33 and 54-57: the SIGHUP of an orphaned group finds the
\* handler, whenever the parent ends, and no member stays stopped.
OrphanSurvives == kid # "killed" /\ (Orphaned => ~stopped)

\* Lines 59-71: the child is not stopped for ever, and it comes to its read().
KidReads == (kid = "stop") ~> (kid \in {"reading", "done"})
==============================================================================
