------------------------------ MODULE AlarmWait ------------------------------
(***************************************************************************)
(* Alarms that interrupt: as an upper limit of a read() in                 *)
(* 10-alrmread/alarmread.c and 14-sigaction/sigaction.c, one after the     *)
(* other before a pause() in 7-alarm/alarm.c, and in the middle of         *)
(* getpwnam() in 3-reentrant/reentrant.c.                                  *)
(***************************************************************************)
EXTENDS Signals

VARIABLES prog,    \* the program that runs, always the same
          pc,      \* what main() does next
          timer,   \* "off" or "on"
          caught,  \* signals that have a handler
          woken,   \* the call that waits has had a handler called
          handled, \* handlers that have run
          early,   \* one of them after the last alarm() and before the wait
          left,    \* the second alarm() found the first one running
          input,   \* what can be read: "none", "some", or "full" for BUFSIZ bytes
          n,       \* what read() or pause() returned: "-1", or as input
          holder,  \* who has the lock in getpwnam(): "none", "main", "handler"
          result,  \* whose entry is in its static buffer
          late,    \* a handler has run since main() got its result
          wrong    \* main() has found a name that is not the one it asked for

------------------------------------------------------------------------------
(***************************************************************************)
(* alarm.c, alarmread.c, sigaction.c                                       *)
(***************************************************************************)

mainVars == <<pc, timer, caught, woken, handled, early, left, input, n>>
vars     == <<sigVars, mainVars>>

Init ==
  /\ prog \in {"alarm", "alarmread", "sigaction"}
  /\ SigInit
  /\ pc = "signal" /\ timer = "off" /\ caught = {} /\ woken = FALSE
  /\ handled = 0 /\ early = FALSE /\ left = FALSE /\ input = "none" /\ n = "none"

Ended == {"done", "failed", "killed"}
MainStep(from, to) == InMain /\ pc = from /\ pc' = to

\* A call does not return before a signal that is there has been taken.
NothingToTake == ~Deliverable("SIGALRM")

\* Mutants: every call is restarted, or none.
Restarts_Always == TRUE
Restarts_Never  == FALSE

\* signal() asks for calls to be restarted; Signal() of sigaction.c does not, for
\* SIGALRM.  pause() is never restarted.
Restarts == prog = "alarmread"

Signal ==
  /\ MainStep("signal", "alarm") /\ caught' = {"SIGALRM"}
  /\ UNCHANGED <<sigVars, timer, woken, handled, early, left, input, n>>

Alarm ==
  /\ MainStep("alarm", IF prog = "alarm" THEN "again" ELSE "wait")
  /\ timer' = "on"
  /\ UNCHANGED <<sigVars, caught, woken, handled, early, left, input, n>>

\* Mutant: the second alarm() leaves the first one running.
Again_Kept ==
  /\ MainStep("again", "wait") /\ NothingToTake
  /\ left' = (timer = "on") /\ early' = FALSE
  /\ UNCHANGED <<sigVars, timer, caught, woken, handled, input, n>>

\* alarm.c, line 90: alarm(7) takes the place of alarm(5).
Again ==
  /\ MainStep("again", "wait") /\ NothingToTake
  /\ left' = (timer = "on") /\ timer' = "on" /\ early' = FALSE
  /\ UNCHANGED <<sigVars, caught, woken, handled, input, n>>

\* read() or pause() begins to wait.
Wait ==
  /\ MainStep("wait", "waiting") /\ woken' = FALSE
  /\ UNCHANGED <<sigVars, timer, caught, handled, early, left, input, n>>

Interrupted ==
  /\ MainStep("waiting", "after") /\ woken /\ ~Restarts
  /\ n' = "-1"
  /\ UNCHANGED <<sigVars, timer, caught, woken, handled, early, left, input>>

Read ==
  /\ MainStep("waiting", "after") /\ prog # "alarm" /\ input # "none"
  /\ n' = input
  /\ UNCHANGED <<sigVars, timer, caught, woken, handled, early, left, input>>

\* Mutant: the alarm is not cancelled.
After_NoCancel ==
  /\ InMain /\ pc = "after" /\ NothingToTake
  /\ pc' = IF prog # "alarmread" THEN "done" ELSE IF n = "-1" THEN "failed" ELSE "write"
  /\ UNCHANGED <<sigVars, timer, caught, woken, handled, early, left, input, n>>

\* alarmread.c, lines 38-40: alarm(0).  The others go on to their end, and
\* sigaction.c writes buf[n] on its way.
After ==
  /\ InMain /\ pc = "after" /\ NothingToTake
  /\ pc' = IF prog # "alarmread" THEN "done" ELSE IF n = "-1" THEN "failed" ELSE "write"
  /\ timer' = IF pc' = "write" THEN "off" ELSE timer
  /\ UNCHANGED <<sigVars, caught, woken, handled, early, left, input, n>>

Write ==
  /\ MainStep("write", "done")
  /\ UNCHANGED <<sigVars, timer, caught, woken, handled, early, left, input, n>>

Main == Signal \/ Alarm \/ Again \/ Wait \/ Interrupted \/ Read \/ After \/ Write

(* Alarms, signals, and input *)

Ring ==
  /\ timer = "on" /\ pc \notin Ended /\ Raise("SIGALRM") /\ timer' = "off"
  /\ UNCHANGED <<pc, caught, woken, handled, early, left, input, n>>

Arrive == pc \notin Ended /\ Send("SIGALRM") /\ UNCHANGED mainVars

Type ==
  /\ input = "none" /\ prog # "alarm" /\ pc \notin Ended /\ input' \in {"some", "full"}
  /\ UNCHANGED <<sigVars, pc, timer, caught, woken, handled, early, left, n>>

Deliver ==
  /\ pc \notin Ended /\ Enter("SIGALRM")
  /\ IF caught = {} THEN pc' = "killed" /\ UNCHANGED <<woken, handled, early>>
     ELSE /\ woken' = (woken \/ pc = "waiting") /\ handled' = handled + 1
          /\ early' = (early \/ pc = "wait")
          /\ UNCHANGED pc
  /\ UNCHANGED <<timer, caught, left, input, n>>

Return == pc \notin Ended /\ In("SIGALRM") /\ Leave /\ UNCHANGED mainVars

Next == Main \/ Ring \/ Arrive \/ Type \/ Deliver \/ Return

Spec == Init /\ [][Next /\ UNCHANGED prog]_<<prog, vars>>

\* The process is scheduled and its alarm rings; nobody has to type anything.
FairSpec == Spec /\ WF_vars(Main) /\ WF_vars(Ring) /\ WF_vars(Deliver) /\ WF_vars(Return)

(* What must hold *)

TypeOK ==
  /\ SigTypeOK /\ Len(frames) <= 1
  /\ pc \in Ended \cup {"signal", "alarm", "again", "wait", "waiting", "after", "write"}
  /\ timer \in {"off", "on"} /\ caught \subseteq Sigs /\ handled \in 0..MaxSent + 2
  /\ woken \in BOOLEAN /\ early \in BOOLEAN /\ left \in BOOLEAN
  /\ input \in {"none", "some", "full"} /\ n \in {"none", "-1", "some", "full"}

\* alarm.c, lines 86-89: the alarm that was replaced does not ring, and the other
\* one does; if the first had rung, both did.
EachAlarmOnce ==
  prog = "alarm" /\ pc = "done" /\ sent = 0 => handled = IF left THEN 1 ELSE 2

\* alarmread.c, line 40: after alarm(0) no alarm of its own is to come.
CancelledInTime ==
  prog = "alarmread" /\ pc \in {"write", "done"} => timer = "off" /\ (sent = 0 => pend = {})

\* sigaction.c, lines 117-121 and 134: the signal is blocked in its own handler.
BlockedInHandler == In("SIGALRM") => "SIGALRM" \in mask

\* alarmread.c, lines 22-25: where calls are restarted, the alarm never ends the
\* read().
OnlyInputEndsRead ==
  prog = "alarmread" /\ pc = "waiting" /\ pc' # "waiting" => input # "none"

\* sigaction.c, lines 58-62, and alarm.c, lines 99-101: the alarm ends the wait,
\* unless it has come before it.
EndedOrEarly    == pc \in Ended \/ early
EndsUnlessEarly == prog # "alarmread" => ((pc = "alarm") ~> EndedOrEarly)

------------------------------------------------------------------------------
(***************************************************************************)
(* reentrant.c: main() and the SIGALRM handler both call getpwnam(), which *)
(* has a lock and one static buffer for its result.                        *)
(***************************************************************************)

pwMainVars == <<pc, timer, holder, result, late, wrong>>
pwVars     == <<sigVars, pwMainVars>>

PwInit == /\ SigInit
          /\ pc = "signal" /\ timer = "off" /\ holder = "none" /\ result = "none"
          /\ late = FALSE /\ wrong = FALSE

PwMainStep(from, to) == InMain /\ pc = from /\ pc' = to
Running == pc # "exit"

\* signal() and alarm(1)
Start == /\ PwMainStep("signal", "lock") /\ timer' = "on"
         /\ UNCHANGED <<sigVars, holder, result, late, wrong>>

Lock == /\ PwMainStep("lock", "search") /\ holder = "none" /\ holder' = "main"
        /\ UNCHANGED <<sigVars, timer, result, late, wrong>>

\* The buffer is filled while the lock is held.
Search == /\ PwMainStep("search", "unlock") /\ result' = "main"
          /\ UNCHANGED <<sigVars, timer, holder, late, wrong>>

Unlock == /\ InMain /\ pc = "unlock" /\ holder' = "none" /\ late' = FALSE
          /\ pc' \in {"compare", "exit"} \* or there is no such user
          /\ UNCHANGED <<sigVars, timer, result, wrong>>

\* strcmp() of what is in the buffer by now
Compare == /\ PwMainStep("compare", "lock") /\ wrong' = (wrong \/ result # "main")
           /\ UNCHANGED <<sigVars, timer, holder, result, late>>

(* my_alarm() *)

\* Mutant: getpwnam() has no lock.
HLock_Open == /\ Running /\ At("SIGALRM", "start") /\ holder' = "handler"
              /\ Moves("search")
              /\ UNCHANGED <<pc, timer, result, late, wrong>>

\* The lock is not recursive.
HLock == /\ Running /\ At("SIGALRM", "start") /\ holder = "none" /\ holder' = "handler"
         /\ Moves("search")
         /\ UNCHANGED <<pc, timer, result, late, wrong>>

HSearch == /\ Running /\ At("SIGALRM", "search") /\ result' = "handler" /\ late' = TRUE
           /\ Moves("unlock")
           /\ UNCHANGED <<pc, timer, holder, wrong>>

HUnlock == /\ Running /\ At("SIGALRM", "unlock") /\ holder' = "none"
           /\ Moves("alarm")
           /\ UNCHANGED <<pc, timer, result, late, wrong>>

\* Mutant: the handler keeps the alarm as it is.
HAlarm_Skipped == /\ Running /\ At("SIGALRM", "alarm")
                  /\ Leave
                  /\ UNCHANGED pwMainVars

\* alarm(1), and the end of the handler
HAlarm == /\ Running /\ At("SIGALRM", "alarm") /\ timer' = "on"
          /\ Leave
          /\ UNCHANGED <<pc, holder, result, late, wrong>>

PwRing == /\ Running /\ timer = "on" /\ Raise("SIGALRM") /\ timer' = "off"
          /\ UNCHANGED <<pc, holder, result, late, wrong>>

PwDeliver == Running /\ Enter("SIGALRM") /\ UNCHANGED pwMainVars

PwMain    == Start \/ Lock \/ Search \/ Unlock \/ Compare
Handler == HLock \/ HSearch \/ HUnlock \/ HAlarm

PwNext == PwMain \/ Handler \/ PwRing \/ PwDeliver

PwSpec == PwInit /\ [][PwNext]_pwVars

PwFairSpec == /\ PwSpec /\ WF_pwVars(PwMain) /\ WF_pwVars(Handler)
              /\ WF_pwVars(PwRing) /\ WF_pwVars(PwDeliver)

(* What must hold *)

PwTypeOK == /\ SigTypeOK /\ Len(frames) <= 1
            /\ pc \in {"signal", "lock", "search", "unlock", "compare", "exit"}
            /\ timer \in {"off", "on"} /\ holder \in {"none", "main", "handler"}
            /\ result \in {"none", "main", "handler"} /\ late \in BOOLEAN /\ wrong \in BOOLEAN

\* reentrant.c, lines 66-72: the handler waits for a lock that main() has.
Stuck == At("SIGALRM", "start") /\ holder = "main"

\* Line 82: the result is overwritten in one place only, after getpwnam() has
\* returned to main() and before main() looks at it.
WrongOnlyIfLate == pc = "compare" /\ result # "main" => late

\* Lines 66-72: a handler that finds the lock taken never goes on, nor does main().
StuckForEver == Stuck => Stuck' /\ pc' = pc

\* Lines 58 and 26: until then, one alarm after the other.
NextAlarm  == timer = "on" \/ pc = "exit" \/ Stuck
AlarmsGoOn == (timer = "off") ~> NextAlarm
==============================================================================
