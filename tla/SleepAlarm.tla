------------------------------ MODULE SleepAlarm ------------------------------
(***************************************************************************)
(* 10-signal/8-sleep1 and 9-sleep2: a sleep made of alarm() and pause().   *)
(* sleep1() loses the alarm that rings before pause(); sleep2() jumps out  *)
(* of the handler instead, and out of any handler it has interrupted.      *)
(***************************************************************************)
EXTENDS Signals, FiniteSets

CONSTANTS Programs, \* "sleep1", "sleep2" or both
          Calls1,   \* how often sleep1() is called
          Calls2    \* how often sleep2() is called

VARIABLES prog,    \* the program that runs, always the same
          pc,      \* what it does next
          timer,   \* "off", or who has set the alarm: "caller" or "sleep"
          handler, \* whose SIGALRM handler is installed
          jmpbuf,  \* "unset", "live" or "stale"
          woken,   \* pause() has had a handler called
          rang,    \* the alarm of this call has rung
          early,   \* its handler was called before pause() slept
          left,    \* the call returned with time left
          calls    \* calls so far

mainVars == <<pc, timer, handler, jmpbuf, woken, rang, early, left, calls>>
vars     == <<sigVars, mainVars>>

Calls == IF prog = "sleep1" THEN Calls1 ELSE Calls2

\* The caller of sleep1(), as usesleep1.c, has set an alarm of its own.
Init ==
  /\ prog \in Programs
  /\ SigInit
  /\ pc = "call" /\ jmpbuf = "unset"
  /\ timer = IF prog = "sleep1" THEN "caller" ELSE "off"
  /\ handler = "caller" /\ woken = FALSE
  /\ rang = FALSE /\ early = FALSE /\ left = FALSE /\ calls = 0

MainStep(from, to) == InMain /\ pc = from /\ pc' = to

\* The call, and signal(SIGALRM, sig_alarm).
Signal ==
  /\ MainStep("call", "setjmp") /\ calls < Calls
  /\ calls' = calls + 1 /\ handler' = "sleep"
  /\ rang' = FALSE /\ early' = FALSE
  /\ UNCHANGED <<sigVars, timer, jmpbuf, woken, left>>

\* Mutant: the alarm is set before setjmp().
Setjmp_Late ==
  /\ MainStep("setjmp", "alarm")
  /\ timer' = "sleep"
  /\ UNCHANGED <<sigVars, handler, jmpbuf, woken, rang, early, left, calls>>

\* setjmp() of sleep2(); sleep1() has none.
Setjmp ==
  /\ MainStep("setjmp", "alarm")
  /\ jmpbuf' = IF prog = "sleep2" THEN "live" ELSE jmpbuf
  /\ UNCHANGED <<sigVars, timer, handler, woken, rang, early, left, calls>>

\* Mutant: no alarm.
Alarm_Skipped ==
  /\ MainStep("alarm", "pause")
  /\ UNCHANGED <<sigVars, timer, handler, jmpbuf, woken, rang, early, left, calls>>

\* alarm(seconds), in the place of whatever alarm there was.
Alarm ==
  /\ MainStep("alarm", "pause")
  /\ timer' = "sleep"
  /\ UNCHANGED <<sigVars, handler, jmpbuf, woken, rang, early, left, calls>>

Pause ==
  /\ MainStep("pause", "paused")
  /\ woken' = FALSE
  /\ UNCHANGED <<sigVars, timer, handler, jmpbuf, rang, early, left, calls>>

\* Mutant: the alarm is cancelled here, and once more below.
Wake_Cancels ==
  /\ MainStep("paused", "cancel") /\ woken
  /\ timer' = "off"
  /\ UNCHANGED <<sigVars, handler, jmpbuf, woken, rang, early, left, calls>>

Wake ==
  /\ MainStep("paused", "cancel") /\ woken
  /\ UNCHANGED <<sigVars, timer, handler, jmpbuf, woken, rang, early, left, calls>>

\* Mutant: the alarm goes on.
Cancel_Skipped ==
  /\ MainStep("cancel", "call") /\ \A s \in Sigs : ~Deliverable(s)
  /\ left' = (timer = "sleep")
  /\ jmpbuf' = IF prog = "sleep2" THEN "stale" ELSE jmpbuf
  /\ UNCHANGED <<sigVars, timer, handler, woken, rang, early, calls>>

\* return alarm(0): a signal that is there when it returns is taken first.
Cancel ==
  /\ MainStep("cancel", "call") /\ \A s \in Sigs : ~Deliverable(s)
  /\ timer' = "off" /\ left' = (timer = "sleep")
  /\ jmpbuf' = IF prog = "sleep2" THEN "stale" ELSE jmpbuf
  /\ UNCHANGED <<sigVars, handler, woken, rang, early, calls>>

------------------------------------------------------------------------------
(* Signals and their handlers *)

\* The alarm is up.
Ring ==
  /\ timer # "off" /\ Raise("SIGALRM")
  /\ rang' = (rang \/ timer = "sleep") /\ timer' = "off"
  /\ UNCHANGED <<pc, handler, jmpbuf, woken, early, left, calls>>

Arrive == Send("SIGINT") /\ UNCHANGED mainVars

Deliver(s) ==
  /\ Enter(s)
  /\ woken' = (woken \/ pc = "paused")
  /\ early' = (early \/ (s = "SIGALRM" /\ rang /\ pc # "paused"))
  /\ UNCHANGED <<pc, timer, handler, jmpbuf, rang, left, calls>>

\* Handlers that return: sig_int(), the caller's, and sig_alarm() of sleep1().
Return(s) ==
  /\ In(s) /\ (s = "SIGINT" \/ handler = "caller" \/ prog = "sleep1")
  /\ Leave
  /\ UNCHANGED mainVars

\* Mutant: siglongjmp() that leaves main where it was.
Jump_Returns ==
  /\ In("SIGALRM") /\ handler = "sleep" /\ prog = "sleep2"
  /\ Leave
  /\ UNCHANGED mainVars

\* longjmp() of sleep2(), to where alarm(0) is called.
Jump ==
  /\ In("SIGALRM") /\ handler = "sleep" /\ prog = "sleep2"
  /\ Longjmp
  /\ pc' = "cancel"
  /\ UNCHANGED <<timer, handler, jmpbuf, woken, rang, early, left, calls>>

------------------------------------------------------------------------------
Main == Signal \/ Setjmp \/ Alarm \/ Pause \/ Wake \/ Cancel

Next == Main \/ Ring \/ Arrive \/ Jump \/ \E s \in Sigs : Deliver(s) \/ Return(s)

Spec == Init /\ [][Next /\ UNCHANGED prog]_<<prog, vars>>

\* The process is scheduled, time goes on; nobody has to send a signal.
FairSpec == /\ Spec
            /\ WF_vars(Main) /\ WF_vars(Ring) /\ WF_vars(Jump)
            /\ \A s \in Sigs : WF_vars(Deliver(s)) /\ WF_vars(Return(s))

------------------------------------------------------------------------------
(* What must hold *)

TypeOK ==
  /\ SigTypeOK /\ Len(frames) <= Cardinality(Sigs)
  /\ pc \in {"call", "setjmp", "alarm", "pause", "paused", "cancel"}
  /\ timer \in {"off", "caller", "sleep"} /\ handler \in {"caller", "sleep"}
  /\ jmpbuf \in {"unset", "live", "stale"}
  /\ woken \in BOOLEAN /\ rang \in BOOLEAN /\ early \in BOOLEAN /\ left \in BOOLEAN
  /\ calls \in 0..Calls

Returned == pc = "call" /\ calls > 0

\* sleep1.c, lines 34-47: the value returned is 0 if and only if the time was
\* up, whatever interrupted the call.
ResultTellsTruth == Returned => (left <=> ~rang)

\* After the call no alarm is running, and none of its signals is to come,
\* unless SIGALRM was left blocked.
NoAlarmLeft ==
  Returned => timer = "off" /\ ("SIGALRM" \in pend => "SIGALRM" \in mask)

\* sleep2.c: the handler never jumps to where no call of sleep2() is active,
\* when the caller has no alarm of its own.
JumpsIntoLive == Jump => jmpbuf = "live"

\* sleep1.c, lines 28-30: a call returns, unless the handler of its alarm ran
\* before pause().
Woken == pc = "cancel" \/ early
ReturnsUnlessEarly == (pc = "pause") ~> Woken

\* sleep2.c, lines 14-15: even if the pause() is never executed, sleep2()
\* returns when the SIGALRM occurs.
ReturnsOnAlarm == (calls > 0 /\ pc = "alarm") ~> (pc = "cancel")
==============================================================================
