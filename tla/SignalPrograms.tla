---------------------------- MODULE SignalPrograms ----------------------------
(***************************************************************************)
(* The programs of 10-signal, with orphan.c and those of 18-termios, one   *)
(* at a time: a process that has just been started runs one of them on the *)
(* signals of module Signals.  sleep1() is called by usesleep1.c, with an  *)
(* alarm of the caller before it; sleep2() once, as in usesleep2.c.        *)
(***************************************************************************)
EXTENDS Naturals, Sequences

CONSTANTS MaxSent,          \* bound on the signals that are sent
          Sleeps,           \* how often sleep1() is called
          MaxPass, MaxTyped, MaxKeys, MaxRuns \* of Terminals

ASSUME SignalAssumption == /\ MaxSent \in Nat /\ Sleeps \in Nat /\ MaxPass \in Nat
                           /\ MaxTyped \in Nat /\ MaxKeys \in Nat /\ MaxRuns \in Nat \ {0}

VARIABLES prog,                                   \* the program that runs
          pend, mask, frames, sent,               \* of Signals
          pc, caught, woken, timer,               \* of several programs
          quitflag, quits, tested,                \* of waitsig.c
          handled,                                \* of critical.c
          handler, jmpbuf, rang, early, left, calls, \* of sleep1.c and sleep2.c
          sigenv, env, canjump, canjump2, jumps,  \* of sigsetjmp.c
          input, n,                               \* of the programs of AlarmWait
          holder, result, late, wrong,            \* of reentrant.c
          oldmask, raised, seen,                  \* of sigpend.c
          main, kid, usr1, how, missed, answers, recycled, stranger, ignored, \* of usekill.c
          parent, stopped, catches, hup, fg,      \* of orphan.c
          osig, echo, oldterm, queue, buf, typed, by, before, \* of canon.c
          stages, at, term, local, cmd, runs        \* of the programs of 18-termios

waitVars  == <<quitflag, quits, tested>>
sleepVars == <<handler, jmpbuf, rang, early, left, calls>>
jumpVars  == <<sigenv, env, canjump, canjump2, jumps>>
alarmVars == <<input, n>>
pwVars    == <<holder, result, late, wrong>>
pendVars  == <<oldmask, raised, seen>>
killVars  == <<main, kid, usr1, how, missed, answers, recycled, stranger, ignored>>
groupVars == <<parent, stopped, catches, hup, fg>>
termVars  == <<osig, echo, oldterm, queue, buf, typed, by, before>>
flagVars  == <<stages, at, term, local, cmd, runs>>
laterVars == <<alarmVars, pwVars, pendVars, killVars, groupVars, termVars, flagVars>>
firstVars == <<pend, mask, frames, sent, pc, caught, woken, timer, handled,
               waitVars, sleepVars, jumpVars>>
vars == <<prog, firstVars, laterVars>>

\* The signals each program is about.
WaitSigs   == {"SIGINT", "SIGQUIT"}
RegionSigs == {"SIGINT", "SIGUSR1"}
SleepSigs  == {"SIGINT", "SIGALRM"}
JumpSigs   == {"SIGUSR1", "SIGUSR2", "SIGALRM"}
AlarmSigs  == {"SIGALRM"}
PassSigs   == {"SIGINT", "SIGTSTP", "SIGQUIT"}

W  == INSTANCE BlockedSignals WITH Sigs <- WaitSigs \* and of sigpend.c
C  == INSTANCE BlockedSignals WITH Sigs <- RegionSigs
S  == INSTANCE SleepAlarm WITH Sigs <- SleepSigs, Programs <- {"sleep1", "sleep2"},
                              Calls1 <- Sleeps, Calls2 <- 1
J  == INSTANCE SigJump WITH Sigs <- JumpSigs
A  == INSTANCE AlarmWait WITH Sigs <- AlarmSigs
K  == INSTANCE SignalledChild
T  == INSTANCE Terminals WITH Sigs <- PassSigs

\* What a program does not have keeps its first value.
Init ==
  /\ caught = {} /\ woken = FALSE /\ handled = 0
  /\ quitflag = 0 /\ quits = 0 /\ tested = 0
  /\ handler = "caller" /\ jmpbuf = "unset" /\ calls = 0
  /\ rang = FALSE /\ early = FALSE /\ left = FALSE
  /\ sigenv = <<>> /\ env = FALSE /\ canjump = 0 /\ canjump2 = 0 /\ jumps = 0
  /\ input = "none" /\ n = "none"
  /\ holder = "none" /\ result = "none" /\ late = FALSE /\ wrong = FALSE
  /\ raised = 0 /\ seen = FALSE
  /\ K!OrphanInit
  /\ prog \in {"waitsig", "critical", "sleep1", "sleep2", "sigsetjmp", "alarm", "alarmread",
              "sigaction", "reentrant", "sigpend", "usekill", "orphan", "getpass", "modes"}
  /\ IF prog = "usekill" THEN K!KillInit
     ELSE /\ main = "fork" /\ usr1 = FALSE /\ how = "none" /\ missed = FALSE
          /\ answers = [k \in K!Kills |-> "none"]
          /\ recycled = FALSE /\ stranger = FALSE /\ ignored = FALSE
  /\ timer = IF prog = "sleep1" THEN "caller" ELSE "off"
  /\ CASE prog = "waitsig"   -> W!WaitInit
       [] prog = "critical"  -> C!RegionInit
       [] prog \in {"sleep1", "sleep2"} -> S!Init
       [] prog = "sigsetjmp" -> J!Init
       [] prog = "sigpend"   -> W!PendInit
       [] prog = "reentrant" -> A!PwInit
       [] prog = "getpass"   -> T!PassInit
       [] prog \in {"alarm", "alarmread", "sigaction"} -> A!Init
       [] prog \in {"usekill", "orphan", "modes"} -> W!WaitInit
  /\ oldmask = mask
  /\ prog # "getpass" => osig = {} /\ echo = TRUE /\ buf = <<>> /\ typed = 0
  /\ prog \notin {"getpass", "modes"} =>
       oldterm = FALSE /\ queue = <<>> /\ by = "none" /\ before = "none"
  /\ IF prog = "modes" THEN T!ModesInit
     ELSE /\ stages = <<>> /\ at = 0 /\ term = "none" /\ local = "none"
          /\ cmd = "none" /\ runs = 0

InWait(X)   == /\ prog = "waitsig" /\ X
               /\ UNCHANGED <<prog, timer, handled, sleepVars, jumpVars, laterVars>>
InRegion(X) == /\ prog = "critical" /\ X
               /\ UNCHANGED <<prog, timer, waitVars, sleepVars, jumpVars, laterVars>>
InSleep(X)  == /\ prog \in {"sleep1", "sleep2"} /\ X
               /\ UNCHANGED <<prog, caught, handled, waitVars, jumpVars, laterVars>>
InJump(X)   == /\ prog = "sigsetjmp" /\ X
               /\ UNCHANGED <<prog, caught, woken, handled, waitVars, sleepVars, laterVars>>
InAlarm(X)  == /\ prog \in {"alarm", "alarmread", "sigaction"} /\ X
               /\ UNCHANGED <<prog, waitVars, handler, jmpbuf, rang, calls, jumpVars,
                              pwVars, pendVars, killVars, groupVars, termVars, flagVars>>
InPw(X)     == /\ prog = "reentrant" /\ X
               /\ UNCHANGED <<prog, caught, woken, handled, waitVars, sleepVars, jumpVars,
                              alarmVars, pendVars, killVars, groupVars, termVars, flagVars>>
InPend(X)   == /\ prog = "sigpend" /\ X
               /\ UNCHANGED <<prog, woken, timer, waitVars, sleepVars, jumpVars,
                              alarmVars, pwVars, killVars, groupVars, termVars, flagVars>>
InKill(X)   == /\ prog = "usekill" /\ X
               /\ UNCHANGED <<prog, firstVars, alarmVars, pwVars, pendVars, groupVars, termVars,
                              flagVars>>
InGroup(X)  == /\ prog = "orphan" /\ X
               /\ UNCHANGED <<prog, firstVars, n, holder, late, wrong, pendVars, termVars, flagVars,
                              main, usr1, how, missed, answers, recycled, stranger, ignored>>

InTerm(X)   == /\ prog = "getpass" /\ X
               /\ UNCHANGED <<prog, caught, woken, timer, handled, waitVars, sleepVars,
                              jumpVars, alarmVars, pwVars, pendVars, killVars,
                              parent, catches, hup, fg, flagVars>>
InModes(X)  == /\ prog = "modes" /\ X
               /\ UNCHANGED <<prog, firstVars, alarmVars, pwVars, pendVars, killVars,
                              parent, catches, hup, fg, osig, echo, buf, typed>>

Main == \/ InWait(W!WaitMain) \/ InRegion(C!RegionMain)
        \/ InSleep(S!Main) \/ InJump(J!Main)
        \/ InAlarm(A!Main) \/ InPw(A!PwMain) \/ InPend(W!PendMain)
        \/ InKill(K!Parent) \/ InGroup(K!OrphanFork \/ K!ParentExit)
        \/ InModes(T!ModesMain)

Handlers ==
  \/ InWait(\E s \in WaitSigs : W!WaitHandler(s))
  \/ InRegion(C!Handler)
  \/ InSleep(S!Jump \/ \E s \in SleepSigs : S!Return(s))
  \/ InJump(J!Handler)
  \/ InAlarm(A!Return) \/ InPw(A!Handler) \/ InPend(W!Return)
  \/ InKill(K!KillChild) \/ InGroup(K!OrphanChild)

Deliver ==
  \/ InWait(\E s \in WaitSigs : W!WaitDeliver(s))
  \/ InRegion(\E s \in RegionSigs : C!RegionDeliver(s))
  \/ InSleep(\E s \in SleepSigs : S!Deliver(s))
  \/ InJump(\E s \in JumpSigs : J!Deliver(s))
  \/ InAlarm(A!Deliver) \/ InPw(A!PwDeliver)
  \/ InPend(\E s \in WaitSigs : W!PendDeliver(s))
  \/ InKill(K!Deliver) \/ InGroup(K!ShellTakes)

Ring == \/ InSleep(S!Ring) \/ InJump(J!Ring)
        \/ InAlarm(A!Ring) \/ InPw(A!PwRing)

Next == \/ InWait(W!WaitNext) \/ InRegion(C!RegionNext)
        \/ InSleep(S!Next) \/ InJump(J!Next)
        \/ InAlarm(A!Next) \/ InPw(A!PwNext) \/ InPend(W!PendNext)
        \/ InKill(K!KillNext) \/ InGroup(K!OrphanNext) \/ InTerm(T!PassNext)
        \/ InModes(T!ModesNext)

Spec == Init /\ [][Next]_vars

\* Processes are scheduled, a child with its parent (Main and Handlers), the kernel
\* delivers what is not blocked, and an alarm that is running rings.  Nobody has to
\* send a signal or to type.
FairSpec == Spec /\ WF_vars(Main) /\ WF_vars(Handlers) /\ WF_vars(Deliver) /\ WF_vars(Ring)

------------------------------------------------------------------------------
(* What must hold, program by program *)

TypeOK == CASE prog = "waitsig"   -> W!WaitTypeOK
            [] prog = "critical"  -> C!RegionTypeOK
            [] prog \in {"sleep1", "sleep2"} -> S!TypeOK
            [] prog = "sigsetjmp" -> J!TypeOK
            [] prog \in {"alarm", "alarmread", "sigaction"} -> A!TypeOK
            [] prog = "reentrant" -> A!PwTypeOK
            [] prog = "sigpend"   -> W!PendTypeOK
            [] prog = "usekill"   -> K!KillTypeOK
            [] prog = "orphan"    -> K!OrphanTypeOK
            [] prog = "getpass"   -> T!PassTypeOK
            [] prog = "modes"     -> T!ModesTypeOK

\* waitsig.c, lines 16-20 and 42-46: no SIGQUIT is lost between the test of the
\* flag and sigsuspend(), and at the end the flag tells of one after the loop.
\* sleep1.c, lines 34-47, and sleep2.c: 0 is returned if and only if the time
\* was up, and neither the alarm nor its signal outlives the call.  alarm.c, lines
\* 86-89: an alarm that was replaced does not ring, the others do; alarmread.c,
\* line 40: alarm(0) leaves none.  sigpend.c, lines 39-40 and 76-79: three signals
\* are handled once if they were blocked, and three times if not.  usekill.c,
\* lines 113-128: a child is found until it is reaped, and its signals go to
\* nobody else.
NoSignalMissed ==
  /\ prog = "waitsig" => W!LeavesOnQuit /\ W!NoQuitInBetween /\ W!FlagAtEnd
  /\ prog \in {"sleep1", "sleep2"} => S!ResultTellsTruth /\ S!NoAlarmLeft
  /\ prog = "alarm" => A!EachAlarmOnce
  /\ prog = "alarmread" => A!CancelledInTime
  /\ prog = "sigpend" => W!HandledOnce
  /\ prog = "usekill" => K!FoundUntilReaped

\* critical.c, lines 41-43 and 78-94: no SIGINT handler runs in the critical
\* region, and the mask while sigsuspend() waits is the one it was given.
\* sigsetjmp.c, lines 36-43 and 65-79: a handler that jumps finds its buffer
\* set, and siglongjmp() leaves no signal blocked.  sigaction.c, lines 117-121: a
\* signal is blocked in its handler.  sigpend.c, lines 26-34: the old mask is
\* restored, whatever it was.  orphan.c, lines 29-33: the SIGHUP of an orphaned
\* group finds a handler.  canon.c, lines 62-70 and 80-81: the terminal and the
\* mask are given back as they were, and nothing of the password is shown.  The
\* programs of 18-termios (intr.c, lines 42, 60 and 78, is typical): what they set is
\* put back, nothing is read that was typed under other settings, and the user has
\* a key to end every wait.
MasksKept ==
  /\ prog = "critical" => C!RegionUndisturbed /\ C!MaskInHandler
  /\ prog = "sigsetjmp" => J!JumpsOnlyWhenSet /\ J!MaskRestored
  /\ prog = "sigaction" => A!BlockedInHandler
  /\ prog = "sigpend" => W!SeenAndRestored
  /\ prog = "orphan" => K!OrphanSurvives
  /\ prog = "getpass" => T!EchoRestored /\ T!MaskAsBefore /\ T!NothingShown
  /\ prog = "modes" => T!SettingsBack /\ T!FreshInput /\ T!NotLockedIn

\* critical.c, lines 78-84 and 89: SIGUSR1 cannot end the wait.  sleep2.c, line
\* 9: the handler jumps only while sleep2() is active.  sigsetjmp.c, lines
\* 84-90: longjmp() leaves every signal blocked whose handler it has cut off.
\* alarmread.c, lines 22-25: the alarm does not end a read() that is restarted.
\* reentrant.c, lines 66-72 and 82: a handler that interrupts getpwnam() never
\* goes on, and main() sees the wrong name only between its return and line 81.
OnlyAllowedEffects == [][/\ prog = "critical" => C!WaitNotKilled
                         /\ prog = "sleep2" => S!JumpsIntoLive
                         /\ prog = "sigsetjmp" => J!MaskAfterLongjmp
                         /\ prog = "alarmread" => A!OnlyInputEndsRead
                         /\ prog = "reentrant" => A!StuckForEver /\ A!WrongOnlyIfLate]_vars

\* What has to come to an end, and what its end is.
MustEnd == \/ prog = "waitsig" /\ W!QuitComes
           \/ prog = "critical"
           \/ prog = "sleep1" /\ pc = "pause"
           \/ prog = "sleep2" /\ pc = "alarm" /\ calls > 0
           \/ prog = "sigsetjmp" /\ J!Usr2Goes
           \/ prog \in {"alarm", "sigaction"} /\ pc = "alarm"
           \/ prog = "reentrant" /\ timer = "off"
           \/ prog = "usekill" /\ main = "sleep"
           \/ prog = "orphan" /\ kid = "stop"
           \/ prog = "modes" /\ T!MustGoOn

HasEnded == CASE prog = "waitsig"   -> ~W!Alive
              [] prog = "critical"  -> ~C!Alive
              [] prog = "sleep1"    -> S!Woken
              [] prog = "sleep2"    -> pc = "cancel"
              [] prog = "sigsetjmp" -> J!Usr2Over
              [] prog \in {"alarm", "sigaction"} -> A!EndedOrEarly
              [] prog = "reentrant" -> A!NextAlarm
              [] prog = "usekill"   -> K!ReapedOrMissed
              [] prog = "orphan"    -> kid \in {"reading", "done"}
              [] prog = "modes"     -> ~T!MustGoOn
              [] OTHER -> TRUE

\* waitsig.c, lines 42-43: a SIGQUIT ends the program whenever it comes.
\* critical.c, lines 68-71 and 86: a SIGINT raised in the region ends the wait.
\* sleep1.c, lines 28-30: it returns unless its handler ran before pause();
\* sleep2.c, lines 14-15: a first call returns always.  sigsetjmp.c, lines
\* 143-163: a SIGUSR2 that passes its guard ends the program, unless a SIGUSR1
\* jumps away from its handler.  alarm.c and sigaction.c: the alarm ends the wait
\* unless it comes before it.  reentrant.c: alarms go on until one interrupts
\* getpwnam().  usekill.c, line 139: the parent reaps its child unless a signal
\* came before pause().  orphan.c, lines 59-71: the child does not stay stopped.
\* mintime.c, lines 89-120: a round with MIN = 0 needs no key; eof.c, lines 11-15: an
\* EOF at the start of a line ends the loop.
\* (prog never changes: one formula says it of each program.)
WaitsEnd == MustEnd ~> HasEnded
==============================================================================
