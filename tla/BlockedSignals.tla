--------------------------- MODULE BlockedSignals ----------------------------
(***************************************************************************)
(* Three programs of 10-signal that block a signal for a while and look at *)
(* what becomes of it: waitsig.c, critical.c and sigpend.c.                *)
(***************************************************************************)
EXTENDS Signals

VARIABLES pc,      \* what main() does next
          caught,  \* signals that have a handler
          handled, \* SIGINT handlers (critical.c), or handlers, that have been called
          woken,   \* sigsuspend() has had a handler called
          quitflag,\* of waitsig.c
          quits,   \* SIGQUIT handlers that have run
          tested,  \* quits when the flag was seen set
          oldmask, \* what sigprocmask() has saved
          raised,  \* calls of raise() so far
          seen     \* sigpending() has shown SIGQUIT

Alive == pc \notin {"returned", "killed"}

------------------------------------------------------------------------------
(***************************************************************************)
(* 17-waitsig/waitsig.c: main() waits in sigsuspend() for the SIGQUIT      *)
(* handler to set quitflag; SIGINT is caught and does not end it.          *)
(***************************************************************************)

waitMainVars == <<pc, caught, quitflag, woken, quits, tested>>
waitVars     == <<sigVars, waitMainVars>>

WaitInit ==
  /\ SigInit
  /\ pc = "sigquit" /\ caught = {} /\ quitflag = 0
  /\ woken = FALSE /\ quits = 0 /\ tested = 0

WaitMainStep(from, to) == InMain /\ pc = from /\ pc' = to

WaitSigaction(from, s, to) ==
  /\ WaitMainStep(from, to)
  /\ caught' = caught \cup {s}
  /\ UNCHANGED <<sigVars, quitflag, woken, quits, tested>>

\* Mutant: SIGQUIT is never blocked.
WaitBlock_Skipped ==
  /\ WaitMainStep("block", "loop")
  /\ UNCHANGED <<sigVars, caught, quitflag, woken, quits, tested>>

WaitBlock ==
  /\ WaitMainStep("block", "loop")
  /\ SetMask(mask \cup {"SIGQUIT"})
  /\ UNCHANGED <<caught, quitflag, woken, quits, tested>>

\* while (quitflag == 0)
Loop ==
  /\ InMain /\ pc = "loop"
  /\ pc' = IF quitflag = 0 THEN "suspend" ELSE "clear"
  /\ tested' = IF pc' = "clear" THEN quits ELSE tested
  /\ UNCHANGED <<sigVars, caught, quitflag, woken, quits>>

\* Mutant: the mask of before stays.
WaitSuspend_Masked ==
  /\ WaitMainStep("suspend", "asleep")
  /\ woken' = FALSE
  /\ UNCHANGED <<sigVars, caught, quitflag, quits, tested>>

\* sigsuspend() opens the mask and sleeps in one step.
WaitSuspend ==
  /\ WaitMainStep("suspend", "asleep")
  /\ woken' = FALSE
  /\ SetMask({})
  /\ UNCHANGED <<caught, quitflag, quits, tested>>

\* A handler has returned: sigsuspend() returns with the mask from before.
WaitResume ==
  /\ WaitMainStep("asleep", "loop") /\ woken
  /\ SetMask({"SIGQUIT"})
  /\ UNCHANGED <<caught, quitflag, woken, quits, tested>>

\* Mutant: the flag is not cleared.
Clear_Skipped == WaitMainStep("clear", "unblock") /\ UNCHANGED <<sigVars, caught, quitflag, woken, quits, tested>>

Clear ==
  /\ WaitMainStep("clear", "unblock")
  /\ quitflag' = 0
  /\ UNCHANGED <<sigVars, caught, woken, quits, tested>>

Unblock ==
  /\ WaitMainStep("unblock", "exit")
  /\ SetMask({})
  /\ UNCHANGED <<caught, quitflag, woken, quits, tested>>

WaitExit == WaitMainStep("exit", "returned") /\ UNCHANGED <<sigVars, caught, quitflag, woken, quits, tested>>

------------------------------------------------------------------------------
(* Signals, and sig_handler() *)

WaitArrive(s) == Alive /\ Send(s) /\ UNCHANGED waitMainVars

\* Without a handler the signal kills the process.
WaitDeliver(s) ==
  /\ Alive
  /\ IF s \in caught
     THEN /\ Enter(s) /\ woken' = (woken \/ pc = "asleep")
          /\ UNCHANGED <<pc, caught, quitflag, quits, tested>>
     ELSE /\ Deliverable(s) /\ pc' = "killed"
          /\ UNCHANGED <<sigVars, caught, quitflag, woken, quits, tested>>

WaitHandler(s) ==
  /\ Alive /\ In(s)
  /\ quitflag' = IF s = "SIGQUIT" THEN 1 ELSE quitflag
  /\ quits' = IF s = "SIGQUIT" THEN quits + 1 ELSE quits
  /\ Leave
  /\ UNCHANGED <<pc, caught, woken, tested>>

------------------------------------------------------------------------------
WaitMain == \/ WaitSigaction("sigquit", "SIGQUIT", "sigint") \/ WaitSigaction("sigint", "SIGINT", "block")
        \/ WaitBlock \/ Loop \/ WaitSuspend \/ WaitResume \/ Clear \/ Unblock \/ WaitExit

WaitNext == WaitMain \/ \E s \in Sigs : WaitArrive(s) \/ WaitDeliver(s) \/ WaitHandler(s)

WaitTypeOK ==
  /\ SigTypeOK
  /\ pc \in {"sigquit", "sigint", "block", "loop", "suspend", "asleep", "clear",
             "unblock", "exit", "returned", "killed"}
  /\ caught \subseteq Sigs /\ quitflag \in {0, 1} /\ woken \in BOOLEAN
  /\ quits \in 0..MaxSent /\ tested \in 0..MaxSent

\* Lines 16-20: only SIGQUIT wakes up the main routine.
LeavesOnQuit == pc \in {"clear", "unblock", "exit", "returned"} => tested > 0

\* Between the test of the flag and sigsuspend(), and after the loop until the
\* mask is restored, no SIGQUIT handler runs: none is lost before the wait and
\* the flag that was tested is the flag that is cleared.
NoQuitInBetween ==
  pc \in {"suspend", "clear", "unblock"} => ~In("SIGQUIT") /\ (pc # "suspend" => quits = tested)

\* Line 46: at the end the flag tells of a SIGQUIT that came after the loop.
FlagAtEnd == pc \in {"exit", "returned"} => (quitflag = 1 <=> quits > tested)

\* A SIGQUIT that comes once its handler is there ends the program, whenever
\* it comes.
QuitComes == pc # "sigquit" /\ "SIGQUIT" \in pend

------------------------------------------------------------------------------
(***************************************************************************)
(* 10-signal/16-critical/critical.c: SIGINT is blocked around a critical   *)
(* region and let in by sigsuspend(), which blocks SIGUSR1 instead.        *)
(***************************************************************************)

regionMainVars == <<pc, caught, woken, handled>>
regionVars     == <<sigVars, regionMainVars>>

RegionInit == SigInit /\ pc = "sigaction" /\ caught = {} /\ woken = FALSE /\ handled = 0

RegionMainStep(from, to) == InMain /\ pc = from /\ pc' = to

Sigaction == /\ RegionMainStep("sigaction", "block")
             /\ caught' = {"SIGINT"}
             /\ UNCHANGED <<sigVars, woken, handled>>

\* Mutant: SIG_BLOCK of the other set.
Block_Other == /\ RegionMainStep("block", "raise")
               /\ SetMask(mask \cup {"SIGUSR1"})
               /\ UNCHANGED <<caught, woken, handled>>

\* sigprocmask(SIG_BLOCK, {SIGINT})
RegionBlock == /\ RegionMainStep("block", "raise")
               /\ SetMask(mask \cup {"SIGINT"})
               /\ UNCHANGED <<caught, woken, handled>>

RaiseInt == /\ RegionMainStep("raise", "critical")
            /\ Raise("SIGINT")
            /\ UNCHANGED <<caught, woken, handled>>

Critical == RegionMainStep("critical", "suspend") /\ UNCHANGED <<sigVars, caught, woken, handled>>

\* Mutant: sigprocmask() and pause().
Suspend_Split == /\ RegionMainStep("suspend", "asleep")
                 /\ SetMask({"SIGUSR1", "SIGINT"})
                 /\ woken' = FALSE /\ UNCHANGED <<caught, handled>>

\* Mutant: an empty set to wait with.
Suspend_Empty == /\ RegionMainStep("suspend", "asleep")
                 /\ SetMask({})
                 /\ woken' = FALSE /\ UNCHANGED <<caught, handled>>

\* sigsuspend({SIGUSR1})
Suspend == /\ RegionMainStep("suspend", "asleep")
           /\ SetMask({"SIGUSR1"})
           /\ woken' = FALSE /\ UNCHANGED <<caught, handled>>

\* Back to the mask of before.
Resume == /\ RegionMainStep("asleep", "reset") /\ woken
          /\ SetMask({"SIGINT"})
          /\ UNCHANGED <<caught, woken, handled>>

\* sigprocmask(SIG_SETMASK, &oldmask)
Reset == /\ RegionMainStep("reset", "exit")
         /\ SetMask({})
         /\ UNCHANGED <<caught, woken, handled>>

RegionExit == RegionMainStep("exit", "returned") /\ UNCHANGED <<sigVars, caught, woken, handled>>

RegionArrive(s) == Alive /\ Send(s) /\ UNCHANGED regionMainVars

\* SIGUSR1 has no handler.
RegionDeliver(s) ==
  /\ Alive
  /\ IF s \in caught
     THEN /\ Enter(s) /\ handled' = handled + 1
          /\ woken' = (woken \/ pc = "asleep") /\ UNCHANGED <<pc, caught>>
     ELSE /\ Deliverable(s) /\ pc' = "killed" /\ UNCHANGED <<sigVars, caught, woken, handled>>

\* sig_int() prints the mask and returns.
Handler == Alive /\ In("SIGINT") /\ Leave /\ UNCHANGED regionMainVars

RegionMain == \/ Sigaction \/ RegionBlock \/ RaiseInt \/ Critical
              \/ Suspend \/ Resume \/ Reset \/ RegionExit

RegionNext == RegionMain \/ Handler \/ \E s \in Sigs : RegionArrive(s) \/ RegionDeliver(s)

RegionSpec == RegionInit /\ [][RegionNext]_regionVars
RegionFairSpec == /\ RegionSpec /\ WF_regionVars(RegionMain) /\ WF_regionVars(Handler)
                  /\ \A s \in Sigs : WF_regionVars(RegionDeliver(s))

(* What must hold *)

RegionTypeOK == /\ SigTypeOK
                /\ pc \in {"sigaction", "block", "raise", "critical", "suspend", "asleep",
                           "reset", "exit", "returned", "killed"}
                /\ caught \subseteq {"SIGINT"} /\ woken \in BOOLEAN
                /\ handled \in 0..(MaxSent + 1)

\* Lines 41-43: no SIGINT handler runs between sigprocmask() and sigsuspend(),
\* nor between the return of sigsuspend() and the reset of the mask.
RegionUndisturbed == pc \in {"raise", "critical", "suspend", "reset"} => ~In("SIGINT")

\* Lines 78-84 and 89: a SIGUSR1 cannot end the wait; it kills before or after.
WaitNotKilled ==
  pc = "asleep" => pc' \in {"asleep", "reset"}

\* The handler runs with SIGINT blocked, and during the wait SIGUSR1 as well.
MaskInHandler ==
  In("SIGINT") => "SIGINT" \in mask /\ (pc = "asleep" => mask = Sigs)

\* Lines 68-71 and 86: the SIGINT raised in the region ends the wait, and the
\* program.
AlwaysEnds == <>~Alive

------------------------------------------------------------------------------
(***************************************************************************)
(* 10-signal/13-sigpend/sigpend.c: SIGQUIT is raised three times while it  *)
(* is blocked and three times when it is not.  The mask the program was    *)
(* started with may be any; SIGINT has no handler.                         *)
(***************************************************************************)

pendMainVars == <<pc, caught, oldmask, raised, handled, seen>>
pendVars     == <<sigVars, pendMainVars>>

PendInit == /\ pend = {} /\ mask \in SUBSET Sigs /\ frames = <<>> /\ sent = 0
            /\ pc = "signal" /\ caught = {} /\ oldmask = mask
            /\ raised = 0 /\ handled = 0 /\ seen = FALSE

Ended == {"done", "killed"}

\* A call does not return before a signal that is there has been taken.
PendMainStep(from, to) == /\ InMain /\ pc = from /\ pc' = to
                          /\ \A s \in Sigs : ~Deliverable(s)

Signal == /\ PendMainStep("signal", "block") /\ caught' = {"SIGQUIT"}
          /\ UNCHANGED <<sigVars, oldmask, raised, handled, seen>>

\* SIG_SETMASK: whatever else was blocked is not any more.
PendBlock == /\ PendMainStep("block", "raise") /\ oldmask' = mask /\ SetMask({"SIGQUIT"})
             /\ UNCHANGED <<caught, raised, handled, seen>>

RaiseQuit == /\ pc = "raise" /\ raised < 3 /\ PendMainStep("raise", "raise")
             /\ Raise("SIGQUIT") /\ raised' = raised + 1
             /\ UNCHANGED <<caught, oldmask, handled, seen>>

Sigpending == /\ raised = 3 /\ PendMainStep("raise", "restore")
              /\ seen' = ("SIGQUIT" \in pend)
              /\ UNCHANGED <<sigVars, caught, oldmask, raised, handled>>

\* Mutant: SIG_UNBLOCK of SIGQUIT, which line 26 warns of.
Restore_Unblock == /\ PendMainStep("restore", "again") /\ SetMask(mask \ {"SIGQUIT"})
                   /\ UNCHANGED <<caught, oldmask, raised, handled, seen>>

Restore == /\ PendMainStep("restore", "again") /\ SetMask(oldmask)
           /\ UNCHANGED <<caught, oldmask, raised, handled, seen>>

RaiseAgain == /\ pc = "again" /\ raised < 6 /\ PendMainStep("again", "again")
              /\ Raise("SIGQUIT") /\ raised' = raised + 1
              /\ UNCHANGED <<caught, oldmask, handled, seen>>

PendExit == /\ raised = 6 /\ PendMainStep("again", "done")
            /\ UNCHANGED <<sigVars, caught, oldmask, raised, handled, seen>>

PendMain == Signal \/ PendBlock \/ RaiseQuit \/ Sigpending \/ Restore \/ RaiseAgain \/ PendExit

PendArrive == /\ pc \notin Ended /\ \E s \in Sigs : Send(s)
              /\ UNCHANGED pendMainVars

PendDeliver(s) == /\ pc \notin Ended /\ Enter(s)
                  /\ IF s \in caught THEN handled' = handled + 1 /\ UNCHANGED pc
                     ELSE pc' = "killed" /\ UNCHANGED handled
                  /\ UNCHANGED <<caught, oldmask, raised, seen>>

Return == pc \notin Ended /\ frames # <<>> /\ Leave /\ UNCHANGED pendMainVars

PendNext == PendMain \/ PendArrive \/ Return \/ \E s \in Sigs : PendDeliver(s)

PendSpec == PendInit /\ [][PendNext]_pendVars

PendFairSpec == /\ PendSpec /\ WF_pendVars(PendMain) /\ WF_pendVars(Return)
                /\ WF_pendVars(\E s \in Sigs : PendDeliver(s))

(* What must hold *)

PendTypeOK == /\ SigTypeOK /\ Len(frames) <= 2
              /\ pc \in Ended \cup {"signal", "block", "raise", "restore", "again"}
              /\ caught \subseteq Sigs /\ oldmask \subseteq Sigs
              /\ raised \in 0..6 /\ handled \in 0..4 + MaxSent /\ seen \in BOOLEAN

\* sigpend.c, lines 39-40 and 76-79: three signals of one kind that were blocked
\* are handled once, and three that were not, three times; another sender adds
\* no more than what it sends.
HandledOnce ==
  pc = "done" => IF "SIGQUIT" \in oldmask THEN handled = 0 /\ "SIGQUIT" \in pend
                 ELSE handled \in 4..4 + sent

\* Lines 26-34 and 66-72: SIGQUIT is seen pending, and the mask is as before.
SeenAndRestored == pc = "again" /\ InMain => seen /\ mask = oldmask
==============================================================================
