------------------------------- MODULE SigJump -------------------------------
(***************************************************************************)
(* 10-signal/15-sigsetjmp/sigsetjmp.c: sig_usr1() leaves with siglongjmp() *)
(* and sig_usr2() with longjmp(), each guarded by a flag that says whether *)
(* its buffer is set, and each open to the other and to SIGALRM.           *)
(***************************************************************************)
EXTENDS Signals

VARIABLES pc,       \* what main() does next
          sigenv,   \* set, with the mask it restores, or <<>>
          env,      \* setjmp(env) has been called
          canjump, canjump2,
          timer,    \* "on" while an alarm(3) is running
          jumps     \* how often siglongjmp() was called

mainVars == <<pc, sigenv, env, canjump, canjump2, timer, jumps>>
vars     == <<sigVars, mainVars>>

Init ==
  /\ SigInit
  /\ pc = "sigsetjmp" /\ sigenv = <<>> /\ env = FALSE
  /\ canjump = 0 /\ canjump2 = 0 /\ timer = "off" /\ jumps = 0

MainStep(from, to) == InMain /\ pc = from /\ pc' = to

\* sigsetjmp(sigenv, 1) saves the mask.
Sigsetjmp ==
  /\ MainStep("sigsetjmp", "canjump")
  /\ sigenv' = <<mask>>
  /\ UNCHANGED <<sigVars, env, canjump, canjump2, timer, jumps>>

\* canjump = 1; siglongjmp() comes back to here.
SetCanjump ==
  /\ MainStep("canjump", "setjmp")
  /\ canjump' = 1
  /\ UNCHANGED <<sigVars, sigenv, env, canjump2, timer, jumps>>

Setjmp ==
  /\ MainStep("setjmp", "canjump2")
  /\ env' = TRUE
  /\ UNCHANGED <<sigVars, sigenv, canjump, canjump2, timer, jumps>>

SetCanjump2 ==
  /\ MainStep("canjump2", "pause")
  /\ canjump2' = 1
  /\ UNCHANGED <<sigVars, sigenv, env, canjump, timer, jumps>>

\* longjmp() has come back: print the mask and return.
AfterLongjmp == MainStep("longjmped", "returned") /\ UNCHANGED <<sigVars, sigenv, env, canjump, canjump2, timer, jumps>>

Running == pc # "returned"

------------------------------------------------------------------------------
(* The handlers *)

Arrive(s) == Running /\ s # "SIGALRM" /\ Send(s) /\ UNCHANGED mainVars

Ring == /\ Running /\ timer = "on" /\ Raise("SIGALRM") /\ timer' = "off"
        /\ UNCHANGED <<pc, sigenv, env, canjump, canjump2, jumps>>

Deliver(s) == Running /\ Enter(s) /\ UNCHANGED mainVars

\* Mutant: the flag is not looked at.
Usr1Guard_None == TRUE
Usr1Guard == canjump # 0
Usr2Guard == canjump2 # 0

\* A handler whose flag is off returns at once, and so does sig_alarm().
HandlerReturns(s) ==
  /\ Running /\ At(s, "start")
  /\ \/ s = "SIGALRM" \/ (s = "SIGUSR1" /\ ~Usr1Guard) \/ (s = "SIGUSR2" /\ ~Usr2Guard)
  /\ Leave
  /\ UNCHANGED mainVars

\* alarm(3) and more than five seconds in a loop.
HandlerBusy(s) ==
  /\ Running /\ At(s, "start")
  /\ (s = "SIGUSR1" /\ Usr1Guard) \/ (s = "SIGUSR2" /\ Usr2Guard)
  /\ Moves("busy")
  /\ timer' = "on"
  /\ UNCHANGED <<pc, sigenv, env, canjump, canjump2, jumps>>

\* The flag goes off before the jump.
HandlerClears(s) ==
  /\ Running /\ At(s, "busy")
  /\ Moves("jump")
  /\ canjump' = IF s = "SIGUSR1" THEN 0 ELSE canjump
  /\ canjump2' = IF s = "SIGUSR2" THEN 0 ELSE canjump2
  /\ UNCHANGED <<pc, sigenv, env, timer, jumps>>

\* Mutant: longjmp(), which restores no mask.
Usr1Jumps_Plain ==
  /\ Running /\ At("SIGUSR1", "jump")
  /\ Longjmp
  /\ pc' = "canjump" /\ jumps' = jumps + 1
  /\ UNCHANGED <<sigenv, env, canjump, canjump2, timer>>

\* siglongjmp(sigenv, 1), out of whatever the handler has interrupted.
Usr1Jumps ==
  /\ Running /\ At("SIGUSR1", "jump")
  /\ Siglongjmp(sigenv[1])
  /\ pc' = "canjump" /\ jumps' = jumps + 1
  /\ UNCHANGED <<sigenv, env, canjump, canjump2, timer>>

\* Mutant: siglongjmp() here as well.
Usr2Jumps_Restores ==
  /\ Running /\ At("SIGUSR2", "jump")
  /\ Siglongjmp({})
  /\ pc' = "longjmped"
  /\ UNCHANGED <<sigenv, env, canjump, canjump2, timer, jumps>>

\* Mutant: return instead of the jump.
Usr2Jumps_Returns ==
  /\ Running /\ At("SIGUSR2", "jump")
  /\ Leave
  /\ UNCHANGED mainVars

\* longjmp(env, 1)
Usr2Jumps ==
  /\ Running /\ At("SIGUSR2", "jump")
  /\ Longjmp
  /\ pc' = "longjmped"
  /\ UNCHANGED <<sigenv, env, canjump, canjump2, timer, jumps>>

------------------------------------------------------------------------------
Main    == Sigsetjmp \/ SetCanjump \/ Setjmp \/ SetCanjump2 \/ AfterLongjmp
Handler == \/ Usr1Jumps \/ Usr2Jumps
           \/ \E s \in Sigs : HandlerReturns(s) \/ HandlerBusy(s) \/ HandlerClears(s)

Next == Main \/ Handler \/ Ring \/ \E s \in Sigs : Arrive(s) \/ Deliver(s)

Spec == Init /\ [][Next]_vars
FairSpec == Spec /\ WF_vars(Main) /\ WF_vars(Handler) /\ WF_vars(Ring)
                 /\ \A s \in Sigs : WF_vars(Deliver(s))

------------------------------------------------------------------------------
(* What must hold *)

TypeOK ==
  /\ SigTypeOK /\ Len(frames) <= 3
  /\ pc \in {"sigsetjmp", "canjump", "setjmp", "canjump2", "pause", "longjmped", "returned"}
  /\ sigenv \in {<<>>} \cup {<<m>> : m \in SUBSET Sigs} /\ env \in BOOLEAN
  /\ canjump \in {0, 1} /\ canjump2 \in {0, 1} /\ timer \in {"off", "on"} /\ jumps \in 0..MaxSent

\* Lines 65-74: no handler is on its way to a jump whose buffer is not set.
JumpsOnlyWhenSet ==
  /\ \A i \in DOMAIN frames : /\ frames[i].sig = "SIGUSR1" /\ frames[i].at # "start" => sigenv # <<>>
                              /\ frames[i].sig = "SIGUSR2" /\ frames[i].at # "start" => env
  /\ pc = "longjmped" => env

\* Lines 36-43 and 76-79: after siglongjmp(), whatever it interrupted, no
\* signal is left blocked; only longjmp() leaves some.
MaskRestored == InMain /\ pc \notin {"longjmped", "returned"} => mask = {}

\* Lines 84-90: longjmp() comes back with SIGUSR2 blocked, and with every
\* signal whose handler was cut off.
MaskAfterLongjmp ==
  pc # "longjmped" /\ pc' = "longjmped" => mask' = {frames[i].sig : i \in DOMAIN frames}

\* A SIGUSR2 that finds its flag set ends the program, unless a SIGUSR1 jumps
\* away from its handler.
Usr2Goes == At("SIGUSR2", "busy")
Usr2Over == ~Running \/ (InMain /\ pc = "canjump")
Usr2Ends == Usr2Goes ~> Usr2Over
==============================================================================
