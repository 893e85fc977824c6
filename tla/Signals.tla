------------------------------- MODULE Signals -------------------------------
(***************************************************************************)
(* Signals of one process, as the programs of 10-signal meet them: pending *)
(* signals are a set, a handler runs with its own signal blocked on top of *)
(* whatever it interrupts, and its return restores the mask.               *)
(***************************************************************************)
EXTENDS Naturals, Sequences

CONSTANTS Sigs,
          MaxSent \* bound on the signals that are sent

VARIABLES pend,   \* signals pending
          mask,   \* signals blocked
          frames, \* handlers that are running: [sig, old mask, at]
          sent    \* signals that were sent

sigVars == <<pend, mask, frames, sent>>

SigInit == pend = {} /\ mask = {} /\ frames = <<>> /\ sent = 0

SigTypeOK ==
  /\ pend \subseteq Sigs /\ mask \subseteq Sigs /\ sent \in 0..MaxSent
  /\ \A i \in DOMAIN frames : frames[i].sig \in Sigs /\ frames[i].old \subseteq Sigs

InMain == frames = <<>>
Top    == frames[Len(frames)]  \* the handler that runs
In(s)  == frames # <<>> /\ Top.sig = s
At(s, where) == In(s) /\ Top.at = where

\* kill() or the kernel: a signal that is pending already is not counted twice.
Send(s) ==
  /\ sent < MaxSent
  /\ pend' = pend \cup {s} /\ sent' = sent + 1
  /\ UNCHANGED <<mask, frames>>

Raise(s) == pend' = pend \cup {s} /\ UNCHANGED <<mask, frames, sent>>

Deliverable(s) == s \in pend \ mask

\* Mutant: the signal is not blocked while its handler runs.
Enter_Open(s) ==
  /\ Deliverable(s)
  /\ pend' = pend \ {s} /\ UNCHANGED mask
  /\ frames' = Append(frames, [sig |-> s, old |-> mask, at |-> "start"])
  /\ UNCHANGED sent

\* The handler of s is called.
Enter(s) ==
  /\ Deliverable(s)
  /\ pend' = pend \ {s} /\ mask' = mask \cup {s}
  /\ frames' = Append(frames, [sig |-> s, old |-> mask, at |-> "start"])
  /\ UNCHANGED sent

\* The handler goes on to another place.
Moves(where) ==
  /\ frames' = [frames EXCEPT ![Len(frames)].at = where]
  /\ UNCHANGED <<pend, mask, sent>>

\* The handler returns, to m as the signal mask.
LeaveTo(m) == frames' = SubSeq(frames, 1, Len(frames) - 1) /\ mask' = m /\ UNCHANGED <<pend, sent>>
Leave      == LeaveTo(Top.old)

\* longjmp() out of every handler: the mask stays; siglongjmp() restores m.
Longjmp       == frames' = <<>> /\ UNCHANGED <<pend, mask, sent>>
Siglongjmp(m) == frames' = <<>> /\ mask' = m /\ UNCHANGED <<pend, sent>>

\* sigprocmask()
SetMask(m) == mask' = m /\ UNCHANGED <<pend, frames, sent>>
==============================================================================
