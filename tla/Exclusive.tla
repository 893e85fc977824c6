------------------------------ MODULE Exclusive ------------------------------
(***************************************************************************)
(* What every lock of this repository promises: at most one process (or    *)
(* thread) at a time is inside.  Leaving may be voluntary or by dying.     *)
(***************************************************************************)
CONSTANTS Procs
VARIABLES inside

Init     == inside = {}
Enter(p) == inside = {} /\ inside' = {p}
Leave(p) == p \in inside /\ inside' = {}
Next     == \E p \in Procs : Enter(p) \/ Leave(p)
Spec     == Init /\ [][Next]_inside
==============================================================================
