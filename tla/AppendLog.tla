------------------------------ MODULE AppendLog ------------------------------
(***************************************************************************)
(* What O_APPEND promises the programs of 3-fileio/9-atomic (a.c and b.c,  *)
(* lines 11-16): the file only grows, by one whole record at a time.       *)
(***************************************************************************)
EXTENDS Sequences

CONSTANTS Records, \* the records the programs write, as sequences of bytes
          Start    \* what the file may hold before

VARIABLE log

Init == log \in Start

AppendRecord == \E r \in Records : log' = log \o r

Spec == Init /\ [][AppendRecord]_log
==============================================================================
