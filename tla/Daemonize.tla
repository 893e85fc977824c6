------------------------------ MODULE Daemonize ------------------------------
(***************************************************************************)
(* daemonize() of 13-daemon/2-coderule/daemonize.c (and the same function  *)
(* in 13-daemon/4-single/single.c and 16-netipc/12-sendrecv/uptimesrv.c):  *)
(* two forks, a new session, descriptors closed and 0, 1, 2 on /dev/null.  *)
(* Launch l starts process <<l, 1>>; the forks make <<l, 2>> and <<l, 3>>. *)
(* The terminal may hang up and any process may be killed at any time.     *)
(* Actions of the caller that follow the last step of daemonize() belong   *)
(* to the module that composes this one.                                   *)
(***************************************************************************)
EXTENDS Integers, FiniteSets

CONSTANTS Launches,     \* the times the program is started
          MaxFd,        \* descriptors looked at: 0..MaxFd-1
          Inherited,    \* those open when the program starts
          RlimMax,      \* hard limit on descriptors, or Infinity
          Infinity,     \* RLIM_INFINITY
          DefaultMax    \* descriptors closed when there is no limit (1024)

Fd       == 0..(MaxFd - 1)
Procs    == Launches \X (1..3)
Login    == <<"login", 0>>          \* the session of the shell
Sessions == Procs \cup {Login}

VARIABLES pc,    \* what each process does next; "none" before its fork
          sess,  \* session of each process, named by the process that led it
          ctty,  \* sessions that have a controlling terminal
          ignhup,\* processes that ignore SIGHUP
          fds    \* what each descriptor of each process refers to

vars == <<pc, sess, ctty, ignhup, fds>>

Dead == {"none", "gone"}
Targets == {"none", "inherited", "null", "tty", "lockfile"}

Init ==
  /\ pc = [p \in Procs |-> "none"]
  /\ sess = [p \in Procs |-> Login]
  /\ ctty = {Login}
  /\ ignhup = {}
  /\ fds = [p \in Procs |-> [d \in Fd |-> IF d \in Inherited THEN "inherited" ELSE "none"]]

Alive(p)    == pc[p] \notin Dead
Goto(p, to) == pc' = [pc EXCEPT ![p] = to]
ChildOf(p)  == <<p[1], p[2] + 1>>
At(p, lbl)  == pc[p] = lbl

\* The shell gives each job a process group; setsid() makes a new one.
GroupLeader(p) == p[2] = 1 \/ sess[p] = p

------------------------------------------------------------------------------
Launch(l) ==
  /\ At(<<l, 1>>, "none")
  /\ Goto(<<l, 1>>, "start")
  /\ UNCHANGED <<sess, ctty, ignhup, fds>>

\* umask(0), getrlimit()
Start(p) == /\ At(p, "start")
            /\ Goto(p, "fork1")
            /\ UNCHANGED <<sess, ctty, ignhup, fds>>

\* The child is a copy that goes on at next; the parent calls exit(0).
Fork(p, next) ==
  LET c == ChildOf(p)
  IN  /\ pc' = [pc EXCEPT ![p] = "gone", ![c] = next]
      /\ sess' = [sess EXCEPT ![c] = sess[p]]
      /\ ignhup' = IF p \in ignhup THEN ignhup \cup {c} ELSE ignhup
      /\ fds' = [fds EXCEPT ![c] = fds[p]]
      /\ UNCHANGED ctty

Fork1(p) == At(p, "fork1") /\ Fork(p, "setsid")

\* Mutant: no new session.
Setsid_Skipped(p) ==
  /\ At(p, "setsid")
  /\ Goto(p, "sigaction")
  /\ UNCHANGED <<sess, ctty, ignhup, fds>>

\* setsid(): refused to a group leader, whose result nobody looks at.
Setsid(p) ==
  /\ At(p, "setsid")
  /\ sess' = IF GroupLeader(p) THEN sess ELSE [sess EXCEPT ![p] = p]
  /\ Goto(p, "sigaction")
  /\ UNCHANGED <<ctty, ignhup, fds>>

IgnoreHup(p) ==
  /\ At(p, "sigaction")
  /\ ignhup' = ignhup \cup {p}
  /\ Goto(p, "fork2")
  /\ UNCHANGED <<sess, ctty, fds>>

Fork2(p) == At(p, "fork2") /\ Fork(p, "closeall")

\* Mutant: only the standard descriptors are closed.
CloseLimit_Standard == 3

\* chdir("/") and close() of every descriptor below the limit.
CloseLimit == IF RlimMax = Infinity THEN DefaultMax ELSE RlimMax

CloseAll(p) ==
  /\ At(p, "closeall")
  /\ fds' = [fds EXCEPT ![p] = [d \in Fd |-> IF d < CloseLimit THEN "none" ELSE @[d]]]
  /\ Goto(p, "opennull")
  /\ UNCHANGED <<sess, ctty, ignhup>>

\* open("/dev/null") and two dup()s take the lowest free descriptors the
\* limit allows; when open() fails the dup()s fail with it.
Openable(t)   == {d \in Fd : t[d] = "none" /\ (RlimMax = Infinity \/ d < RlimMax)}
Lowest(S, n)  == {d \in S : Cardinality({e \in S : e < d}) < n}

OpenNull(p, next) ==
  /\ At(p, "opennull")
  /\ \/ LET null == Lowest(Openable(fds[p]), 3)
        IN  fds' = [fds EXCEPT ![p] = [d \in Fd |-> IF d \in null THEN "null" ELSE @[d]]]
     \/ UNCHANGED fds
  /\ Goto(p, next)
  /\ UNCHANGED <<sess, ctty, ignhup>>

\* fd0 != 0 || fd1 != 1 || fd2 != 2 exits.
StdOnNull(p) == \A d \in 0..2 : fds[p][d] = "null"

CheckFds(p) ==
  /\ At(p, "check")
  /\ Goto(p, IF StdOnNull(p) THEN "daemon" ELSE "gone")
  /\ UNCHANGED <<sess, ctty, ignhup, fds>>

------------------------------------------------------------------------------
(* What happens to the processes from outside *)

\* A failed call that exits, the end of main(), or a signal that kills.
Exit(p) ==
  /\ Alive(p)
  /\ Goto(p, "gone")
  /\ UNCHANGED <<sess, ctty, ignhup, fds>>

\* The terminal of session s goes away: SIGHUP for those who run in it.
Hangup(s) ==
  /\ s \in ctty
  /\ ctty' = ctty \ {s}
  /\ pc' = [p \in Procs |-> IF Alive(p) /\ sess[p] = s /\ p \notin ignhup
                           THEN "gone" ELSE pc[p]]
  /\ UNCHANGED <<sess, ignhup, fds>>

\* The daemon's own work opens a terminal device; a session leader without a
\* terminal makes it its controlling terminal.
OpenTty(p) ==
  /\ At(p, "daemon")
  /\ \E d \in Lowest(Openable(fds[p]), 1) : fds' = [fds EXCEPT ![p][d] = "tty"]
  /\ ctty' = IF sess[p] = p THEN ctty \cup {p} ELSE ctty
  /\ UNCHANGED <<pc, sess, ignhup>>

------------------------------------------------------------------------------
(* What must hold *)

\* The steps of the three generations; no process does another's.
LauncherSteps == {"start", "fork1"}
LeaderSteps   == {"setsid", "sigaction", "fork2"}
DaemonSteps   == {"closeall", "opennull", "check", "daemon"}

TypeOK ==
  /\ pc \in [Procs -> Dead \cup LauncherSteps \cup LeaderSteps \cup DaemonSteps]
  /\ \A l \in Launches : /\ pc[<<l, 1>>] \in Dead \cup LauncherSteps
                         /\ pc[<<l, 2>>] \in Dead \cup LeaderSteps
                         /\ pc[<<l, 3>>] \in Dead \cup DaemonSteps
  /\ sess \in [Procs -> Sessions]
  /\ ctty \subseteq Sessions
  /\ ignhup \subseteq Procs
  /\ fds \in [Procs -> [Fd -> Targets]]

\* Rules 2 and 3 at lines 17-25: a daemon has no controlling terminal, not
\* even after it opened a terminal device, and it left the login session.
DaemonHasNoTty ==
  \A p \in Procs : At(p, "daemon") => sess[p] \notin ctty /\ sess[p] # Login

\* Rule 6 at lines 34-36: the standard descriptors of a daemon are /dev/null.
DaemonOnNull == \A p \in Procs : At(p, "daemon") => StdOnNull(p)

\* Rule 5 at lines 31-33: closing every descriptor prevents the daemon from
\* holding open any it inherited.
NoInheritedDescriptor ==
  \A p \in Procs : At(p, "daemon") => \A d \in Fd : fds[p][d] # "inherited"

==============================================================================
