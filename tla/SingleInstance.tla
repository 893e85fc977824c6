---------------------------- MODULE SingleInstance ----------------------------
(***************************************************************************)
(* 13-daemon/4-single/single.c: daemonize() with already_running() called  *)
(* in the final child.  A write lock on the whole of daemon.pid says that  *)
(* a copy is running; the file itself holds the pid of that copy and is    *)
(* never removed.  The kernel drops the lock when its owner is gone, and a *)
(* forked child does not inherit it.                                       *)
(***************************************************************************)
EXTENDS Integers, FiniteSets

CONSTANTS Launches, MaxFd, Inherited, RlimMax, Infinity, DefaultMax,
          NoProc   \* owner of a lock that is free

VARIABLES pc, sess, ctty, ignhup, fds, \* as in Daemonize
          owner,                       \* process that holds the write lock
          pidfile                      \* Absent, Empty or the pid in it

D == INSTANCE Daemonize

vars == <<pc, sess, ctty, ignhup, fds, owner, pidfile>>

ASSUME SingleInstanceAssumption ==
  /\ MaxFd \in Nat /\ MaxFd >= 3
  /\ Inherited \subseteq 0..(MaxFd - 1)
  /\ RlimMax \in Nat \cup {Infinity} /\ Infinity \notin Nat
  /\ DefaultMax \in Nat
  /\ NoProc \notin D!Procs

Procs  == D!Procs
Absent == <<"absent", 0>>   \* there is no daemon.pid
Empty  == <<"empty", 0>>    \* created or truncated

Init == D!Init /\ owner = NoProc /\ pidfile = Absent

\* The lock goes with the process that holds it.
Release == owner' = IF owner # NoProc /\ pc'[owner] \in {"gone", "refused"}
                    THEN NoProc ELSE owner

\* A step that has nothing to do with the lock file.
Plain(A) == A /\ Release /\ UNCHANGED pidfile

------------------------------------------------------------------------------
(* already_running() *)

\* Mutant: open() with O_TRUNC as well.
OpenLockFile_Truncates(p) ==
  /\ D!At(p, "openlock")
  /\ \E d \in D!Lowest(D!Openable(fds[p]), 1) : fds' = [fds EXCEPT ![p][d] = "lockfile"]
  /\ pidfile' = Empty
  /\ D!Goto(p, "lock")
  /\ UNCHANGED <<sess, ctty, ignhup, owner>>

\* Mutant: O_EXCL, and a file that exists is taken for a running daemon.
OpenLockFile_Exclusive(p) ==
  /\ D!At(p, "openlock")
  /\ pidfile' = IF pidfile = Absent THEN Empty ELSE pidfile
  /\ D!Goto(p, IF pidfile = Absent THEN "lock" ELSE "refused")
  /\ UNCHANGED <<sess, ctty, ignhup, fds, owner>>

\* open(LOCKFILE, O_RDWR | O_CREAT): the file keeps what is in it.
OpenLockFile(p) ==
  /\ D!At(p, "openlock")
  /\ \E d \in D!Lowest(D!Openable(fds[p]), 1) : fds' = [fds EXCEPT ![p][d] = "lockfile"]
  /\ pidfile' = IF pidfile = Absent THEN Empty ELSE pidfile
  /\ D!Goto(p, "lock")
  /\ UNCHANGED <<sess, ctty, ignhup, owner>>

\* Mutant: F_RDLCK, which any number of processes can hold.
Lockable_Shared(p) == TRUE

\* lockfile(): F_SETLK with F_WRLCK, refused while another process holds it.
Lockable(p) == owner \in {NoProc, p}

Lock(p) ==
  /\ D!At(p, "lock") /\ Lockable(p)
  /\ owner' = p
  /\ D!Goto(p, "truncate")
  /\ UNCHANGED <<sess, ctty, ignhup, fds, pidfile>>

\* EACCES or EAGAIN: close the descriptor, return 1, exit(1).
AlreadyRunning(p) ==
  /\ D!At(p, "lock") /\ ~Lockable(p)
  /\ fds' = [fds EXCEPT ![p] = [d \in D!Fd |-> IF @[d] = "lockfile" THEN "none" ELSE @[d]]]
  /\ D!Goto(p, "refused")
  /\ UNCHANGED <<sess, ctty, ignhup, owner, pidfile>>

Truncate(p) ==
  /\ D!At(p, "truncate")
  /\ pidfile' = Empty
  /\ D!Goto(p, "write")
  /\ UNCHANGED <<sess, ctty, ignhup, fds, owner>>

\* Mutant: the pid was taken before the second fork().
WritePid_Early(p) ==
  /\ D!At(p, "write")
  /\ pidfile' = <<p[1], 2>>
  /\ D!Goto(p, "check")
  /\ UNCHANGED <<sess, ctty, ignhup, fds, owner>>

WritePid(p) ==
  /\ D!At(p, "write")
  /\ pidfile' = p
  /\ D!Goto(p, "check")
  /\ UNCHANGED <<sess, ctty, ignhup, fds, owner>>

------------------------------------------------------------------------------
Next ==
  \/ \E l \in Launches : Plain(D!Launch(l))
  \/ \E p \in Procs :
       \/ Plain(D!Start(p)) \/ Plain(D!Fork1(p)) \/ Plain(D!Setsid(p))
       \/ Plain(D!IgnoreHup(p)) \/ Plain(D!Fork2(p)) \/ Plain(D!CloseAll(p))
       \/ Plain(D!OpenNull(p, "openlock"))
       \/ OpenLockFile(p) \/ Lock(p) \/ AlreadyRunning(p) \/ Truncate(p) \/ WritePid(p)
       \/ Plain(D!CheckFds(p)) \/ Plain(D!OpenTty(p))
       \/ pc[p] # "refused" /\ Plain(D!Exit(p))
  \/ \E s \in D!Sessions : Plain(D!Hangup(s))

Spec == Init /\ [][Next]_vars

------------------------------------------------------------------------------
(* What must hold *)

\* The steps of the three generations; no process does another's.
LauncherSteps == {"start", "fork1"}
LeaderSteps   == {"setsid", "sigaction", "fork2"}
DaemonSteps   == {"closeall", "opennull", "openlock", "lock", "refused",
                   "truncate", "write", "check", "daemon"}

TypeOK ==
  /\ pc \in [Procs -> D!Dead \cup LauncherSteps \cup LeaderSteps \cup DaemonSteps]
  /\ \A l \in Launches : /\ pc[<<l, 1>>] \in D!Dead \cup LauncherSteps
                         /\ pc[<<l, 2>>] \in D!Dead \cup LeaderSteps
                         /\ pc[<<l, 3>>] \in D!Dead \cup DaemonSteps
  /\ fds \in [Procs -> [D!Fd -> D!Targets]]
  /\ owner \in (Launches \X {3}) \cup {NoProc}
  /\ pidfile \in (Launches \X {3}) \cup {Absent, Empty}

\* Processes that got the lock and are still there.
Running == {p \in Procs : pc[p] \in {"truncate", "write", "check", "daemon"}}

\* Lines 39-46 and 162-176: only one copy of the daemon is running, and it is
\* the one that holds the lock.
OneDaemon == \A p \in Running : owner = p

\* A copy that runs is the one whose pid is in the file, whatever other
\* copies opened the file, were refused, or died half way through writing it.
PidFileNamesDaemon ==
  \A p \in Procs : pc[p] \in {"check", "daemon"} => pidfile = p

\* A copy gives up as already running only while another one is alive with
\* the lock: the file that a dead daemon leaves behind keeps nobody out.
RefusedByTheLiving ==
  [][\A p \in Procs : pc[p] # "refused" /\ pc'[p] = "refused" => Running \ {p} # {}]_vars

\* Rules 2 and 3 of the coding rules: a daemon has no controlling terminal,
\* not even after it has opened a terminal device.  Rules 5 and 6: it holds
\* nothing it inherited, has 0, 1 and 2 on /dev/null whatever it opens later,
\* and among its descriptors one lock file.
DaemonDetached ==
  /\ D!DaemonHasNoTty /\ D!DaemonOnNull /\ D!NoInheritedDescriptor
  /\ \A p \in Running : Cardinality({d \in D!Fd : fds[p][d] = "lockfile"}) = 1

\* The lock file makes the daemons exclude each other.
Mutex == INSTANCE Exclusive WITH inside <- Running
ImplementsExclusive == Mutex!Spec
==============================================================================
