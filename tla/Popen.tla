-------------------------------- MODULE Popen --------------------------------
(***************************************************************************)
(* popen_l() and pclose_l() of 15-ipc/4-popen/popen.c: one parent process, *)
(* the children it forks and the commands they become.  Child and pipe of  *)
(* the c-th call are both named c, so pid c and the two ends <<c, "r">> and*)
(* <<c, "w">> belong to call c.  A descriptor table maps each descriptor   *)
(* to what it refers to; pipe buffers and their contents are left out: a   *)
(* command ends when its stream hangs up, or whenever it likes.            *)
(***************************************************************************)
EXTENDS Integers, FiniteSets

CONSTANTS MaxFd,         \* size of a descriptor table and of childpid[]
          MaxCalls,      \* bound: number of popen_l() calls
          MaxInterrupts, \* bound: number of waitpid() calls that fail with EINTR
          StdOpen        \* descriptors among 0..2 open when the program starts

ASSUME PopenAssumption ==
  /\ MaxFd \in Nat /\ MaxFd >= 3
  /\ MaxCalls \in Nat
  /\ MaxInterrupts \in Nat
  /\ StdOpen \subseteq 0..2

Fd    == 0..(MaxFd - 1)
Calls == 1..MaxCalls
Types == {"r", "w"}
End   == Calls \X Types       \* the read and write end of each pipe
Free  == <<0, "free">>        \* nothing open on this descriptor
File  == <<0, "file">>        \* a file or terminal the model does not look into
Refs  == End \cup {Free, File}
Tables == [Fd -> Refs]

VARIABLES fdt,        \* the parent's descriptor table
          childpid,   \* static pid_t *childpid, 0 where no stream
          allocated,  \* childpid # NULL
          type,       \* the type argument of each call
          ncalls,     \* number of calls that got as far as pipe()
          kid,        \* the child of each call: state, its table, its childpid[]
          pc,         \* where the parent is in popen_l() or pclose_l()
          cur,        \* the call pc is about
          result,     \* what the caller was told about each call
          interrupts  \* number of interrupted waitpid() calls so far

vars == <<fdt, childpid, allocated, type, ncalls, kid, pc, cur, result, interrupts>>

PC      == {"idle", "piped", "forked", "fclose", "waitpid"}
KidPC   == {"none", "forked", "plumbed", "running", "zombie", "reaped"}
Results == {"none", "open", "closing", "status", "ECHILD", "EPIPE", "noforks", "nostream"}
NoTable == [d \in Fd |-> Free]
NoPids  == [d \in Fd |-> 0]
NoKid   == [st |-> "none", fds |-> NoTable, pids |-> NoPids]

TypeOK ==
  /\ fdt \in Tables
  /\ childpid \in [Fd -> 0..MaxCalls]
  /\ allocated \in BOOLEAN
  /\ type \in [Calls -> Types]
  /\ ncalls \in 0..MaxCalls
  /\ kid \in [Calls -> [st : KidPC, fds : Tables, pids : [Fd -> 0..MaxCalls]]]
  /\ pc \in PC
  /\ cur \in 0..MaxCalls
  /\ pc # "idle" => cur \in Calls
  /\ result \in [Calls -> Results]
  /\ interrupts \in 0..MaxInterrupts

------------------------------------------------------------------------------
(* Descriptor tables, as the kernel keeps them. *)

\* open() and pipe() take the lowest free descriptors.
FreeFds(t) == {d \in Fd : t[d] = Free}
IsLowest(d, S) == d \in S /\ \A e \in S : d <= e

\* The descriptor of table t that refers to end e.
FdOf(t, e) == CHOOSE d \in Fd : t[d] = e

Closed(t, d)    == [t EXCEPT ![d] = Free]
Dup2(t, d, new) == [t EXCEPT ![new] = t[d]]

\* The end the caller's stream is on, and the one the command works with.
Other(ty)     == IF ty = "r" THEN "w" ELSE "r"
StreamEnd(c)  == <<c, type[c]>>
CommandEnd(c) == <<c, Other(type[c])>>

\* The descriptor the command uses: standard output for "r", input for "w".
StdFd(c) == IF type[c] = "r" THEN 1 ELSE 0

Holds(t, e) == \E d \in Fd : t[d] = e

\* Nobody has the caller's end of pipe c open: the command reads end of file
\* or is told that nobody will read what it writes.
HungUp(c) == /\ ~Holds(fdt, StreamEnd(c))
             /\ \A k \in Calls : ~Holds(kid[k].fds, StreamEnd(c))

------------------------------------------------------------------------------
(* popen_l() *)

Init ==
  /\ fdt = [d \in Fd |-> IF d \in StdOpen THEN File ELSE Free]
  /\ childpid = NoPids
  /\ allocated = FALSE
  /\ type = [c \in Calls |-> "r"]
  /\ ncalls = 0
  /\ kid = [c \in Calls |-> NoKid]
  /\ pc = "idle"
  /\ cur = 0
  /\ result = [c \in Calls |-> "none"]
  /\ interrupts = 0

\* Array allocation on the first call, then pipe(); a bad type returns before
\* it changes anything and is not an action.
PopenPipe(ty) ==
  /\ pc = "idle" /\ ncalls < MaxCalls
  /\ allocated' = TRUE
  /\ \E r, w \in Fd :
       /\ IsLowest(r, FreeFds(fdt))
       /\ IsLowest(w, FreeFds(fdt) \ {r})
       /\ fdt' = [fdt EXCEPT ![r] = <<ncalls + 1, "r">>, ![w] = <<ncalls + 1, "w">>]
  /\ ncalls' = ncalls + 1
  /\ cur' = ncalls + 1
  /\ type' = [type EXCEPT ![ncalls + 1] = ty]
  /\ pc' = "piped"
  /\ UNCHANGED <<childpid, kid, result, interrupts>>

\* pipe() fails because fewer than two descriptors are free: the array stays.
PopenNoPipe ==
  /\ pc = "idle"
  /\ Cardinality(FreeFds(fdt)) < 2
  /\ allocated' = TRUE
  /\ UNCHANGED <<fdt, childpid, type, ncalls, kid, pc, cur, result, interrupts>>

PopenFork ==
  /\ pc = "piped"
  /\ kid' = [kid EXCEPT ![cur] = [st |-> "forked", fds |-> fdt, pids |-> childpid]]
  /\ pc' = "forked"
  /\ UNCHANGED <<fdt, childpid, allocated, type, ncalls, cur, result, interrupts>>

\* Mutant: the failure of fork() goes unnoticed and -1 is recorded as a pid.
PopenNoFork_Unchecked ==
  /\ pc = "piped"
  /\ childpid' = [childpid EXCEPT ![FdOf(fdt, StreamEnd(cur))] = -1]
  /\ pc' = "idle"
  /\ UNCHANGED <<fdt, allocated, type, ncalls, kid, cur, result, interrupts>>

\* fork() fails: NULL is returned and both ends stay open in the parent.
PopenNoFork ==
  /\ pc = "piped"
  /\ result' = [result EXCEPT ![cur] = "noforks"]
  /\ pc' = "idle"
  /\ UNCHANGED <<fdt, childpid, allocated, type, ncalls, kid, cur, interrupts>>

\* Parent: close the command's end, fdopen() the other, remember the child.
PopenParent ==
  /\ pc = "forked"
  /\ LET fp == FdOf(fdt, StreamEnd(cur))
     IN  childpid' = [childpid EXCEPT ![fp] = cur]
  /\ fdt' = Closed(fdt, FdOf(fdt, CommandEnd(cur)))
  /\ result' = [result EXCEPT ![cur] = "open"]
  /\ pc' = "idle"
  /\ UNCHANGED <<allocated, type, ncalls, kid, cur, interrupts>>

\* fdopen() fails: NULL is returned, the caller's end and the child remain.
PopenNoStream ==
  /\ pc = "forked"
  /\ fdt' = Closed(fdt, FdOf(fdt, CommandEnd(cur)))
  /\ result' = [result EXCEPT ![cur] = "nostream"]
  /\ pc' = "idle"
  /\ UNCHANGED <<childpid, allocated, type, ncalls, kid, cur, interrupts>>

------------------------------------------------------------------------------
(* The child between fork() and execl(), working on its own copies. *)

SetKid(c, st, t) == kid' = [kid EXCEPT ![c].st = st, ![c].fds = t]

\* Mutant: the child does not close the caller's end of its own pipe.
Plumbed_KeepsStreamEnd(t, c) ==
  LET d == FdOf(t, CommandEnd(c))
  IN  IF d = StdFd(c) THEN t ELSE Closed(Dup2(t, d, StdFd(c)), d)

\* Mutant: close() before dup2(), which then has nothing to duplicate.
Plumbed_ClosesFirst(t, c) ==
  Closed(Closed(t, FdOf(t, StreamEnd(c))), FdOf(t, CommandEnd(c)))

\* close() the caller's end, move the other one to the standard descriptor.
Plumbed(t, c) ==
  LET u == Closed(t, FdOf(t, StreamEnd(c)))
      d == FdOf(t, CommandEnd(c))
  IN  IF d = StdFd(c) THEN u ELSE Closed(Dup2(u, d, StdFd(c)), d)

ChildPlumb(c) ==
  /\ kid[c].st = "forked"
  /\ SetKid(c, "plumbed", Plumbed(kid[c].fds, c))
  /\ UNCHANGED <<fdt, childpid, allocated, type, ncalls, pc, cur, result, interrupts>>

\* Mutant: the child keeps the streams of earlier calls.
WithoutStreams_Kept(t, pids) == t

\* for (i = 0; i < maxfd; ++i) if (childpid[i] > 0) close(i);
WithoutStreams(t, pids) == [d \in Fd |-> IF pids[d] > 0 THEN Free ELSE t[d]]

ChildCloseStreams(c) ==
  /\ kid[c].st = "plumbed"
  /\ SetKid(c, "running", WithoutStreams(kid[c].fds, kid[c].pids))
  /\ UNCHANGED <<fdt, childpid, allocated, type, ncalls, pc, cur, result, interrupts>>

\* The command closes its end of the pipe and goes on.
CommandClosesEnd(c) ==
  /\ kid[c].st = "running"
  /\ kid[c].fds[StdFd(c)] = CommandEnd(c)
  /\ SetKid(c, "running", Closed(kid[c].fds, StdFd(c)))
  /\ UNCHANGED <<fdt, childpid, allocated, type, ncalls, pc, cur, result, interrupts>>

\* The command (or _exit(127) after a failed execl()) terminates.
CommandExit(c) ==
  /\ kid[c].st = "running"
  /\ SetKid(c, "zombie", NoTable)
  /\ UNCHANGED <<fdt, childpid, allocated, type, ncalls, pc, cur, result, interrupts>>

------------------------------------------------------------------------------
(* pclose_l() *)

\* Mutant: childpid[fd] is not reset.
PcloseBegin_KeepsEntry(d) ==
  /\ pc = "idle" /\ allocated
  /\ childpid[d] # 0
  /\ cur' = childpid[d]
  /\ result' = [result EXCEPT ![childpid[d]] = "closing"]
  /\ pc' = "fclose"
  /\ UNCHANGED <<fdt, childpid, allocated, type, ncalls, kid, interrupts>>

\* On a stream of popen_l(): forget the child, then fclose() and wait.
PcloseBegin(d) ==
  /\ pc = "idle" /\ allocated
  /\ childpid[d] # 0
  /\ cur' = childpid[d]
  /\ childpid' = [childpid EXCEPT ![d] = 0]
  /\ result' = [result EXCEPT ![childpid[d]] = "closing"]
  /\ pc' = "fclose"
  /\ UNCHANGED <<fdt, allocated, type, ncalls, kid, interrupts>>

PcloseFclose ==
  /\ pc = "fclose"
  /\ fdt' = Closed(fdt, FdOf(fdt, StreamEnd(cur)))
  /\ pc' = "waitpid"
  /\ UNCHANGED <<childpid, allocated, type, ncalls, kid, cur, result, interrupts>>

\* Flushing the last data fails, as nobody reads the pipe any more: fclose()
\* closes the descriptor all the same and pclose_l() returns -1 at once.
PcloseFlushFails ==
  /\ pc = "fclose" /\ type[cur] = "w"
  /\ \A k \in Calls : ~Holds(kid[k].fds, CommandEnd(cur))
  /\ fdt' = Closed(fdt, FdOf(fdt, StreamEnd(cur)))
  /\ result' = [result EXCEPT ![cur] = "EPIPE"]
  /\ pc' = "idle"
  /\ UNCHANGED <<childpid, allocated, type, ncalls, kid, cur, interrupts>>

\* Mutant: waitpid() with WNOHANG, taken as done when nothing has exited yet.
PcloseReap_NoHang ==
  /\ pc = "waitpid"
  /\ result' = [result EXCEPT ![cur] = "status"]
  /\ pc' = "idle"
  /\ UNCHANGED <<fdt, childpid, allocated, type, ncalls, kid, cur, interrupts>>

PcloseReap ==
  /\ pc = "waitpid" /\ kid[cur].st = "zombie"
  /\ kid' = [kid EXCEPT ![cur].st = "reaped"]
  /\ result' = [result EXCEPT ![cur] = "status"]
  /\ pc' = "idle"
  /\ UNCHANGED <<fdt, childpid, allocated, type, ncalls, cur, interrupts>>

\* Mutant: any error of waitpid() is returned, EINTR too.
PcloseInterrupted_Returns ==
  /\ pc = "waitpid" /\ interrupts < MaxInterrupts
  /\ interrupts' = interrupts + 1
  /\ result' = [result EXCEPT ![cur] = "ECHILD"]
  /\ pc' = "idle"
  /\ UNCHANGED <<fdt, childpid, allocated, type, ncalls, kid, cur>>

\* A caught signal interrupts waitpid(): call it again.
PcloseInterrupted ==
  /\ pc = "waitpid" /\ interrupts < MaxInterrupts
  /\ interrupts' = interrupts + 1
  /\ UNCHANGED <<fdt, childpid, allocated, type, ncalls, kid, pc, cur, result>>

\* The application has already waited for the child.
PcloseNoChild ==
  /\ pc = "waitpid" /\ kid[cur].st = "reaped"
  /\ result' = [result EXCEPT ![cur] = "ECHILD"]
  /\ pc' = "idle"
  /\ UNCHANGED <<fdt, childpid, allocated, type, ncalls, kid, cur, interrupts>>

------------------------------------------------------------------------------
(* The rest of the application *)

\* wait(), possibly from a handler of SIGCHLD, so at any point.
AppWait(c) ==
  /\ kid[c].st = "zombie"
  /\ kid' = [kid EXCEPT ![c].st = "reaped"]
  /\ UNCHANGED <<fdt, childpid, allocated, type, ncalls, pc, cur, result, interrupts>>

AppOpen ==
  /\ pc = "idle"
  /\ \E d \in Fd : IsLowest(d, FreeFds(fdt)) /\ fdt' = [fdt EXCEPT ![d] = File]
  /\ UNCHANGED <<childpid, allocated, type, ncalls, kid, pc, cur, result, interrupts>>

AppClose(d) ==
  /\ pc = "idle" /\ fdt[d] = File /\ d \notin StdOpen
  /\ fdt' = Closed(fdt, d)
  /\ UNCHANGED <<childpid, allocated, type, ncalls, kid, pc, cur, result, interrupts>>

------------------------------------------------------------------------------
Parent == \/ \E ty \in Types : PopenPipe(ty)
          \/ PopenNoPipe \/ PopenFork \/ PopenNoFork
          \/ PopenParent \/ PopenNoStream
          \/ \E d \in Fd : PcloseBegin(d)
          \/ PcloseFclose \/ PcloseFlushFails
          \/ PcloseReap \/ PcloseInterrupted \/ PcloseNoChild

Child == \E c \in Calls : \/ ChildPlumb(c) \/ ChildCloseStreams(c)
                          \/ CommandClosesEnd(c) \/ CommandExit(c)

App == \/ \E c \in Calls : AppWait(c)
       \/ AppOpen
       \/ \E d \in Fd : AppClose(d)

Next == Parent \/ Child \/ App

Spec == Init /\ [][Next]_vars

\* The scheduler runs every process; a command whose stream hung up ends.
Fairness ==
  /\ WF_vars(PopenFork \/ PopenNoFork)
  /\ WF_vars(PopenParent \/ PopenNoStream)
  /\ WF_vars(PcloseFclose \/ PcloseFlushFails)
  /\ WF_vars(PcloseReap \/ PcloseNoChild)
  /\ \A c \in Calls : /\ WF_vars(ChildPlumb(c))
                      /\ WF_vars(ChildCloseStreams(c))
                      /\ WF_vars(HungUp(c) /\ CommandExit(c))

FairSpec == Spec /\ Fairness
------------------------------------------------------------------------------
(* What must hold *)

\* childpid[] and the caller's streams agree: an entry is never stale, no two
\* entries name one child, and every open stream of popen_l() has its entry.
StreamsTracked ==
  /\ \A d \in Fd : childpid[d] # 0 =>
       /\ fdt[d] = StreamEnd(childpid[d])
       /\ result[childpid[d]] = "open"
       /\ kid[childpid[d]].st # "none"
  /\ \A c \in Calls : result[c] = "open" => \E d \in Fd : childpid[d] = c
  /\ \A d, e \in Fd : childpid[d] # 0 /\ childpid[d] = childpid[e] => d = e

\* A command holds no end of a pipe but its own, unless an earlier popen_l()
\* failed after pipe() and leaked that end (lines 70-72 and 115-121).
NoInheritedStream ==
  \A c \in Calls : kid[c].st = "running" =>
    \A d \in Fd : kid[c].fds[d] \in End =>
      \/ kid[c].fds[d] = CommandEnd(c) /\ d = StdFd(c)
      \/ result[kid[c].fds[d][1]] \in {"noforks", "nostream"}

\* No child becomes a zombie that nobody will wait for, other than those the
\* error returns of popen_l() and pclose_l() drop (lines 115-121, 160-161).
NoForgottenChild ==
  \A c \in Calls : kid[c].st \notin {"none", "reaped"} =>
    \/ \E d \in Fd : childpid[d] = c
    \/ pc \in {"forked", "fclose", "waitpid"} /\ cur = c
    \/ result[c] \in {"nostream", "EPIPE"}

\* What popen_l() has made, a stream or a child, is in childpid[] as long as it is there.
ChildrenTracked == StreamsTracked /\ NoForgottenChild

\* A command starts with its end of the pipe on its standard descriptor
\* although the child has just closed every descriptor listed in childpid[].
\* This needs 0 and 1 open in the parent, so that no stream is ever on them.
CommandOnPipe ==
  [][\A c \in Calls : kid[c].st = "plumbed" /\ kid'[c].st = "running" =>
       kid'[c].fds[StdFd(c)] = CommandEnd(c)]_vars

\* The comment at lines 140-142: pclose() does not return before the child
\* process created by popen() has terminated.
PcloseAfterTermination ==
  \A c \in Calls : result[c] \in {"status", "ECHILD", "EPIPE"} =>
                   kid[c].st \in {"zombie", "reaped"}

\* A caller in pclose_l() is not kept there for ever by the other children.
PcloseReturns == pc = "waitpid" ~> pc = "idle"

\* The stream and the command of each call behave as PopenSpec promises.
StreamOf(c) ==
  CASE result[c] = "status" -> "closed"
    [] result[c] = "ECHILD" -> "unavailable"
    [] result[c] \in {"nostream", "EPIPE"} -> "lost"
    [] result[c] = "noforks" -> "none"
    [] OTHER -> result[c]
CommandOf(c) ==
  CASE kid[c].st = "none"   -> "none"
    [] kid[c].st = "zombie" -> "exited"
    [] kid[c].st = "reaped" -> "collected"
    [] OTHER -> "running"
Abstract == INSTANCE PopenSpec WITH stream  <- [c \in Calls |-> StreamOf(c)],
                                    command <- [c \in Calls |-> CommandOf(c)]
ImplementsPopenSpec == Abstract!Spec
==============================================================================
