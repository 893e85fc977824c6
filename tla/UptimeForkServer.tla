--------------------------- MODULE UptimeForkServer ---------------------------
(***************************************************************************)
(* 16-netipc/13-othersrv/uptimesrv.c: the server forks a child that runs   *)
(* uptime with its standard output on the connection, waits for it and     *)
(* exits.  A child whose execl() fails goes round the loop as a server.    *)
(***************************************************************************)
EXTENDS UptimeClient

CONSTANTS MaxProcs  \* bound on the processes forked, the server included

Procs == 1..MaxProcs

VARIABLES proc,     \* what each process of the server does next
          child,    \* the child a process waits for, or 0
          connfds,  \* connections a process has open as connfd
          fds,      \* its descriptors 0, 1, 2: {} for /dev/null or {client}
          fallen    \* an execl() has returned

srvVars == <<proc, child, connfds, fds, fallen>>
vars == <<cl, nsecs, netVars, srvVars>>

\* daemonize() leaves 0, 1 and 2 on /dev/null.
StdNull == [d \in 0..2 |-> {}]

Init ==
  /\ ClientInit
  /\ proc = [p \in Procs |-> "none"]
  /\ child = [p \in Procs |-> 0]
  /\ connfds = [p \in Procs |-> {}]
  /\ fds = [p \in Procs |-> StdNull]
  /\ fallen = FALSE

Goto(p, from, to) == proc[p] = from /\ proc' = [proc EXCEPT ![p] = to]
Alive(p)          == proc[p] \notin {"none", "zombie", "gone"}

\* Connections that process p keeps open.
Holds(p) == IF Alive(p) THEN connfds[p] \cup UNION {fds[p][d] : d \in 0..2} ELSE {}

\* What the kernel does after a step of the server: a connection that its last
\* holder has given up is at end of file, and the listening socket, which
\* every process inherits, goes with the last process.
KernelCloses ==
  LET Held == UNION {Holds(p) : p \in Procs}
      ch   == [c \in Clients |->
                 IF c \in Held /\ c \notin Held'
                 THEN [chan[c] EXCEPT !.end = IF @ = "open" THEN "closed" ELSE @] ELSE chan[c]]
  IN  IF \E p \in Procs : Alive(p)' THEN chan' = ch /\ UNCHANGED <<listening, queue>>
                                    ELSE StopListening(ch)

\* exit(): the process stays as a zombie while its parent lives.
Dead(p) == IF \E q \in Procs : Alive(q) /\ child[q] = p THEN "zombie" ELSE "gone"
Exit(p) == /\ proc' = [q \in Procs |-> IF q = p THEN Dead(p)
                                       ELSE IF q = child[p] /\ proc[q] = "zombie" THEN "gone"
                                       ELSE proc[q]]
           /\ UNCHANGED <<child, connfds, fds, fallen>>

------------------------------------------------------------------------------
(* serve() *)

Start ==
  /\ Goto(1, "none", "accept")
  /\ listening' = TRUE
  /\ UNCHANGED <<queue, chan, child, connfds, fds, fallen>>

Accept(p) ==
  /\ Goto(p, "accept", "fork") /\ queue # <<>>
  /\ connfds' = [connfds EXCEPT ![p] = @ \cup {Head(queue)}]
  /\ queue' = Tail(queue)
  /\ UNCHANGED <<listening, chan, child, fds, fallen>>

\* The child is a copy of process p; the parent goes on to close(connfd).
Fork(p) ==
  /\ proc[p] = "fork"
  /\ \E q \in Procs :
       /\ proc[q] = "none" /\ \A r \in 1..(q - 1) : proc[r] # "none"
       /\ proc' = [proc EXCEPT ![p] = "close", ![q] = "plumb"]
       /\ child' = [child EXCEPT ![p] = q]
       /\ connfds' = [connfds EXCEPT ![q] = connfds[p]]
       /\ fds' = [fds EXCEPT ![q] = fds[p]]
  /\ UNCHANGED fallen
  /\ KernelCloses

ForkFails(p) == proc[p] = "fork" /\ Exit(p) /\ KernelCloses

\* dup2(connfd, STDOUT_FILENO), and dup2(connfd, STDERR_FILENO !=
\* STDERR_FILENO), which is dup2(connfd, 0).
Plumb(q) ==
  /\ Goto(q, "plumb", "exec")
  /\ fds' = [fds EXCEPT ![q][1] = connfds[q], ![q][0] = connfds[q]]
  /\ UNCHANGED <<child, connfds, fallen>>
  /\ KernelCloses

PlumbFails(q) == proc[q] = "plumb" /\ Exit(q) /\ KernelCloses

\* Mutant: no close(connfd) in the child.
Exec_KeepsConn(q) ==
  /\ \/ Goto(q, "exec", "uptime") /\ UNCHANGED fallen
     \/ Goto(q, "exec", "accept") /\ fallen' = TRUE
  /\ UNCHANGED <<child, connfds, fds>>
  /\ KernelCloses

\* close(connfd) and execl(); when that returns the child is in the loop.
Exec(q) ==
  /\ \/ Goto(q, "exec", "uptime") /\ UNCHANGED fallen
     \/ Goto(q, "exec", "accept") /\ fallen' = TRUE
  /\ connfds' = [connfds EXCEPT ![q] = {}]
  /\ UNCHANGED <<child, fds>>
  /\ KernelCloses

ParentClose(p) ==
  /\ Goto(p, "close", "wait")
  /\ connfds' = [connfds EXCEPT ![p] = {}]
  /\ UNCHANGED <<child, fds, fallen>>
  /\ KernelCloses

\* Mutant: the server does not wait for its child.
WaitAndExit_Accepts(p) ==
  /\ Goto(p, "wait", "accept")
  /\ UNCHANGED <<child, connfds, fds, fallen>>
  /\ KernelCloses

\* waitpid(pid) and exit(0).
WaitAndExit(p) == proc[p] = "wait" /\ proc[child[p]] = "zombie" /\ Exit(p) /\ KernelCloses

------------------------------------------------------------------------------
(* uptime *)

UptimeWrites(q) ==
  /\ proc[q] = "uptime"
  /\ \E c \in fds[q][1] : chan[c].sent < Chunks /\ chan' = [chan EXCEPT ![c].sent = @ + 1]
  /\ UNCHANGED <<listening, queue, srvVars>>

UptimeEnds(q) ==
  /\ proc[q] = "uptime"
  /\ \A c \in fds[q][1] : chan[c].sent = Chunks \/ cl[c] = "gone"
  /\ Exit(q) /\ KernelCloses

------------------------------------------------------------------------------
Server(p) == \/ Accept(p) \/ Fork(p) \/ ForkFails(p) \/ Plumb(p) \/ PlumbFails(p) \/ Exec(p)
             \/ ParentClose(p) \/ WaitAndExit(p) \/ UptimeWrites(p) \/ UptimeEnds(p)

ServerStep(p) == Server(p) /\ UNCHANGED <<cl, nsecs>>
Client(c)     == ClientStep(c) /\ UNCHANGED srvVars

Next ==
  \/ Start /\ UNCHANGED <<cl, nsecs>>
  \/ \E p \in Procs : ServerStep(p)
  \/ \E c \in Clients : Client(c) \/ (ClientDies(c) /\ UNCHANGED srvVars)

Spec == Init /\ [][Next]_vars

FairSpec == /\ Spec
            /\ \A p \in Procs : WF_vars(ServerStep(p))
            /\ \A c \in Clients : WF_vars(Client(c))

------------------------------------------------------------------------------
TypeOK ==
  /\ ClientTypeOK
  /\ proc \in [Procs -> {"none", "accept", "fork", "plumb", "exec", "close", "wait", "uptime",
                         "zombie", "gone"}]
  /\ child \in [Procs -> 0..MaxProcs]
  /\ connfds \in [Procs -> SUBSET Clients]
  /\ fds \in [Procs -> [0..2 -> SUBSET Clients]]
  /\ fallen \in BOOLEAN
  /\ listening <=> \E p \in Procs : Alive(p)

\* uptime has the connection of one client open, the one it answers: nobody
\* waits for the end of another client's answer.  (Lines 118-138.)
OneConnection ==
  \A q \in Procs : proc[q] = "uptime" => \E c \in Clients : Holds(q) = {c} /\ fds[q][1] = {c}

\* Lines 144-152: a zombie always has a parent that waits for it or is about to; no
\* server goes on, and none ends, with a zombie of its own.
ZombiesAwaited ==
  \A q \in Procs : proc[q] = "zombie" =>
    \E p \in Procs : proc[p] \in {"close", "wait"} /\ child[p] = q

\* Every client comes to an end, unless a child fell out of execl() with the
\* client's connection as its standard output.
ClientsEndUnlessFallen == <>(fallen \/ ClientsOver)

\* Lines 118-127: the child has standard input on /dev/null and standard
\* output and standard error on the socket.  (The code does otherwise.)
StdOnSocket ==
  \A q \in Procs : proc[q] = "uptime" =>
    fds[q][0] = {} /\ \E c \in Clients : fds[q][1] = {c} /\ fds[q][2] = {c}
==============================================================================
