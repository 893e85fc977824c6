----------------------------- MODULE UptimeServer -----------------------------
(***************************************************************************)
(* 16-netipc/12-sendrecv/uptimesrv.c: the server that sends the output of  *)
(* popen("uptime") over the accepted connection.  It exits after the first *)
(* client and may be started again; daemonize() is in module Daemonize.    *)
(***************************************************************************)
EXTENDS UptimeClient

CONSTANTS MaxStarts,  \* bound on how often the server is started
          None        \* no client

VARIABLES srv,     \* what the server does next
          conn,    \* the client it serves, or None
          starts   \* how often it was started

srvVars == <<srv, conn, starts>>
vars == <<cl, nsecs, netVars, srvVars>>

Init == ClientInit /\ srv = "down" /\ conn = None /\ starts = 0

Goto(from, to) == srv = from /\ srv' = to

\* End of the server process: its connection is at end of file, the queue is
\* reset.
ServerExit(how) ==
  /\ srv' = "down" /\ conn' = None
  /\ StopListening(IF conn = None THEN chan ELSE [chan EXCEPT ![conn].end = how])
  /\ UNCHANGED <<cl, nsecs, starts>>

------------------------------------------------------------------------------
\* main() up to initserver(); bind() may fail (the address is still in use),
\* and the program exits.
Start ==
  /\ Goto("down", "accept") /\ starts < MaxStarts
  /\ starts' = starts + 1
  /\ listening' = TRUE
  /\ UNCHANGED <<cl, nsecs, queue, chan, conn>>

StartFails ==
  /\ srv = "down" /\ starts < MaxStarts
  /\ starts' = starts + 1
  /\ UNCHANGED <<cl, nsecs, netVars, srv, conn>>

Accept ==
  /\ Goto("accept", "popen") /\ queue # <<>>
  /\ conn' = Head(queue)
  /\ queue' = Tail(queue)
  /\ UNCHANGED <<cl, nsecs, listening, chan, starts>>

Popen == Goto("popen", "send") /\ UNCHANGED <<cl, nsecs, netVars, conn, starts>>

\* popen() returns NULL, which is not < 0: fgets() on it is a crash.
PopenFails == srv = "popen" /\ ServerExit("cut")

Send ==
  /\ Goto("send", "send")
  /\ chan[conn].sent < Chunks
  /\ chan' = [chan EXCEPT ![conn].sent = @ + 1]
  /\ UNCHANGED <<cl, nsecs, listening, queue, conn, starts>>

\* The client has gone: SIGPIPE, which nobody catches.
SendBroken ==
  /\ srv = "send" /\ cl[conn] = "gone"
  /\ chan[conn].sent < Chunks
  /\ ServerExit("cut")

\* Mutant: the connection is not given up.
SendEnds_Leaks ==
  /\ Goto("send", "accept") /\ chan[conn].sent = Chunks
  /\ UNCHANGED <<cl, nsecs, netVars, conn, starts>>

\* Mutant: back to accept() instead of exit(0).
SendEnds_Loops ==
  /\ Goto("send", "accept") /\ chan[conn].sent = Chunks
  /\ chan' = [chan EXCEPT ![conn].end = "closed"]
  /\ conn' = None
  /\ UNCHANGED <<cl, nsecs, listening, queue, starts>>

\* End of the output: pclose(), close(connfd) and exit(0).
SendEnds == srv = "send" /\ chan[conn].sent = Chunks /\ ServerExit("closed")

Killed == srv # "down" /\ ServerExit("cut")

------------------------------------------------------------------------------
Client(c) == ClientStep(c) /\ UNCHANGED srvVars

Server == Accept \/ Popen \/ PopenFails \/ Send \/ SendBroken \/ SendEnds

Next ==
  \/ Server \/ Start \/ StartFails \/ Killed
  \/ \E c \in Clients : Client(c) \/ (ClientDies(c) /\ UNCHANGED srvVars)

Spec == Init /\ [][Next]_vars

\* The processes are scheduled; nobody has to start the server.
FairSpec == Spec /\ WF_vars(Server) /\ \A c \in Clients : WF_vars(Client(c))

------------------------------------------------------------------------------
TypeOK ==
  /\ ClientTypeOK
  /\ srv \in {"down", "accept", "popen", "send"}
  /\ conn \in Clients \cup {None}
  /\ starts \in 0..MaxStarts
  /\ (conn = None <=> srv \in {"down", "accept"})
  /\ (listening <=> srv # "down")

\* Lines 129-130: a start of the server answers one client at most; the others
\* that have connected by then are turned away.
OneAnswerPerStart ==
  Cardinality({c \in Clients : chan[c].end = "closed"}) + (IF srv = "down" THEN 0 ELSE 1) <= starts
==============================================================================
