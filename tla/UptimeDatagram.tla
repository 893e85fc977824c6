---------------------------- MODULE UptimeDatagram ----------------------------
(***************************************************************************)
(* 16-netipc/14-connless: the uptime service over datagrams, which may be  *)
(* lost, doubled or late.  The client waits for one answer under an alarm; *)
(* the server answers one request and exits.                               *)
(***************************************************************************)
EXTENDS Naturals, FiniteSets

CONSTANTS Clients,   \* runs of the client program
          Lines,     \* lines uptime writes, one datagram each
          MaxStarts, \* bound on how often the server is started
          None

VARIABLES cl,      \* what each client does next
          alarm,   \* "off", "set" or "rung"
          early,   \* clients whose alarm rang before recvfrom() blocked
          printed, \* the line each client printed, or 0
          net,     \* datagrams on their way: [kind, c, line]
          srv,     \* what the server does next
          peer,    \* the client it answers
          line,    \* the lines it has sent
          starts   \* how often it was started

clVars  == <<cl, alarm, early, printed>>
srvVars == <<srv, peer, line, starts>>
vars    == <<clVars, net, srvVars>>

Init ==
  /\ cl = [c \in Clients |-> "send"]
  /\ alarm = [c \in Clients |-> "off"]
  /\ early = {}
  /\ printed = [c \in Clients |-> 0]
  /\ net = {}
  /\ srv = "down" /\ peer = None /\ line = 0 /\ starts = 0

Request(c)   == [kind |-> "request", c |-> c, line |-> 0]
Answer(c, l) == [kind |-> "answer", c |-> c, line |-> l]

\* Taking a datagram from the network may leave a second copy behind.
Taken(m) == net' \in {net, net \ {m}}
Lose(m)  == m \in net /\ net' = net \ {m} /\ UNCHANGED <<clVars, srvVars>>

ClientGo(c, from, to) == cl[c] = from /\ cl' = [cl EXCEPT ![c] = to]
AlarmTo(c, a)         == alarm' = [alarm EXCEPT ![c] = a]

------------------------------------------------------------------------------
(* print_uptime() of the client *)

\* sendto(); it and the getsockname() on either side of it may fail, and end
\* the program before or after the request is out.
SendRequest(c) ==
  /\ \/ ClientGo(c, "send", "done") /\ UNCHANGED net
     \/ /\ ClientGo(c, "send", "alarm") \/ ClientGo(c, "send", "done")
        /\ net' = net \cup {Request(c)}
  /\ UNCHANGED <<alarm, early, printed, srvVars>>

SetAlarm(c) ==
  /\ ClientGo(c, "alarm", "recv")
  /\ AlarmTo(c, "set")
  /\ UNCHANGED <<early, printed, net, srvVars>>

\* The alarm rings; sigalarm() does nothing.  A blocked recvfrom() is
\* interrupted, one that is still to come is not.
Ring(c) ==
  /\ alarm[c] = "set"
  /\ AlarmTo(c, IF cl[c] = "blocked" THEN "rung" ELSE "off")
  /\ early' = IF cl[c] = "recv" THEN early \cup {c} ELSE early
  /\ UNCHANGED <<cl, printed, net, srvVars>>

Block(c) ==
  /\ ClientGo(c, "recv", "blocked")
  /\ UNCHANGED <<alarm, early, printed, net, srvVars>>

\* recvfrom() returns the first datagram that is there.
Receive(c) ==
  /\ ClientGo(c, "blocked", "stop") /\ alarm[c] # "rung"
  /\ \E m \in net : /\ m.kind = "answer" /\ m.c = c
                    /\ Taken(m)
                    /\ printed' = [printed EXCEPT ![c] = m.line]
  /\ UNCHANGED <<alarm, early, srvVars>>

\* Mutant: recvfrom() is called again after EINTR.
Interrupted_Again(c) ==
  /\ ClientGo(c, "blocked", "blocked") /\ alarm[c] = "rung"
  /\ AlarmTo(c, "off")
  /\ UNCHANGED <<early, printed, net, srvVars>>

\* EINTR: return, without an alarm(0) the alarm no longer needs.
Interrupted(c) ==
  /\ ClientGo(c, "blocked", "done") /\ alarm[c] = "rung"
  /\ AlarmTo(c, "off")
  /\ UNCHANGED <<early, printed, net, srvVars>>

\* Another error of recvfrom(): alarm(0), and return.
RecvFails(c) ==
  /\ ClientGo(c, "blocked", "done") /\ alarm[c] = "set"
  /\ AlarmTo(c, "off")
  /\ UNCHANGED <<early, printed, net, srvVars>>

\* Mutant: no alarm(0) once the answer is there.
StopAlarm_Skipped(c) ==
  /\ ClientGo(c, "stop", "done")
  /\ UNCHANGED <<alarm, early, printed, net, srvVars>>

\* alarm(0), write() and return 0.
StopAlarm(c) ==
  /\ ClientGo(c, "stop", "done")
  /\ AlarmTo(c, "off")
  /\ UNCHANGED <<early, printed, net, srvVars>>

------------------------------------------------------------------------------
(* serve() of the server *)

ServerGo(from, to) == srv = from /\ srv' = to

Start ==
  /\ ServerGo("down", "recv") /\ starts < MaxStarts
  /\ starts' = starts + 1
  /\ UNCHANGED <<clVars, net, peer, line>>

TakeRequest ==
  /\ ServerGo("recv", "popen")
  /\ \E m \in net : m.kind = "request" /\ Taken(m) /\ peer' = m.c
  /\ UNCHANGED <<clVars, line, starts>>

\* recvfrom() fails: exit(1).
ServeFails ==
  /\ ServerGo("recv", "down")
  /\ UNCHANGED <<clVars, net, peer, line, starts>>

\* Mutant: the answer goes to whoever is waiting.
PopenAndSend_Anyone ==
  /\ ServerGo("popen", "popen") /\ line < Lines
  /\ line' = line + 1
  /\ \E c \in Clients : net' = net \cup {Answer(c, line + 1)}
  /\ UNCHANGED <<clVars, peer, starts>>

\* popen() and a sendto() for every line of its output.
PopenAndSend ==
  /\ ServerGo("popen", "popen") /\ line < Lines
  /\ line' = line + 1
  /\ net' = net \cup {Answer(peer, line + 1)}
  /\ UNCHANGED <<clVars, peer, starts>>

ServerEnd == srv' = "down" /\ peer' = None /\ line' = 0 /\ UNCHANGED <<clVars, starts>>

\* popen() failed: the message goes out as an answer, then pclose(NULL) is
\* the end of the server.
PopenFails ==
  /\ srv = "popen" /\ line = 0
  /\ net' = net \cup {Answer(peer, Lines + 1)}
  /\ ServerEnd

\* pclose() and exit(0), with whatever requests are left.
Finish == srv = "popen" /\ line = Lines /\ ServerEnd /\ UNCHANGED net

------------------------------------------------------------------------------
Client(c) == \/ SendRequest(c) \/ SetAlarm(c) \/ Block(c) \/ Receive(c)
             \/ Interrupted(c) \/ StopAlarm(c)
Server    == TakeRequest \/ PopenAndSend \/ PopenFails \/ Finish

Next ==
  \/ \E c \in Clients : Client(c) \/ Ring(c) \/ RecvFails(c)
  \/ Start \/ Server \/ ServeFails
  \/ \E m \in net : Lose(m)

Spec == Init /\ [][Next]_vars

\* Programs are scheduled and alarms ring; datagrams may all be lost, and no
\* call has to fail.
FairSpec == /\ Spec
            /\ WF_vars(Server)
            /\ \A c \in Clients : WF_vars(Client(c)) /\ WF_vars(Ring(c))

------------------------------------------------------------------------------
(* What must hold *)

TypeOK ==
  /\ cl \in [Clients -> {"send", "alarm", "recv", "blocked", "stop", "done"}]
  /\ alarm \in [Clients -> {"off", "set", "rung"}]
  /\ early \subseteq Clients
  /\ printed \in [Clients -> 0..(Lines + 1)]
  /\ \A m \in net : m.c \in Clients /\ m.line \in 0..(Lines + 1)
  /\ srv \in {"down", "recv", "popen"} /\ peer \in Clients \cup {None}
  /\ line \in 0..Lines /\ starts \in 0..MaxStarts

\* An alarm never outlives print_uptime(), whichever way it returns and
\* however late the answer is.
NoStrayAlarm == \A c \in Clients : cl[c] = "done" => alarm[c] = "off"

\* Server, lines 147-152: the output goes to the requester.  A client that has
\* sent no request is sent no answer.
AnsweredRequesters ==
  \A m \in net : m.kind = "answer" => cl[m.c] \notin {"send"}

\* A start of the server answers one client.
OneClientPerStart ==
  Cardinality({c \in Clients : printed[c] # 0}) <= starts

\* A client whose alarm does not ring too early comes to an end, whatever is
\* lost.
DoneOrEarly     == \A c \in Clients : cl[c] = "done" \/ c \in early
EndsUnlessEarly == <>DoneOrEarly

\* Client, lines 93-95 and 110-113: the alarm avoids blocking indefinitely in
\* recvfrom().  (An alarm that rings before recvfrom() does not.)
NeverBlocksForever == \A c \in Clients : <>(cl[c] = "done")
==============================================================================
