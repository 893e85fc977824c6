---------------------------- MODULE NetworkPrograms ----------------------------
(***************************************************************************)
(* The programs of 16-netipc and 17-advanipc, one set at a time: uptime    *)
(* over TCP with popen() (12-sendrecv), over TCP with a forked child       *)
(* (13-othersrv) and over datagrams (14-connless), out-of-band data        *)
(* (16-oobdata), the programs that bind one port or one name, and the      *)
(* passing of a descriptor (17-advanipc/4-passing).                        *)
(***************************************************************************)
EXTENDS Naturals, Sequences, FiniteSets

CONSTANTS Clients,    \* runs of the client program
          Chunks,     \* sends of 12-sendrecv for one answer
          QLen,       \* connections the listening socket queues
          MaxStarts,  \* bound on the starts of the server of 12-sendrecv
          MaxRestarts,\* and on those of the server of 14-connless
          MaxProcs,   \* bound on the processes forked by 13-othersrv
          Lines,      \* lines of an answer of 14-connless
          None,
          Runs, Callers, Backlog,        \* bounds of SocketPrograms
          Receivers, Addresses, MaxServes

\* None and the words for no run, no caller and no receiver are none of them.
ASSUME NetworkAssumption ==
  /\ Chunks \in Nat /\ QLen \in Nat /\ MaxStarts \in Nat /\ MaxRestarts \in Nat /\ Lines \in Nat
  /\ MaxProcs \in Nat \ {0} /\ Backlog \in Nat /\ Addresses \in Nat \ {0} /\ MaxServes \in Nat
  /\ None \notin Clients /\ Runs \cap Callers = {} /\ "free" \notin Runs
  /\ {"none", "queued", "reset"} \cap (Runs \cup Callers) = {}
  /\ "none" \notin Receivers

VARIABLES prog,                                \* the programs that run
          cl,                                  \* of every version of uptime
          nsecs, listening, queue, chan,       \* of both versions over TCP
          srv, starts,                         \* of 12-sendrecv and 14-connless
          conn,                                \* of 12-sendrecv
          proc, child, connfds, fds, fallen,   \* of 13-othersrv
          alarm, early, printed, net, peer, line, \* of 14-connless
          cli, tries, sent, wire, stream, mark, eof, owner, pending, \* of 16-oobdata
          missed, oob, handler, n, errno, buf, status, inline, out, urgent,
          kind, at, sock, backlog, ends, timewait, delay, \* of port 9527
          name, names,                         \* of nameing.c
          server, address, waiting, served, serves, rcv, try, fd, inbox, newfd \* of 4-passing

tcpVars  == <<nsecs, listening, queue, chan>>
forkVars == <<proc, child, connfds, fds, fallen>>
udpVars  == <<alarm, early, printed, net, peer, line>>
uptimeVars == <<cl, tcpVars, srv, starts, conn, forkVars, udpVars>>
oobVars  == <<cli, tries, sent, wire, stream, mark, eof, owner, pending, missed, oob,
              handler, n, errno, buf, status, inline, out, urgent>>
portVars   == <<kind, at, sock, backlog, ends, timewait, delay>>
nameVars   == <<name, names>>
passVars   == <<server, address, waiting, served, serves, rcv, try, fd, inbox, newfd>>
vars == <<prog, uptimeVars, oobVars, portVars, nameVars, passVars>>

S == INSTANCE UptimeServer
F == INSTANCE UptimeForkServer WITH Chunks <- 1
D == INSTANCE UptimeDatagram WITH MaxStarts <- MaxRestarts
O == INSTANCE SocketPrograms WITH srv <- oob, peer <- ends, nsecs <- delay
\* What a program does not have keeps its first value.
NoServer == srv = "down" /\ starts = 0
NoFork   == /\ proc = [p \in F!Procs |-> "none"] /\ child = [p \in F!Procs |-> 0]
            /\ connfds = <<>> /\ fds = <<>> /\ fallen = FALSE
NoUdp    == /\ alarm = <<>> /\ early = {} /\ printed = <<>> /\ net = {}
            /\ peer = None /\ line = 0
NoTcp    == /\ nsecs = <<>> /\ listening = FALSE /\ queue = <<>> /\ chan = <<>>
NoPort   == /\ kind = [r \in Runs |-> "bind"] /\ at = [p \in Runs \cup Callers |-> "socket"]
            /\ sock = [r \in Runs |-> "none"] /\ backlog = [r \in Runs |-> <<>>]
            /\ ends = [p \in Runs \cup Callers |-> "none"] /\ timewait = {}
            /\ delay = [c \in Callers |-> 1]

Init ==
  /\ prog \in {"sendrecv", "othersrv", "connless", "oobdata", "port", "nameing", "passing"}
  /\ O!OobInit /\ O!NameInit /\ O!PassInit
  /\ IF prog = "port" THEN O!TcpInit ELSE NoPort
  /\ CASE prog = "sendrecv" -> S!Init /\ NoFork /\ NoUdp
       [] prog = "othersrv" -> F!Init /\ NoServer /\ conn = None /\ NoUdp
       [] prog = "connless" -> D!Init /\ NoTcp /\ conn = None /\ NoFork
       [] OTHER             -> /\ NoServer /\ NoTcp /\ NoFork /\ NoUdp /\ conn = None
                               /\ cl = [c \in Clients |-> "none"]

InUptime(Step)   == Step /\ UNCHANGED <<prog, oobVars, portVars, nameVars, passVars>>
InServer(Step)   == prog = "sendrecv" /\ InUptime(Step) /\ UNCHANGED <<forkVars, udpVars>>
InFork(Step)     == prog = "othersrv" /\ InUptime(Step) /\ UNCHANGED <<srv, starts, conn, udpVars>>
InDatagram(Step) == prog = "connless" /\ InUptime(Step) /\ UNCHANGED <<tcpVars, conn, forkVars>>
InOob(Step)      == /\ prog = "oobdata" /\ Step
                    /\ UNCHANGED <<prog, uptimeVars, portVars, nameVars, passVars>>
InPort(Step)     == /\ prog = "port" /\ Step
                    /\ UNCHANGED <<prog, uptimeVars, oobVars, nameVars, passVars>>
InName(Step)     == /\ prog = "nameing" /\ Step
                    /\ UNCHANGED <<prog, uptimeVars, oobVars, portVars, passVars>>
InPass(Step)     == /\ prog = "passing" /\ Step
                    /\ UNCHANGED <<prog, uptimeVars, oobVars, portVars, nameVars>>

Next == \/ InServer(S!Next) \/ InFork(F!Next) \/ InDatagram(D!Next) \/ InOob(O!OobNext)
        \/ InPort(O!TcpNext) \/ InName(O!NameNext) \/ InPass(O!PassNext)

Client(c) == InServer(S!Client(c)) \/ InFork(F!Client(c)) \/ InDatagram(D!Client(c))
Server    == InServer(S!Server) \/ InDatagram(D!Server) \/ InOob(O!Server)

Spec == Init /\ [][Next]_vars

\* Programs that were started are scheduled and alarms ring.  Nobody has to
\* start a server, datagrams may all be lost, and no call has to fail.
FairSpec == /\ Spec
            /\ WF_vars(Server) /\ \A p \in F!Procs : WF_vars(InFork(F!ServerStep(p)))
            /\ \A c \in Clients : WF_vars(Client(c)) /\ WF_vars(InDatagram(D!Ring(c)))
            /\ WF_vars(InOob(O!Client)) /\ WF_vars(InOob(O!Receive))
            /\ \A c \in Callers : WF_vars(InPort(O!Caller(c)))
            /\ WF_vars(InPass(O!SendServer))
            /\ \A c \in Receivers : WF_vars(InPass(O!PassReceive(c)))

------------------------------------------------------------------------------
(* What must hold, program by program *)

TypeOK == CASE prog = "sendrecv" -> S!TypeOK
            [] prog = "othersrv" -> F!TypeOK
            [] prog = "connless" -> D!TypeOK
            [] prog = "oobdata"  -> O!OobTypeOK
            [] prog = "port"     -> O!TcpTypeOK
            [] prog = "nameing"  -> O!NameTypeOK
            [] prog = "passing"  -> O!PassTypeOK

\* 12-sendrecv/client.c, lines 87-93: a client that succeeds has printed
\* everything the server sent, the whole output unless the server died.
\* 14-connless/uptimesrv.c, lines 147-152: the output goes to the requester.
\* 16-oobdata/oobsrv.c, lines 51-73 and 104-106: the ordinary data is written once
\* and in order, an urgent byte is seen unless it came before F_SETOWN or a later
\* one replaced it, and the handler finds one whenever it asks.  listenap.c, line 119: a connection
\* that was accepted is not reset.  recv_fd.c takes a descriptor only out of a
\* message that was sent to it.
AnswersReachClients ==
  /\ prog = "sendrecv" => S!WholeAnswer
  /\ prog = "connless" => D!AnsweredRequesters
  /\ prog = "oobdata" => O!StreamWritten /\ O!UrgentSeen /\ O!HandlerFindsUrgent
  /\ prog = "port" => O!ConnectionsKept
  /\ prog = "passing" => O!TakenFromMessage

\* 12-sendrecv/uptimesrv.c, lines 129-130, and 14-connless: a start of the
\* server answers one client at most.  13-othersrv/uptimesrv.c, lines 118-152:
\* uptime has the connection of its client open and no other's, and every zombie
\* has a server that waits for it.  14-connless/client.c, lines 77-103: an alarm
\* never outlives print_uptime(), however late the answer is.  initserver.c,
\* lines 30-49: one socket listens on the port.  nameing.c, lines 62-88: only a
\* run that was killed leaves its name.
NothingLeftOver ==
  /\ prog = "sendrecv" => S!OneAnswerPerStart
  /\ prog = "othersrv" => F!OneConnection /\ F!ZombiesAwaited
  /\ prog = "connless" => D!OneClientPerStart /\ D!NoStrayAlarm
  /\ prog = "port" => O!OneListener
  /\ prog = "nameing" => O!NameOfOwner
  /\ prog = "passing" => O!ServesOne

\* initserver.c, lines 34-49: SO_REUSEADDR leaves a run nothing but a living
\* socket, or a connection of listenap.c, to be refused for; connect.c, lines
\* 19-28: a caller fails after its last try.  nameing.c, lines 62-65 and 85: a
\* run is refused a name that another has made, and removes its own.
RefusedForCause == [][/\ prog = "port" => O!RefusedForCause /\ O!FailsForCause
                      /\ prog = "nameing" => O!UnlinksOwn /\ O!NameRefusedForCause]_vars

\* What has to come to an end, and what its end is.
MustEnd(c) == \/ prog \in {"sendrecv", "othersrv", "connless", "passing"}
              \/ prog = "oobdata" /\ oob = "setown"
              \/ prog = "port" /\ at[c] = "connect"

HasEnded(c) == CASE prog = "sendrecv" -> S!ClientsOver
                 [] prog = "othersrv" -> fallen \/ F!ClientsOver
                 [] prog = "connless" -> D!DoneOrEarly
                 [] prog = "oobdata"  -> oob = "closed"
                 [] prog = "port"     -> at[c] \in O!Ended
                 [] prog = "passing"  -> O!ReceiversOver
                 [] OTHER -> TRUE

\* No client over TCP waits for ever, unless a child of 13-othersrv fell out of
\* execl() with the connection as its standard output; a client over UDP
\* (14-connless/client.c, lines 93-95) whose alarm does not ring too early comes
\* to an end, whatever is lost; oobsrv.c ends after its client, although errno
\* is looked at after a recv() that returned 0; connect.c and recv_fd.c give up
\* after their last try.
\* (prog never changes: one formula says it of each program.)
ProgramsEnd == \A c \in Callers : MustEnd(c) ~> HasEnded(c)
==============================================================================
