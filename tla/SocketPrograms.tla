--------------------------- MODULE SocketPrograms ----------------------------
(***************************************************************************)
(* Programs of 16-netipc other than uptime.  oobdata.c and oobsrv.c        *)
(* (16-oobdata) exchange urgent bytes.  initserver.c (15-setsock),         *)
(* listenap.c (11-listenap) and bind.c (9-bind) bind TCP port 9527, and    *)
(* connect.c (10-connect) connects to it.  And of 17-advanipc:             *)
(* nameing.c (2-nameing) binds a name in the file system, and send_fd.c    *)
(* (4-passing) sends a descriptor that recv_fd.c receives.                 *)
(***************************************************************************)
EXTENDS Integers, Sequences, FiniteSets, SequencesExt

CONSTANTS Runs,    \* runs of the programs that bind
          Callers, \* runs of connect.c
          Backlog, \* bound of the queue of completed connections
          Receivers, \* runs of recv_fd.c
          Addresses, \* addresses that getaddrinfo() gives, 1..Addresses
          MaxServes  \* bound on the starts of send_fd.c

VARIABLES cli, tries, sent, \* of 16-oobdata: the client, its attempts to connect, its sends
          wire,             \* what it has sent and the server's kernel has not received
          stream,           \* received and not read
          mark,             \* the latest urgent byte: which, and whether it was read
          eof,              \* the end of the connection was received
          owner,            \* F_SETOWN was called
          pending,          \* SIGURG is pending
          missed,           \* urgent bytes received before F_SETOWN
          srv, handler,     \* what main() and the handler of oobsrv.c do next
          n, errno, buf,    \* of recv_data()
          status, inline,   \* of the handler; SO_OOBINLINE is set
          out, urgent,      \* what main() has written, what the handler has read
          kind,             \* of port 9527: the program of a run
          at,               \* what a run or a caller does next
          sock,             \* the socket of a run: "none", "open", "bound" or "listening"
          backlog,          \* connections nobody has accepted, of a run that listens
          peer,             \* of a run: the callers it has accepted; of a caller: its connection
          timewait,         \* runs whose end of a connection is in TIME_WAIT
          nsecs,            \* the delay of a caller, in connect_retry()
          name,             \* of nameing.c: the run that made foo.socket, or "free"
          names,            \* what a run of nameing.c does next
          server,           \* of 4-passing: what send_fd.c does next
          address,          \* the address it tries or listens on
          waiting,          \* connections nobody has accepted
          served,           \* the receiver it has accepted, or "none"
          serves,           \* starts so far
          rcv,              \* receiver -> what it does next
          try,              \* receiver -> the address and the delay of its attempt
          fd,               \* receiver -> sockfd: "none" before the first socket(), or "open"
          inbox,            \* receiver -> "empty", "bytes", "closed" or "reset"
          newfd             \* receiver -> what recv_fd() returned

------------------------------------------------------------------------------
(***************************************************************************)
(* oobdata.c sends "abc", the urgent byte "e", "123" and the urgent byte   *)
(* "E"; oobsrv.c prints the stream and takes the first urgent byte in its  *)
(* SIGURG handler.                                                         *)
(***************************************************************************)

Sends  == <<"abc", "e", "123", "E">> \* of send_data()
Urgent == {"e", "E"}
MaxTries == 4                        \* 1, 2, 4 and 8 seconds

client  == <<cli, tries, sent>>
kernel  == <<wire, stream, mark, eof, pending, missed>>
work    == <<n, errno, buf, out>>
taken   == <<status, inline, urgent>>
oobVars == <<client, kernel, owner, srv, handler, work, taken>>

NoMark == [byte |-> "none", read |-> TRUE]

OobInit == /\ cli = "connect" /\ tries = 0 /\ sent = 0
           /\ wire = <<>> /\ stream = <<>> /\ mark = NoMark /\ eof = FALSE
           /\ owner = FALSE /\ pending = FALSE /\ missed = {}
           /\ srv = "listen" /\ handler = "none"
           /\ n = 0 /\ errno = "0" /\ buf = "none" /\ status = 0 /\ inline = FALSE
           /\ out = <<>> /\ urgent = <<>>

(* The client, oobdata.c *)

\* Lines 8-20.
OobConnect ==
  /\ cli = "connect" /\ srv \in {"listen", "accept", "failed"}
  /\ IF srv = "accept" THEN cli' = "send" /\ UNCHANGED tries
     ELSE tries' = tries + 1 /\ cli' = (IF tries' = MaxTries THEN "failed" ELSE "connect")
  /\ UNCHANGED <<sent, kernel, owner, srv, handler, work, taken>>

\* Lines 22-48, one send() after the other.
Send ==
  /\ cli = "send" /\ sent < Len(Sends)
  /\ sent' = sent + 1 /\ wire' = Append(wire, Sends[sent'])
  /\ UNCHANGED <<cli, tries, stream, mark, eof, pending, missed, owner, srv, handler, work, taken>>

\* Line 119: the client ends; it may be killed before it has sent everything.
Close ==
  /\ cli = "send" /\ cli' = "done" /\ wire' = Append(wire, "FIN")
  /\ UNCHANGED <<tries, sent, stream, mark, eof, pending, missed, owner, srv, handler, work, taken>>

Client == OobConnect \/ Send \/ (sent = Len(Sends) /\ Close)

(* The kernel of the server *)

AtMark == stream # <<>> /\ Head(stream) = mark.byte

\* A new mark makes the byte of the old one ordinary data; but where that byte is the
\* next in the stream it is dropped, whether MSG_OOB has read it or not (oobdata.c,
\* lines 85-87), unless SO_OOBINLINE is set.
WithoutMarked == IF AtMark /\ ~inline THEN Tail(stream) ELSE stream

Receive ==
  /\ wire # <<>> /\ wire' = Tail(wire)
  /\ LET t == Head(wire) IN
     CASE t = "FIN" -> eof' = TRUE /\ UNCHANGED <<stream, mark, pending, missed>>
       [] t \in Urgent -> /\ stream' = Append(WithoutMarked, t)
                          /\ mark' = [byte |-> t, read |-> FALSE]
                          /\ pending' = (pending \/ owner)
                          /\ missed' = (IF owner THEN missed ELSE missed \cup {t})
                          /\ UNCHANGED eof
       [] OTHER -> stream' = Append(stream, t) /\ UNCHANGED <<mark, pending, missed, eof>>
  /\ UNCHANGED <<client, owner, srv, handler, work, taken>>

(* main() and recv_data() of oobsrv.c *)

Go(from, to) == srv = from /\ handler = "none" /\ srv' = to /\ UNCHANGED <<client, handler>>

\* Lines 17-42 and 170-189.
OobListen == /\ Go("listen", "accept") \/ Go("listen", "failed")
             /\ UNCHANGED <<kernel, owner, work, taken>>

\* Lines 83-86.
OobAccept == /\ cli \in {"send", "done"} /\ Go("accept", "setown")
             /\ UNCHANGED <<kernel, owner, work, taken>>

\* Lines 99-102.
SetOwn == Go("setown", "recv") /\ owner' = TRUE /\ UNCHANGED <<kernel, work, taken>>

\* Line 104.  A read stops at the mark while a signal is pending, skips the byte
\* of the mark unless SO_OOBINLINE is set, and there is no mark once it is past.
Recv ==
  /\ stream # <<>> /\ ~(AtMark /\ pending) /\ stream' = Tail(stream)
  /\ mark' = (IF AtMark THEN NoMark ELSE mark)
  /\ IF AtMark /\ ~inline
     THEN Go("recv", "recv") /\ UNCHANGED work
     ELSE Go("recv", "test") /\ n' = 1 /\ buf' = Head(stream) /\ UNCHANGED <<errno, out>>
  /\ UNCHANGED <<wire, eof, pending, missed, owner, taken>>

RecvEnd == /\ stream = <<>> /\ eof /\ Go("recv", "test") /\ n' = 0
           /\ UNCHANGED <<errno, buf, out, kernel, owner, taken>>

\* A recv() that waits, or is at the mark, is interrupted; it returns after the handler.
RecvInterrupted ==
  /\ pending /\ (AtMark \/ (stream = <<>> /\ ~eof))
  /\ srv = "recv" /\ handler = "none" /\ srv' = "interrupted" /\ handler' = "urg"
  /\ pending' = FALSE
  /\ UNCHANGED <<client, wire, stream, mark, eof, missed, owner, work, taken>>

RecvReturns == /\ Go("interrupted", "test") /\ n' = -1 /\ errno' = "EINTR"
               /\ UNCHANGED <<buf, out, kernel, owner, taken>>

\* Lines 104-105 and 108-112.
Test == /\ Go("test", IF n > 0 \/ errno = "EINTR" THEN "write" ELSE "closed")
        /\ UNCHANGED <<kernel, owner, work, taken>>

\* Mutant: nothing is written when nothing was received, and errno stays EINTR.
Write_Received == /\ Go("write", "recv")
                  /\ out' = (IF n = 1 THEN Append(out, buf) ELSE out)
                  /\ UNCHANGED <<n, errno, buf, kernel, owner, taken>>

\* Line 106.  With n = -1 it asks for more bytes than there can be.
Write == /\ Go("write", "recv")
         /\ out' = (IF n = 1 THEN Append(out, buf) ELSE out)
         /\ errno' = (IF n = -1 THEN "EFAULT" ELSE errno)
         /\ UNCHANGED <<n, buf, kernel, owner, taken>>

(* sig_urg() *)

\* It comes between any two steps of main(); SIGURG is blocked while it runs.
Enter == /\ pending /\ handler = "none" /\ srv \in {"recv", "test", "write"}
         /\ handler' = "urg" /\ pending' = FALSE
         /\ UNCHANGED <<client, wire, stream, mark, eof, missed, owner, srv, work, taken>>

In(from, to) == handler = from /\ handler' = to /\ UNCHANGED <<client, owner, srv>>

\* Lines 51-59.  recv() with MSG_OOB fails if there is no unread urgent byte.
TakeUrgent ==
  /\ IF status = 1 THEN In("urg", "none") /\ UNCHANGED <<kernel, work, taken>>
     ELSE IF mark.read \/ inline
     THEN In("urg", "none") /\ errno' = "EINVAL" /\ UNCHANGED <<n, buf, out, kernel, taken>>
     ELSE /\ In("urg", "setsockopt") /\ urgent' = Append(urgent, mark.byte) /\ status' = 1
          /\ mark' = [mark EXCEPT !.read = TRUE]
          /\ UNCHANGED <<inline, work, wire, stream, eof, pending, missed>>

\* Mutant: the option is not set.
SetInline_Skipped == In("setsockopt", "none") /\ UNCHANGED <<inline, status, urgent, kernel, work>>

\* Lines 61-73.
SetInline == /\ In("setsockopt", "none") /\ inline' = TRUE
             /\ UNCHANGED <<status, urgent, kernel, work>>

Server == \/ OobListen \/ OobAccept \/ SetOwn \/ Recv \/ RecvEnd \/ RecvInterrupted
          \/ RecvReturns \/ Test \/ Write \/ Enter \/ TakeUrgent \/ SetInline

OobNext == OobConnect \/ Send \/ Close \/ Receive \/ Server

\* The place of t among the sends.
Turn(t) == CHOOSE k \in DOMAIN Sends : Sends[k] = t
Seen(t, s) == \E i \in DOMAIN s : s[i] = t

OobTypeOK ==
  /\ cli \in {"connect", "send", "done", "failed"} /\ tries \in 0..MaxTries
  /\ sent \in 0..Len(Sends)
  /\ srv \in {"listen", "accept", "setown", "recv", "interrupted", "test", "write", "closed", "failed"}
  /\ handler \in {"none", "urg", "setsockopt"}
  /\ mark.byte \in Urgent \cup {"none"} /\ missed \subseteq Urgent
  /\ n \in -1..1 /\ errno \in {"0", "EINTR", "EFAULT", "EINVAL"}
  /\ Len(wire) + Len(stream) <= Len(Sends) + 1 /\ Len(urgent) <= 1

\* recv_data(): what is written was sent, and is written once and in order; no ordinary
\* data is passed over, and all of it is out when the server ends, however the
\* handler interrupts the loop.
StreamWritten ==
  /\ \A i \in DOMAIN out : \E k \in 1..sent : out[i] = Sends[k]
  /\ \A i, j \in DOMAIN out : i < j => Turn(out[i]) < Turn(out[j])
  /\ \A k \in 1..sent :
       /\ Sends[k] \notin Urgent
       /\ srv = "closed" \/ \E i \in DOMAIN out : k < Turn(out[i])
       => Seen(Sends[k], out)

\* Lines 61-73, and lines 85-87 of oobdata.c: every urgent byte is read by the handler,
\* or in the stream, or by both.  One that nobody has seen came before F_SETOWN, or
\* was discarded for a later one, and that one the handler has read.
UrgentSeen ==
  srv = "closed" => \A k \in 1..sent :
    Sends[k] \in Urgent => \/ Seen(Sends[k], out) \/ Seen(Sends[k], urgent)
                          \/ Sends[k] \in missed
                          \/ \E j \in (k + 1)..sent : Seen(Sends[j], urgent)

\* Lines 51-56: whenever the handler asks for the urgent byte there is one.
HandlerFindsUrgent == errno # "EINVAL"

\* The server that has accepted a client ends after it, although errno is looked
\* at after a recv() that returned 0.
ServerEnds == srv = "setown" ~> srv = "closed"

------------------------------------------------------------------------------
(***************************************************************************)
(* Port 9527.  TCP lets a socket bind over others only when all of them    *)
(* have SO_REUSEADDR and none listens, and one socket listen.              *)
(***************************************************************************)

tcpVars  == <<kind, at, sock, backlog, peer, timewait, nsecs>>
nameVars == <<name, names>>

Ended == {"exit0", "exit1", "killed"}

Programs == {"initserver", "listenap", "bind"}
Reuses(r) == kind[r] = "initserver"

TcpInit == /\ kind \in [Runs -> Programs]
           /\ at = [p \in Runs \cup Callers |-> "socket"]
           /\ sock = [r \in Runs |-> "none"] /\ backlog = [r \in Runs |-> <<>>]
           /\ peer = [p \in Runs \cup Callers |-> "none"] /\ timewait = {}
           /\ nsecs = [c \in Callers |-> 1]

\* exit(), return from main() or a signal closes the socket and resets the
\* connections that nobody has accepted; the end of an accepted one waits, if it
\* is the first to close.
End(r, how) ==
  /\ at' = [at EXCEPT ![r] = how]
  /\ sock' = [sock EXCEPT ![r] = "none"] /\ backlog' = [backlog EXCEPT ![r] = <<>>]
  /\ peer' = [p \in DOMAIN peer |->
                IF p \in ToSet(backlog[r]) THEN "reset" ELSE peer[p]]
  /\ timewait' = IF peer[r] \in Callers /\ at[peer[r]] \notin Ended
                 THEN timewait \cup {r} ELSE timewait
  /\ UNCHANGED <<kind, nsecs>>

Goto(r, label) == at' = [at EXCEPT ![r] = label] /\ UNCHANGED <<kind, peer, timewait, nsecs>>

\* Lines 26-38 of initserver.c: socket() and setsockopt().
Socket(r) ==
  /\ at[r] = "socket"
  /\ \/ Goto(r, "bind") /\ sock' = [sock EXCEPT ![r] = "open"] /\ UNCHANGED backlog
     \/ End(r, "exit1")

\* Live sockets on the port in the way of that of r.
InTheWay(r) == {o \in Runs \ {r} : /\ sock[o] \in {"bound", "listening"}
                                   /\ ~(Reuses(r) /\ Reuses(o) /\ sock[o] = "bound")}

\* bind().  Whether SO_REUSEADDR helps against the TIME_WAIT of a socket that did
\* not have it depends on the system.
Bind(r) ==
  /\ at[r] = "bind"
  /\ \/ /\ InTheWay(r) = {} /\ (Reuses(r) \/ timewait = {})
        /\ Goto(r, IF kind[r] = "bind" THEN "asks" ELSE "listen")
        /\ sock' = [sock EXCEPT ![r] = "bound"] /\ UNCHANGED backlog
     \/ (InTheWay(r) # {} \/ timewait # {}) /\ End(r, "exit1")

Listeners == {r \in Runs : sock[r] = "listening"}

\* listen() of a socket that shares its address fails when the other one listens.
PortListen(r) ==
  /\ at[r] = "listen"
  /\ IF Listeners = {}
     THEN /\ Goto(r, IF kind[r] = "listenap" THEN "accept" ELSE "asks")
          /\ sock' = [sock EXCEPT ![r] = "listening"] /\ UNCHANGED backlog
     ELSE End(r, "exit1")

\* accept() of listenap.c, lines 118-122, of one client.
PortAccept(r) ==
  /\ at[r] = "accept" /\ backlog[r] # <<>>
  /\ at' = [at EXCEPT ![r] = "asks"]
  /\ backlog' = [backlog EXCEPT ![r] = Tail(@)]
  /\ peer' = [peer EXCEPT ![r] = Head(backlog[r]), ![Head(backlog[r])] = r]
  /\ UNCHANGED <<kind, sock, timewait, nsecs>>

\* main() of initserver.c asks for fifteen options, bind.c for the name of its socket,
\* listenap.c for that of its client, which may have gone.
Getsockopts(r) == kind[r] = "initserver" /\ (End(r, "exit0") \/ End(r, "exit1"))
BoundName(r)   == kind[r] = "bind" /\ (End(r, "exit0") \/ End(r, "exit1"))
PeerName(r)    == kind[r] = "listenap" /\ (End(r, "exit0") \/ End(r, "exit1"))

Asks(r) == at[r] = "asks" /\ (Getsockopts(r) \/ BoundName(r) \/ PeerName(r))

Killed(r) == at[r] \notin Ended /\ End(r, "killed")

Serve(r) == Socket(r) \/ Bind(r) \/ PortListen(r) \/ PortAccept(r) \/ Asks(r)

\* The kernel forgets a connection in TIME_WAIT.
Forget == /\ \E r \in timewait : timewait' = timewait \ {r}
          /\ UNCHANGED <<kind, at, sock, backlog, peer, nsecs>>

CallerGoes(c, label) == /\ at' = [at EXCEPT ![c] = label]
                        /\ UNCHANGED <<kind, sock, timewait>>

\* connect.c, lines 69-80: the address "192.168.88" has three parts, which is no
\* error for the test of line 77, and 0.0.0.0 is this host.
Call(c) == /\ at[c] = "socket"
           /\ CallerGoes(c, "connect") \/ CallerGoes(c, "exit1")
           /\ UNCHANGED <<backlog, peer, nsecs>>

\* Mutant: one delay more.
MaxSleep_Twice == 16

MaxSleep == 8

\* connect_retry(), lines 19-29.
PortConnect(c) ==
  /\ at[c] = "connect"
  /\ \/ \E r \in Listeners :
          /\ Len(backlog[r]) < Backlog
          /\ backlog' = [backlog EXCEPT ![r] = Append(@, c)]
          /\ peer' = [peer EXCEPT ![c] = "queued"]
          /\ CallerGoes(c, "getsockname") /\ UNCHANGED nsecs
     \/ /\ \A r \in Listeners : Len(backlog[r]) >= Backlog
        /\ nsecs' = [nsecs EXCEPT ![c] = 2 * @]
        /\ CallerGoes(c, IF 2 * nsecs[c] > MaxSleep THEN "exit1" ELSE "connect")
        /\ UNCHANGED <<backlog, peer>>

\* Lines 87-99, which no reset disturbs.
Getsockname(c) == /\ at[c] = "getsockname" /\ CallerGoes(c, "getpeername")
                  /\ UNCHANGED <<backlog, peer, nsecs>>

\* Lines 102-117: there is no peer after a reset.
Getpeername(c) ==
  /\ at[c] = "getpeername"
  /\ CallerGoes(c, IF peer[c] = "reset" THEN "exit1" ELSE "exit0")
  /\ UNCHANGED <<backlog, peer, nsecs>>

Caller(c) == Call(c) \/ PortConnect(c) \/ Getsockname(c) \/ Getpeername(c)

TcpNext == \/ \E r \in Runs : Serve(r) \/ Killed(r)
           \/ \E c \in Callers : Caller(c)
           \/ Forget

TcpTypeOK ==
  /\ kind \in [Runs -> Programs]
  /\ sock \in [Runs -> {"none", "open", "bound", "listening"}]
  /\ backlog \in [Runs -> Seq(Callers)] /\ timewait \subseteq Runs
  /\ DOMAIN at = Runs \cup Callers /\ DOMAIN peer = Runs \cup Callers
  /\ nsecs \in [Callers -> {1, 2, 4, 8, 16}]

\* initserver.c, lines 30-49: when two runs have bound the address, listen()
\* leaves it to one of them.
OneListener == Cardinality(Listeners) <= 1

\* listenap.c, line 119: a connection that was accepted is never reset, and one
\* that waits is that of the listener.
ConnectionsKept ==
  /\ \A r \in Runs : peer[r] \in Callers => peer[peer[r]] = r
  /\ \A c \in Callers : peer[c] = "queued" => \E r \in Listeners : Contains(backlog[r], c)

\* A step in which a run that could bind is turned away: by a socket that lives,
\* or by a connection that listenap.c has closed first, never by one of initserver.c.
RefusedForCause ==
  \A r \in Runs : at[r] \in {"bind", "listen"} /\ at'[r] = "exit1" =>
    \/ \E o \in Runs \ {r} : sock[o] \in {"bound", "listening"}
    \/ \E o \in timewait : at[o] \in Ended /\ kind[o] = "listenap"

\* connect.c, lines 19-28 and 102-106: the client gives up after its fourth try, and
\* fails later only when the server has ended before it accepted.
CallersEnd == \A c \in Callers : (at[c] = "connect") ~> (at[c] \in Ended)
FailsForCause ==
  \A c \in Callers : at[c] # "exit1" /\ at'[c] = "exit1" =>
    \/ at[c] = "socket"
    \/ at[c] = "connect" /\ nsecs[c] = 8
    \/ at[c] = "getpeername" /\ \A r \in Runs : peer[r] # c

------------------------------------------------------------------------------
(***************************************************************************)
(* foo.socket, which bind() makes and only unlink() removes.               *)
(***************************************************************************)

NameInit == name = "free" /\ names = [r \in Runs |-> "socket"]

NameGoes(r, label) == names' = [names EXCEPT ![r] = label]

\* Lines 42-48.
NameSocket(r) == /\ names[r] = "socket"
                 /\ NameGoes(r, "bind") \/ NameGoes(r, "exit1")
                 /\ UNCHANGED name

\* Mutant: a name that is there is replaced.
NameBind_Replaces(r) == names[r] = "bind" /\ name' = r /\ NameGoes(r, "open")

\* Lines 72-75: the file must not exist.
NameBind(r) == /\ names[r] = "bind"
               /\ IF name = "free" THEN name' = r /\ NameGoes(r, "open")
                                   ELSE NameGoes(r, "exit1") /\ UNCHANGED name

\* Lines 80-82: open() of a socket fails, and the program goes on.
NameOpen(r) == names[r] = "open" /\ NameGoes(r, "unlink") /\ UNCHANGED name

\* Lines 85-88.
NameUnlink(r) == /\ names[r] = "unlink"
                 /\ name' = "free"
                 /\ NameGoes(r, IF name = "free" THEN "exit1" ELSE "exit0")

NameKilled(r) == names[r] \notin Ended /\ NameGoes(r, "killed") /\ UNCHANGED name

NameStep(r) == NameSocket(r) \/ NameBind(r) \/ NameOpen(r) \/ NameUnlink(r)

NameNext == \E r \in Runs : NameStep(r) \/ NameKilled(r)

NameTypeOK == /\ name \in Runs \cup {"free"} /\ DOMAIN names = Runs

\* Lines 62-65 and 85: a run removes the name it has made and never that of
\* another, so that only a run that was killed leaves one.
NameOfOwner == \/ name = "free"
               \/ names[name] \in {"open", "unlink", "killed"}
UnlinksOwn == \A r \in Runs : names[r] = "unlink" /\ names'[r] \in {"exit0", "exit1"} =>
                                name = r

\* "if we run the program a second time, we get an error, because the file already
\* exists": and while nobody holds the name there is no error.
NameRefusedForCause ==
  \A r \in Runs : names[r] = "bind" /\ names'[r] = "exit1" => name \in Runs \ {r}

------------------------------------------------------------------------------
(***************************************************************************)
(* send_fd.c listens on the first address it can, serves one client and    *)
(* sends it a descriptor; recv_fd.c connects to the first address that     *)
(* answers.  Both use TCP, which carries the two bytes of the message and  *)
(* drops the descriptor.                                                   *)
(***************************************************************************)

serverVars  == <<server, address, served, serves>>
receiveVars == <<rcv, try, fd, newfd>>
passVars    == <<serverVars, waiting, receiveVars, inbox>>

ServerEnded   == {"down", "exit0", "exit1", "killed"}
ReceiverEnded == {"exit0", "exit1"}

PassInit == /\ server = "down" /\ address = 1 /\ waiting = <<>> /\ served = "none" /\ serves = 0
            /\ rcv = [c \in Receivers |-> "socket"]
            /\ try = [c \in Receivers |-> [address |-> 1, nsecs |-> 1]]
            /\ fd = [c \in Receivers |-> "none"] /\ inbox = [c \in Receivers |-> "empty"]
            /\ newfd = [c \in Receivers |-> "none"]

Start == /\ server \in ServerEnded /\ serves < MaxServes
         /\ server' = "addrinfo" /\ serves' = serves + 1 /\ address' = 1 /\ served' = "none"
         /\ UNCHANGED <<waiting, receiveVars, inbox>>

\* The end of the process closes its connection, and resets those that wait.
PassServerEnds(how) ==
  /\ server' = how /\ waiting' = <<>>
  /\ inbox' = [c \in Receivers |-> IF Contains(waiting, c) THEN "reset"
                                   ELSE IF c = served /\ inbox[c] = "empty" THEN "closed"
                                   ELSE inbox[c]]
  /\ UNCHANGED <<address, served, serves>>

ServerGoes(label) == server' = label /\ UNCHANGED <<waiting, inbox, serves>>

\* Lines 139-165: malloc(), gethostname() and getaddrinfo().
AddrInfo == /\ server = "addrinfo"
            /\ \/ ServerGoes("initserver") /\ UNCHANGED <<address, served>>
               \/ PassServerEnds("exit1")

\* initserver(), and the next address when it fails; after the last one main()
\* returns 0.
InitServer == /\ server = "initserver"
              /\ \/ ServerGoes("accept") /\ UNCHANGED address
                 \/ ServerGoes(IF address = Addresses THEN "exit0" ELSE "initserver")
                    /\ address' = IF address = Addresses THEN address ELSE address + 1
              /\ UNCHANGED served

\* Lines 89-93.
ServeAccept == /\ server = "accept" /\ waiting # <<>>
               /\ server' = "open" /\ served' = Head(waiting) /\ waiting' = Tail(waiting)
               /\ UNCHANGED <<address, serves, inbox>>

\* Lines 95-99.
OpenFile == /\ server = "open"
            /\ \/ ServerGoes("send_fd") /\ UNCHANGED <<address, served>>
               \/ PassServerEnds("exit1")

\* send_fd(), lines 25-53: two bytes, and no descriptor.  When it fails main()
\* returns 0 as well.
SendFd == /\ server = "send_fd"
          /\ \/ /\ inbox' = [inbox EXCEPT ![served] = "bytes"] /\ server' = "return"
                /\ UNCHANGED <<waiting, address, served, serves>>
             \/ PassServerEnds("exit0")

Return == server = "return" /\ PassServerEnds("exit0")

ServerKilled == server \notin ServerEnded /\ PassServerEnds("killed")

SendServer == (AddrInfo \/ InitServer \/ ServeAccept \/ OpenFile \/ SendFd \/ Return)
              /\ UNCHANGED receiveVars

\* recv_fd.c, lines 103-104: when socket() fails sockfd keeps what it had, which
\* is the socket of the last address, or nothing defined.
NewSocket(c) ==
  /\ rcv[c] = "socket" /\ rcv' = [rcv EXCEPT ![c] = "connect"]
  /\ fd' = [fd EXCEPT ![c] = "open"] \/ UNCHANGED fd
  /\ UNCHANGED <<try, newfd, waiting, inbox>>

\* Mutant: the loop does not go on to ai_next.
NextAddress_Same(c) ==
  /\ rcv' = [rcv EXCEPT ![c] = "socket"]
  /\ try' = [try EXCEPT ![c].nsecs = 1]

\* The next address, or "can't contact".
NextAddress(c) ==
  IF try[c].address = Addresses
  THEN rcv' = [rcv EXCEPT ![c] = "exit1"] /\ UNCHANGED try
  ELSE /\ rcv' = [rcv EXCEPT ![c] = "socket"]
       /\ try' = [try EXCEPT ![c] = [address |-> @.address + 1, nsecs |-> 1]]

\* The socket that listens is never closed before the end.
Listening == server \in {"accept", "open", "send_fd", "return"}

\* connect_retry(), lines 67-75.
ConnectRetry(c) ==
  /\ rcv[c] = "connect"
  /\ \/ /\ fd[c] = "open" /\ Listening /\ try[c].address = address
        /\ rcv' = [rcv EXCEPT ![c] = "recvmsg"] /\ waiting' = Append(waiting, c)
        /\ UNCHANGED try
     \/ /\ fd[c] = "none" \/ ~Listening \/ try[c].address # address
        /\ IF try[c].nsecs < 8
           THEN try' = [try EXCEPT ![c].nsecs = 2 * @] /\ UNCHANGED rcv
           ELSE NextAddress(c)
        /\ UNCHANGED waiting
  /\ UNCHANGED <<fd, newfd, inbox>>

\* Mutant: an error is not told from a message.
Recvmsg_Unchecked(c) ==
  /\ rcv[c] = "recvmsg" /\ inbox[c] # "empty"
  /\ newfd' = [newfd EXCEPT ![c] = "undefined"] /\ rcv' = [rcv EXCEPT ![c] = "exit0"]
  /\ UNCHANGED <<try, fd, waiting, inbox>>

\* recv_fd(), lines 33-59: an error or the end gives -1; with data the new
\* descriptor is read from the control buffer, which nobody has written.  main()
\* returns 0 whatever it is.
Recvmsg(c) ==
  /\ rcv[c] = "recvmsg" /\ inbox[c] # "empty"
  /\ newfd' = [newfd EXCEPT ![c] = IF inbox[c] = "bytes" THEN "undefined" ELSE "-1"]
  /\ rcv' = [rcv EXCEPT ![c] = "exit0"]
  /\ UNCHANGED <<try, fd, waiting, inbox>>

PassReceive(c) == (NewSocket(c) \/ ConnectRetry(c) \/ Recvmsg(c)) /\ UNCHANGED serverVars

PassNext == \/ Start \/ SendServer \/ (ServerKilled /\ UNCHANGED receiveVars)
            \/ \E c \in Receivers : PassReceive(c)

PassTypeOK ==
  /\ address \in 1..Addresses /\ waiting \in Seq(Receivers) /\ serves \in 0..MaxServes
  /\ served \in Receivers \cup {"none"}
  /\ inbox \in [Receivers -> {"empty", "bytes", "closed", "reset"}]
  /\ fd \in [Receivers -> {"none", "open"}]
  /\ newfd \in [Receivers -> {"none", "undefined", "-1"}]

\* send_fd.c, lines 166-171: a start serves one receiver, and recv_fd.c takes a
\* descriptor, if an undefined one, only out of a message that was sent to it.
ServesOne == Cardinality({c \in Receivers : inbox[c] = "bytes"}) <= serves
TakenFromMessage == \A c \in Receivers : /\ newfd[c] = "undefined" => inbox[c] = "bytes"
                                         /\ rcv[c] = "exit0" => fd[c] = "open"

\* A receiver gives up after the last address, and one that is connected is answered
\* or told of the end of the server, whichever client that serves.
ReceiversOver == \A c \in Receivers : rcv[c] \in ReceiverEnded
ReceiversEnd  == <>ReceiversOver
==============================================================================
