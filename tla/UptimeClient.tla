----------------------------- MODULE UptimeClient -----------------------------
(***************************************************************************)
(* The client of the uptime service over TCP (client.c of                  *)
(* 16-netipc/12-sendrecv and 16-netipc/13-othersrv) and the connections it *)
(* shares with a server.  The server modules extend this one.              *)
(***************************************************************************)
EXTENDS Naturals, Sequences, SequencesExt, FiniteSets

CONSTANTS Clients,   \* runs of the client program
          Chunks,    \* sends it takes to write the output of uptime
          QLen       \* connections the listening socket queues

VARIABLES cl,        \* what each client does next
          nsecs,     \* its back-off in connect_retry()
          listening, \* somebody has the listening socket open
          queue,     \* connections nobody has accepted yet
          chan       \* what each client's connection carries

netVars == <<listening, queue, chan>>

\* sent and got count chunks.  A connection that ends in "closed" (the server
\* closed it) or "cut" (the server died) is at end of file; in "reset" the
\* client gets an error.
NoChan == [sent |-> 0, got |-> 0, end |-> "open"]

ClientInit ==
  /\ cl = [c \in Clients |-> "connect"]
  /\ nsecs = [c \in Clients |-> 1]
  /\ listening = FALSE
  /\ queue = <<>>
  /\ chan = [c \in Clients |-> NoChan]

At(c, lbl)      == cl[c] = lbl
ClientGo(c, to) == cl' = [cl EXCEPT ![c] = to]

\* The kernel's part when the last descriptor of the listening socket goes:
\* connections that wait in the queue are reset.  ch is chan otherwise.
StopListening(ch) ==
  /\ listening' = FALSE
  /\ queue' = <<>>
  /\ chan' = [c \in Clients |-> IF Contains(queue, c) THEN [ch[c] EXCEPT !.end = "reset"] ELSE ch[c]]

------------------------------------------------------------------------------
(* connect_retry() *)

MAXTIMES == 8

Connected(c) ==
  /\ At(c, "connect")
  /\ listening /\ Len(queue) < QLen
  /\ queue' = Append(queue, c)
  /\ ClientGo(c, "recv")
  /\ UNCHANGED <<nsecs, listening, chan>>

\* Mutant: the loop never gives up.
Refused_Forever(c) ==
  /\ At(c, "connect")
  /\ ~listening \/ Len(queue) = QLen
  /\ nsecs' = [nsecs EXCEPT ![c] = IF 2 * @ > MAXTIMES THEN @ ELSE 2 * @]
  /\ UNCHANGED <<cl, netVars>>

\* Refused, or timed out on a full queue: sleep and double the delay, up to
\* MAXTIMES; then "can't connect".
Refused(c) ==
  /\ At(c, "connect")
  /\ ~listening \/ Len(queue) = QLen
  /\ nsecs' = [nsecs EXCEPT ![c] = 2 * @]
  /\ IF 2 * nsecs[c] > MAXTIMES THEN ClientGo(c, "exit1") ELSE UNCHANGED cl
  /\ UNCHANGED netVars

------------------------------------------------------------------------------
(* print_uptime() *)

\* recv() returns some of what has arrived.
Recv(c) ==
  /\ At(c, "recv") /\ chan[c].end # "reset"
  /\ \E n \in 1..(chan[c].sent - chan[c].got) :
       chan' = [chan EXCEPT ![c].got = @ + n]
  /\ UNCHANGED <<cl, nsecs, listening, queue>>

\* Zero at end of file: return 0.
RecvEOF(c) ==
  /\ At(c, "recv") /\ chan[c].end \in {"closed", "cut"}
  /\ chan[c].got = chan[c].sent
  /\ ClientGo(c, "exit0")
  /\ UNCHANGED <<nsecs, netVars>>

\* Mutant: a negative count is taken for end of file.
RecvError_Ignored(c) ==
  /\ At(c, "recv") /\ chan[c].end = "reset"
  /\ ClientGo(c, "exit0")
  /\ UNCHANGED <<nsecs, netVars>>

\* recv error: exit(1).
RecvError(c) ==
  /\ At(c, "recv") /\ chan[c].end = "reset"
  /\ ClientGo(c, "exit1")
  /\ UNCHANGED <<nsecs, netVars>>

\* The client is killed.
ClientDies(c) ==
  /\ cl[c] \in {"connect", "recv"}
  /\ ClientGo(c, "gone")
  /\ UNCHANGED <<nsecs, netVars>>

ClientStep(c) == Connected(c) \/ Refused(c) \/ Recv(c) \/ RecvEOF(c) \/ RecvError(c)

------------------------------------------------------------------------------
ClientTypeOK ==
  /\ cl \in [Clients -> {"connect", "recv", "exit0", "exit1", "gone"}]
  /\ nsecs \in [Clients -> {1, 2, 4, 8, 16}]
  /\ listening \in BOOLEAN
  /\ queue \in Seq(Clients) /\ Len(queue) <= QLen
  /\ \A c \in Clients : /\ chan[c].sent \in 0..Chunks /\ chan[c].got \in 0..chan[c].sent
                        /\ chan[c].end \in {"open", "closed", "cut", "reset"}

\* Lines 87-93: a client that succeeds printed everything the server sent,
\* the whole output of uptime unless the server died in the middle of it.  A
\* connection nobody accepted is an error, not an empty answer.
WholeAnswer ==
  \A c \in Clients : At(c, "exit0") =>
    /\ chan[c].end \in {"closed", "cut"}
    /\ chan[c].got = chan[c].sent
    /\ chan[c].end = "closed" => chan[c].got = Chunks

\* No client waits for ever, served or not.
ClientsOver == \A c \in Clients : cl[c] \in {"exit0", "exit1", "gone"}
ClientsEnd  == <>ClientsOver
==============================================================================
