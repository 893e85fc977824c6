------------------------------ MODULE UniqueConn ------------------------------
(***************************************************************************)
(* 17-advanipc/3-uniqueconn: a client binds its UNIX-domain socket to a    *)
(* name made from its pid, and the server learns from that file who the    *)
(* client is.  Names outlive processes and pids come back, so the file     *)
(* under a name need not be the one the connection was made with.          *)
(***************************************************************************)
EXTENDS Naturals, Sequences

CONSTANTS Clients, \* runs of cli, each of a user of its own, numbered as they start
          Servers, \* runs of srv, numbered as they start
          Pids,
          None     \* no client and no server

ASSUME UniqueConnAssumption ==
  /\ Clients \subseteq Nat /\ Servers \subseteq Nat /\ Clients \cap Servers = {}
  /\ None \notin Clients \cup Servers

VARIABLES cl,      \* what each client does next
          pid,     \* its process id
          reused,  \* clients that share a pid while a server may look at it
          file,    \* the client's name of each pid: [owner, perm, old] or NoFile
          srvname, \* the server whose socket has the well-known name
          srv,     \* what each server does next
          queue,   \* connections a server has not accepted
          conn,    \* the client a server has accepted
          uid,     \* the user srv_accept() found
          sent     \* who has sent its message: clients and servers

clVars  == <<cl, pid, reused>>
srvVars == <<srvname, srv, queue, conn, uid>>
vars    == <<clVars, file, srvVars, sent>>

NoFile == [owner |-> None, perm |-> FALSE, old |-> FALSE]
Over   == {"done", "failed", "killed"}

Init ==
  /\ cl = [c \in Clients |-> "exec"] /\ pid = [c \in Clients |-> None] /\ reused = {}
  /\ file = [p \in Pids |-> NoFile]
  /\ srvname = None
  /\ srv = [s \in Servers |-> "exec"] /\ queue = [s \in Servers |-> <<>>]
  /\ conn = [s \in Servers |-> None] /\ uid = [s \in Servers |-> None]
  /\ sent = {}

Living(c)          == cl[c] \notin Over \cup {"exec"}
ClGo(c, from, to)  == cl[c] = from /\ cl' = [cl EXCEPT ![c] = to]
SrvGo(s, from, to) == srv[s] = from /\ srv' = [srv EXCEPT ![s] = to]
Connected(c, s)    == c = conn[s] \/ \E i \in 1..Len(queue[s]) : queue[s][i] = c

------------------------------------------------------------------------------
(* cli_conn() and main() of the client *)

\* A server has yet to look at, or to remove, the name of this client.
Pending(c) == \E s \in Servers : Connected(c, s) /\ srv[s] \in {"accept", "stat", "unlink"}

\* Mutant: the name is made from an id that living processes share.
Exec_Shared(c) ==
  /\ ClGo(c, "exec", "unlink") /\ \A d \in Clients : d < c => cl[d] # "exec"
  /\ \E p \in Pids :
       /\ pid' = [pid EXCEPT ![c] = p]
       /\ LET before == {d \in Clients : pid[d] = p /\ Pending(d)}
          IN reused' = reused \cup (IF before = {} THEN {} ELSE before \cup {c})
  /\ UNCHANGED <<file, srvVars, sent>>

\* A new process gets a pid nobody alive has.
Exec(c) ==
  /\ ClGo(c, "exec", "unlink") /\ \A d \in Clients : d < c => cl[d] # "exec"
  /\ \E p \in Pids :
       /\ \A d \in Clients : Living(d) => pid[d] # p
       /\ pid' = [pid EXCEPT ![c] = p]
       /\ LET before == {d \in Clients : pid[d] = p /\ Pending(d)}
          IN reused' = reused \cup (IF before = {} THEN {} ELSE before \cup {c})
  /\ UNCHANGED <<file, srvVars, sent>>

\* unlink() of whatever has the name.
Unlink(c) ==
  /\ ClGo(c, "unlink", "bind")
  /\ file' = [file EXCEPT ![pid[c]] = NoFile]
  /\ UNCHANGED <<pid, reused, srvVars, sent>>

Bind(c) ==
  /\ cl[c] = "bind"
  /\ IF file[pid[c]] = NoFile
     THEN /\ ClGo(c, "bind", "chmod")
          /\ file' = [file EXCEPT ![pid[c]] = [owner |-> c, perm |-> FALSE, old |-> FALSE]]
     ELSE ClGo(c, "bind", "failed") /\ UNCHANGED file
  /\ UNCHANGED <<pid, reused, srvVars, sent>>

\* Mutant: connect() first, chmod() never.
Chmod_Skipped(c) == ClGo(c, "chmod", "connect") /\ UNCHANGED <<pid, reused, file, srvVars, sent>>

\* chmod(), which fails when a server has removed the name.
Chmod(c) ==
  /\ cl[c] = "chmod"
  /\ IF file[pid[c]] # NoFile
     THEN ClGo(c, "chmod", "connect") /\ file' = [file EXCEPT ![pid[c]].perm = TRUE]
     ELSE ClGo(c, "chmod", "failed") /\ UNCHANGED file
  /\ UNCHANGED <<pid, reused, srvVars, sent>>

\* connect() needs a listening socket under the well-known name.
Connect(c) ==
  /\ IF srvname # None /\ srv[srvname] \in {"accept", "stat", "unlink", "recv", "send"}
     THEN /\ ClGo(c, "connect", "send")
          /\ queue' = [queue EXCEPT ![srvname] = Append(@, c)]
     ELSE ClGo(c, "connect", "failed") /\ UNCHANGED queue
  /\ UNCHANGED <<pid, reused, file, srvname, srv, conn, uid, sent>>

\* send() to a server that is gone kills the client or fails.
ClientSend(c) ==
  /\ IF \E s \in Servers : Connected(c, s) /\ srv[s] \notin Over
     THEN ClGo(c, "send", "recv") /\ sent' = sent \cup {c}
     ELSE ClGo(c, "send", "failed") /\ UNCHANGED sent
  /\ UNCHANGED <<pid, reused, file, srvVars>>

\* recv() returns the answer, the end of file or a reset.
ClientRecv(c) ==
  /\ \E s \in Servers : /\ Connected(c, s) /\ (srv[s] \in Over \/ (s \in sent /\ conn[s] = c))
                        /\ ClGo(c, "recv", IF s \in sent /\ conn[s] = c THEN "done" ELSE "failed")
  /\ UNCHANGED <<pid, reused, file, srvVars, sent>>

\* A client dies; its name stays.
ClientKilled(c) == /\ Living(c) /\ cl' = [cl EXCEPT ![c] = "killed"]
                   /\ UNCHANGED <<pid, reused, file, srvVars, sent>>

\* More than STALE seconds go by.
GetsOld(p) == /\ file[p] # NoFile /\ ~file[p].old
              /\ file' = [file EXCEPT ![p].old = TRUE]
              /\ UNCHANGED <<clVars, srvVars, sent>>

------------------------------------------------------------------------------
(* srv_listen(), srv_accept() and main() of the server *)

\* unlink(name) takes the name from a server that still has it.
SrvUnlink(s) == /\ SrvGo(s, "exec", "bind") /\ \A t \in Servers : t < s => srv[t] # "exec"
                /\ srvname' = None
                /\ UNCHANGED <<clVars, file, queue, conn, uid, sent>>

SrvBind(s) ==
  /\ IF srvname = None
     THEN SrvGo(s, "bind", "listen") /\ srvname' = s
     ELSE SrvGo(s, "bind", "failed") /\ UNCHANGED srvname
  /\ UNCHANGED <<clVars, file, queue, conn, uid, sent>>

Listen(s) == /\ SrvGo(s, "listen", "accept")
             /\ UNCHANGED <<clVars, file, srvname, queue, conn, uid, sent>>

\* Mutant: accept() returns when nobody is there.
Accept_Empty(s) == /\ SrvGo(s, "accept", "stat") /\ queue[s] = <<>>
                   /\ UNCHANGED <<clVars, file, srvname, queue, conn, uid, sent>>

Accept(s) == /\ SrvGo(s, "accept", "stat") /\ queue[s] # <<>>
             /\ conn'  = [conn EXCEPT ![s] = Head(queue[s])]
             /\ queue' = [queue EXCEPT ![s] = Tail(@)]
             /\ UNCHANGED <<clVars, file, srvname, uid, sent>>

NameOf(s) == file[pid[conn[s]]]

\* stat(), rwx------ and not older than STALE seconds.
Acceptable(s) == NameOf(s) # NoFile /\ NameOf(s).perm /\ ~NameOf(s).old

Stat(s) ==
  /\ srv[s] = "stat"
  /\ IF Acceptable(s)
     THEN SrvGo(s, "stat", "unlink") /\ uid' = [uid EXCEPT ![s] = NameOf(s).owner]
     ELSE SrvGo(s, "stat", "failed") /\ UNCHANGED uid
  /\ UNCHANGED <<clVars, file, srvname, queue, conn, sent>>

\* Mutant: the name is left behind.
SrvAccepted_Keeps(s) == /\ SrvGo(s, "unlink", "recv")
                        /\ UNCHANGED <<clVars, file, srvname, queue, conn, uid, sent>>

\* unlink() of the client's name; that it may fail is only reported.
SrvAccepted(s) == /\ SrvGo(s, "unlink", "recv")
                  /\ file' = [file EXCEPT ![pid[conn[s]]] = NoFile]
                  /\ UNCHANGED <<clVars, srvname, queue, conn, uid, sent>>

\* recv() returns the message, or the end of file of a client that is gone.
SrvRecv(s) == /\ SrvGo(s, "recv", "send")
              /\ conn[s] \in sent \/ cl[conn[s]] \in Over
              /\ UNCHANGED <<clVars, file, srvname, queue, conn, uid, sent>>

\* Mutant: the server waits for the end of the client.
SrvSend_Waits(s) == /\ SrvGo(s, "send", "done") /\ cl[conn[s]] \in Over
                    /\ sent' = sent \cup {s}
                    /\ UNCHANGED <<clVars, file, srvname, queue, conn, uid>>

\* send(), which a client that is gone makes fail, and return.
SrvSend(s) ==
  /\ srv[s] = "send"
  /\ IF cl[conn[s]] \in Over
     THEN SrvGo(s, "send", "failed") /\ UNCHANGED sent
     ELSE SrvGo(s, "send", "done") /\ sent' = sent \cup {s}
  /\ UNCHANGED <<clVars, file, srvname, queue, conn, uid>>

SrvKilled(s) == /\ srv[s] \notin Over \cup {"exec"} /\ srv' = [srv EXCEPT ![s] = "killed"]
                /\ UNCHANGED <<clVars, file, srvname, queue, conn, uid, sent>>

------------------------------------------------------------------------------
ClientStep(c) == \/ Unlink(c) \/ Bind(c) \/ Chmod(c) \/ Connect(c)
                 \/ ClientSend(c) \/ ClientRecv(c)
ServerStep(s) == \/ SrvBind(s) \/ Listen(s) \/ Accept(s) \/ Stat(s)
                 \/ SrvAccepted(s) \/ SrvRecv(s) \/ SrvSend(s)

Next == \/ \E c \in Clients : Exec(c) \/ ClientStep(c) \/ ClientKilled(c)
        \/ \E s \in Servers : SrvUnlink(s) \/ ServerStep(s) \/ SrvKilled(s)
        \/ \E p \in Pids : GetsOld(p)

Spec == Init /\ [][Next]_vars

\* Programs that were started are scheduled.
FairSpec == Spec /\ (\A c \in Clients : WF_vars(ClientStep(c)))
                 /\ (\A s \in Servers : WF_vars(ServerStep(s)))

------------------------------------------------------------------------------
(* What must hold *)

TypeOK ==
  /\ cl \in [Clients -> Over \cup {"exec", "unlink", "bind", "chmod", "connect", "send", "recv"}]
  /\ pid \in [Clients -> Pids \cup {None}] /\ reused \subseteq Clients
  /\ file \in [Pids -> [owner : Clients \cup {None}, perm : BOOLEAN, old : BOOLEAN]]
  /\ srvname \in Servers \cup {None}
  /\ srv \in [Servers -> Over \cup {"exec", "bind", "listen", "accept", "stat", "unlink", "recv", "send"}]
  /\ queue \in [Servers -> Seq(Clients)]
  /\ conn \in [Servers -> Clients \cup {None}] /\ uid \in [Servers -> Clients \cup {None}]
  /\ \A s \in Servers : (srv[s] \in {"stat", "unlink", "recv", "send", "done"}) => conn[s] # None
  /\ sent \subseteq Clients \cup Servers

\* Server, lines 55-58: the user that srv_accept() returns is the one whose
\* connection it is, as long as the client's pid was not given to another
\* client before the server was done with the name; and the name that client
\* has bound is gone, even when another process with its pid has come by.
UserOfConnection ==
  \A s \in Servers :
    /\ srv[s] \in {"unlink", "recv", "send", "done"} /\ conn[s] \notin reused => uid[s] = conn[s]
    /\ srv[s] \in {"recv", "send", "done"} => NameOf(s).owner # conn[s]

\* A client is turned away only when its name is too old, or its pid was
\* reused: a name left behind by a dead client never does that to another.
TurnedAwayForCause ==
  [][\A s \in Servers : srv[s] = "stat" /\ srv'[s] = "failed" =>
       conn[s] \in reused \/ NameOf(s).old]_vars

\* A client whose server serves it or ends gets to its end.
ClientsEnd ==
  \A c \in Clients : \A s \in Servers :
    (Connected(c, s) /\ conn[s] = c) ~> (cl[c] \in Over)
==============================================================================
