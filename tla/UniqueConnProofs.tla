--------------------------- MODULE UniqueConnProofs ---------------------------
(***************************************************************************)
(* Proofs about UniqueConn for any number of clients, servers and pids,    *)
(* whoever is killed and however often a pid comes back.                   *)
(***************************************************************************)
EXTENDS UniqueConn, TLAPS

\* A connection was made by a client that had got as far as connect(), with a
\* server that listens or did; a client connects once.
Linked ==
  \A c \in Clients, s \in Servers : Connected(c, s) =>
    cl[c] \in {"send", "recv"} \cup Over /\ srv[s] \notin {"exec", "bind", "listen"}
OneServer ==
  \A c \in Clients, s, t \in Servers : Connected(c, s) /\ Connected(c, t) => s = t

HasPid == \A c \in Clients : cl[c] # "exec" => pid[c] \in Pids
OnePid == \A c, d \in Clients : Living(c) /\ Living(d) /\ pid[c] = pid[d] => c = d

\* A client whose name matters, to itself or to a server, and another one with
\* the same pid: that is what reused records.
Active(c) == Living(c) \/ Pending(c)
SharedPid ==
  \A c, d \in Clients : c # d /\ pid[c] = pid[d] /\ Active(c) /\ Active(d) =>
    c \in reused /\ d \in reused

\* The file under the name of a client whose pid was not reused is its own from
\* bind() until a server has removed it.
OwnName ==
  \A c \in Clients \ reused :
    /\ cl[c] = "chmod" => file[pid[c]].owner = c
    /\ cl[c] = "connect" \/ Pending(c) => file[pid[c]].owner = c /\ file[pid[c]].perm

Pids_ == HasPid /\ OnePid /\ SharedPid
Links == Linked /\ OneServer
IInv  == TypeOK /\ Links /\ Pids_ /\ OwnName /\ UserOfConnection

------------------------------------------------------------------------------
LEMMA InitIInv == Init => IInv
<1> SUFFICES ASSUME Init PROVE IInv
  OBVIOUS
<1>1. TypeOK
  BY DEF Init, TypeOK, NoFile, Over
<1>2. \A c \in Clients, s \in Servers : ~Connected(c, s)
  BY UniqueConnAssumption DEF Init, Connected
<1>3. \A c \in Clients : cl[c] = "exec" /\ ~Living(c) /\ ~Pending(c)
  BY <1>2 DEF Init, Living, Pending
<1> QED
  BY <1>1, <1>2, <1>3
     DEF IInv, Links, Linked, OneServer, Pids_, HasPid, OnePid, SharedPid, Active, OwnName,
         UserOfConnection, Init

------------------------------------------------------------------------------
(* What keeps each part of the invariant *)

\* No connection comes into being.
LEMMA LinksKept ==
  ASSUME Links, \A c \in Clients, s \in Servers : Connected(c, s)' => Connected(c, s),
         \A c \in Clients : cl[c] \in {"send", "recv"} \cup Over => cl'[c] \in {"send", "recv"} \cup Over,
         \A s \in Servers : srv[s] \notin {"exec", "bind", "listen"} => srv'[s] \notin {"exec", "bind", "listen"}
  PROVE  Links'
BY DEF Links, Linked, OneServer

\* No name comes to matter again.
LEMMA PidsKept ==
  ASSUME Pids_, pid' = pid, reused' = reused,
         \A c \in Clients : /\ cl'[c] # "exec" => cl[c] # "exec"
                            /\ Living(c)' => Living(c)
                            /\ Pending(c)' => Active(c)
  PROVE  Pids_'
<1>1. \A c \in Clients : Active(c)' => Active(c)
  BY DEF Active
<1> QED
  BY <1>1 DEF Pids_, HasPid, OnePid, SharedPid

\* The name of an active client changes, and nobody else's with a pid of its own.
LEMMA OwnNameKept ==
  ASSUME SharedPid, OwnName, HasPid, Linked, NEW c \in Clients, Active(c),
         pid' = pid, reused' = reused, \A p \in Pids \ {pid[c]} : file'[p] = file[p],
         \A d \in Clients \ {c} : cl'[d] = cl[d],
         \A d \in Clients : Pending(d)' => Pending(d),
         c \notin reused =>
           /\ cl'[c] = "chmod" => file'[pid[c]].owner = c
           /\ cl'[c] = "connect" \/ Pending(c)' => file'[pid[c]].owner = c /\ file'[pid[c]].perm
  PROVE  OwnName'
<1> SUFFICES ASSUME NEW d \in Clients \ reused, d # c,
                    cl'[d] \in {"chmod", "connect"} \/ Pending(d)'
             PROVE  /\ cl'[d] = "chmod" => file'[pid[d]].owner = d
                    /\ cl'[d] = "connect" \/ Pending(d)' => file'[pid[d]].owner = d /\ file'[pid[d]].perm
  BY DEF OwnName
<1>1. Active(d)
  BY DEF Active, Living, Over
<1>2. pid[d] # pid[c]
  BY <1>1 DEF SharedPid
<1>3. cl[d] # "exec"
  BY DEF Pending, Linked, Over
<1>4. file'[pid[d]] = file[pid[d]]
  BY <1>2, <1>3 DEF HasPid
<1> QED
  BY <1>4 DEF OwnName

\* No name changes but by growing old.
LEMMA OwnNameRests ==
  ASSUME OwnName, \A c \in Clients : c \in reused => c \in reused',
         \A c \in Clients :
           /\ cl'[c] \in {"chmod", "connect"} => cl'[c] = cl[c]
           /\ Pending(c)' => Pending(c) \/ cl[c] = "connect"
           /\ cl'[c] \in {"chmod", "connect"} \/ Pending(c)' =>
                /\ pid'[c] = pid[c] /\ file'[pid[c]].owner = file[pid[c]].owner
                /\ file'[pid[c]].perm = file[pid[c]].perm
  PROVE  OwnName'
BY DEF OwnName

\* Servers that have not accepted, or have asked for the user before, go on as they
\* were, and no client that is connected binds its name anew.
LEMMA UserKept ==
  ASSUME UserOfConnection, Links, TypeOK, HasPid, \A c \in Clients : c \in reused => c \in reused',
         \A s \in Servers :
           /\ srv'[s] \in {"unlink", "recv", "send", "done"} =>
                /\ srv[s] \in {"unlink", "recv", "send", "done"}
                /\ conn'[s] = conn[s] /\ uid'[s] = uid[s] /\ pid'[conn[s]] = pid[conn[s]]
           /\ srv'[s] \in {"recv", "send", "done"} => srv[s] \in {"recv", "send", "done"},
         \A p \in Pids : \/ file'[p].owner \in {file[p].owner, None}
                         \/ \A s \in Servers : ~Connected(file'[p].owner, s)
  PROVE  UserOfConnection'
<1> SUFFICES ASSUME NEW s \in Servers
             PROVE  /\ srv'[s] \in {"unlink", "recv", "send", "done"} /\ conn'[s] \notin reused' =>
                         uid'[s] = conn'[s]
                    /\ srv'[s] \in {"recv", "send", "done"} => file'[pid'[conn'[s]]].owner # conn'[s]
  BY DEF UserOfConnection, NameOf
<1>1. ASSUME srv'[s] \in {"unlink", "recv", "send", "done"}
      PROVE  /\ conn[s] \in Clients /\ conn[s] # None /\ Connected(conn[s], s)
             /\ pid[conn[s]] \in Pids
  <2>1. conn[s] \in Clients /\ conn[s] # None
    BY <1>1, UniqueConnAssumption DEF TypeOK
  <2>2. Connected(conn[s], s)
    BY DEF Connected
  <2> QED
    BY <2>1, <2>2 DEF Links, Linked, HasPid, Over
<1> QED
  BY <1>1 DEF UserOfConnection, NameOf

------------------------------------------------------------------------------
(* The steps of the clients *)

ClientPC == Over \cup {"exec", "unlink", "bind", "chmod", "connect", "send", "recv"}

\* A client that runs goes on to another of its steps; the servers rest.
Moves(c, to) ==
  /\ cl' = [cl EXCEPT ![c] = to]
  /\ UNCHANGED <<pid, reused, srvVars>>
  /\ file' \in [Pids -> [owner : Clients \cup {None}, perm : BOOLEAN, old : BOOLEAN]]
  /\ sent' \subseteq Clients \cup Servers
  /\ cl[c] \in {"send", "recv"} => to \in {"recv"} \cup Over
  /\ \A p \in Pids : file'[p].owner \in {file[p].owner, None}
                     \/ (file'[p].owner = c /\ cl[c] = "bind")

LEMMA ClientMoves ==
  ASSUME IInv, NEW c \in Clients, NEW to \in ClientPC \ {"exec"}, Living(c), Moves(c, to)
  PROVE  /\ TypeOK' /\ Links' /\ Pids_' /\ UserOfConnection'
         /\ cl'[c] = to /\ \A d \in Clients \ {c} : cl'[d] = cl[d]
         /\ \A d \in Clients : Pending(d)' = Pending(d)
<1> USE DEF Moves
<1>1. /\ cl' \in [Clients -> ClientPC] /\ cl'[c] = to
      /\ \A d \in Clients \ {c} : cl'[d] = cl[d]
      /\ cl[c] \notin Over \cup {"exec"}
  BY DEF IInv, TypeOK, ClientPC, Living
<1>2. UNCHANGED <<pid, reused, srvname, srv, queue, conn, uid>>
  BY DEF srvVars
<1>3. /\ \A d \in Clients, s \in Servers : Connected(d, s)' = Connected(d, s)
      /\ \A d \in Clients : Pending(d)' = Pending(d)
  BY <1>2 DEF Connected, Pending
<1>4. TypeOK'
  BY <1>1, <1>2 DEF IInv, TypeOK, ClientPC
<1>5. Links'
  BY <1>1, <1>2, <1>3, LinksKept DEF IInv
<1>6. Pids_'
  BY <1>1, <1>2, <1>3, PidsKept DEF IInv, Living, Active
<1>7. UserOfConnection'
  <2>1. cl[c] = "bind" => \A s \in Servers : ~Connected(c, s)
    BY DEF IInv, Links, Linked, Over
  <2> QED
    BY <1>2, <2>1, UserKept DEF IInv, Pids_
<1> QED
  BY <1>1, <1>3, <1>4, <1>5, <1>6, <1>7

\* Unlink(c), Bind(c) and Chmod(c) change the file under the client's own name.
LEMMA UnlinkInv ==
  ASSUME IInv, NEW c \in Clients, Unlink(c)
  PROVE  IInv'
<1>1. /\ cl[c] = "unlink" /\ Living(c) /\ Active(c) /\ pid[c] \in Pids /\ ~Pending(c)
      /\ UNCHANGED <<pid, reused>>
  BY DEF Unlink, ClGo, Living, Active, Over, IInv, Pids_, HasPid, Links, Linked, Pending
<1>2. /\ file' \in [Pids -> [owner : Clients \cup {None}, perm : BOOLEAN, old : BOOLEAN]]
      /\ \A p \in Pids : file'[p] = IF p = pid[c] THEN NoFile ELSE file[p]
  BY DEF Unlink, IInv, TypeOK, NoFile
<1>3. Moves(c, "bind")
  BY <1>1, <1>2 DEF Unlink, ClGo, Moves, NoFile, IInv, TypeOK
<1>4. "bind" \in ClientPC \ {"exec"}
  BY DEF ClientPC
<1>5. /\ TypeOK' /\ Links' /\ Pids_' /\ UserOfConnection'
      /\ cl'[c] = "bind" /\ \A d \in Clients \ {c} : cl'[d] = cl[d]
      /\ \A d \in Clients : Pending(d)' = Pending(d)
  BY <1>1, <1>3, <1>4, ClientMoves
<1>6. OwnName'
  BY <1>1, <1>2, <1>5, OwnNameKept DEF IInv, Pids_, Links
<1> QED
  BY <1>5, <1>6 DEF IInv

LEMMA BindInv ==
  ASSUME IInv, NEW c \in Clients, Bind(c)
  PROVE  IInv'
<1>1. /\ cl[c] = "bind" /\ Living(c) /\ Active(c) /\ pid[c] \in Pids /\ ~Pending(c)
      /\ UNCHANGED <<pid, reused>>
  BY DEF Bind, ClGo, Living, Active, Over, IInv, Pids_, HasPid, Links, Linked, Pending
<1>2. PICK to \in {"chmod", "failed"} :
        /\ cl' = [cl EXCEPT ![c] = to]
        /\ to = "chmod" => file' = [file EXCEPT ![pid[c]] = [owner |-> c, perm |-> FALSE, old |-> FALSE]]
        /\ to = "failed" => file' = file
  BY DEF Bind, ClGo
<1>3. /\ file' \in [Pids -> [owner : Clients \cup {None}, perm : BOOLEAN, old : BOOLEAN]]
      /\ \A p \in Pids : file'[p] = IF p = pid[c] /\ to = "chmod"
                                    THEN [owner |-> c, perm |-> FALSE, old |-> FALSE] ELSE file[p]
  <2> DEFINE own == [owner |-> c, perm |-> FALSE, old |-> FALSE]
  <2>1. file \in [Pids -> [owner : Clients \cup {None}, perm : BOOLEAN, old : BOOLEAN]]
    BY DEF IInv, TypeOK
  <2>2. own \in [owner : Clients \cup {None}, perm : BOOLEAN, old : BOOLEAN]
    OBVIOUS
  <2> HIDE DEF own
  <2>3. CASE to = "chmod"
    <3>1. file' = [file EXCEPT ![pid[c]] = own]
      BY <1>2, <2>3 DEF own
    <3>2. /\ file' \in [Pids -> [owner : Clients \cup {None}, perm : BOOLEAN, old : BOOLEAN]]
          /\ \A p \in Pids : file'[p] = IF p = pid[c] THEN own ELSE file[p]
      BY <2>1, <2>2, <3>1
    <3> QED
      BY <2>3, <3>2 DEF own
  <2>4. CASE to = "failed"
    BY <1>2, <2>1, <2>4
  <2> QED
    BY <2>3, <2>4
<1>4. Moves(c, to)
  BY <1>1, <1>2, <1>3 DEF Bind, Moves, IInv, TypeOK
<1>5. to \in ClientPC \ {"exec"}
  BY DEF ClientPC, Over
<1>6. /\ TypeOK' /\ Links' /\ Pids_' /\ UserOfConnection'
      /\ cl'[c] = to /\ \A d \in Clients \ {c} : cl'[d] = cl[d]
      /\ \A d \in Clients : Pending(d)' = Pending(d)
  BY <1>1, <1>4, <1>5, ClientMoves
<1>7. OwnName'
  BY <1>1, <1>3, <1>6, OwnNameKept DEF IInv, Pids_, Links
<1> QED
  BY <1>6, <1>7 DEF IInv

LEMMA ChmodInv ==
  ASSUME IInv, NEW c \in Clients, Chmod(c)
  PROVE  IInv'
<1>1. /\ cl[c] = "chmod" /\ Living(c) /\ Active(c) /\ pid[c] \in Pids /\ ~Pending(c)
      /\ UNCHANGED <<pid, reused>>
  BY DEF Chmod, ClGo, Living, Active, Over, IInv, Pids_, HasPid, Links, Linked, Pending
<1>2. PICK to \in {"connect", "failed"} :
        /\ cl' = [cl EXCEPT ![c] = to]
        /\ to = "connect" => file' = [file EXCEPT ![pid[c]].perm = TRUE]
        /\ to = "failed" => file' = file
  BY DEF Chmod, ClGo
<1>3. /\ file' \in [Pids -> [owner : Clients \cup {None}, perm : BOOLEAN, old : BOOLEAN]]
      /\ \A p \in Pids \ {pid[c]} : file'[p] = file[p]
      /\ file'[pid[c]].owner = file[pid[c]].owner
      /\ to = "connect" => file'[pid[c]].perm
  <2>1. file \in [Pids -> [owner : Clients \cup {None}, perm : BOOLEAN, old : BOOLEAN]]
    BY DEF IInv, TypeOK
  <2>2. CASE to = "connect"
    <3>1. [file[pid[c]] EXCEPT !.perm = TRUE] \in [owner : Clients \cup {None}, perm : BOOLEAN, old : BOOLEAN]
      BY <1>1, <2>1
    <3>2. file' = [file EXCEPT ![pid[c]] = [file[pid[c]] EXCEPT !.perm = TRUE]]
      BY <1>2, <2>2
    <3>3. file' \in [Pids -> [owner : Clients \cup {None}, perm : BOOLEAN, old : BOOLEAN]]
      BY <2>1, <3>1, <3>2
    <3>4. \A p \in Pids \ {pid[c]} : file'[p] = file[p]
      BY <2>1, <3>2
    <3>5. file'[pid[c]].owner = file[pid[c]].owner /\ file'[pid[c]].perm
      BY <1>1, <2>1, <3>2
    <3> QED
      BY <3>3, <3>4, <3>5
  <2>3. CASE to = "failed"
    BY <1>2, <2>1, <2>3
  <2> QED
    BY <2>2, <2>3
<1>4. Moves(c, to)
  BY <1>1, <1>2, <1>3 DEF Chmod, Moves, IInv, TypeOK
<1>5. to \in ClientPC \ {"exec"}
  BY DEF ClientPC, Over
<1>6. /\ TypeOK' /\ Links' /\ Pids_' /\ UserOfConnection'
      /\ cl'[c] = to /\ \A d \in Clients \ {c} : cl'[d] = cl[d]
      /\ \A d \in Clients : Pending(d)' = Pending(d)
  BY <1>1, <1>4, <1>5, ClientMoves
<1>7. OwnName'
  <2>1. c \notin reused => file[pid[c]].owner = c
    BY <1>1 DEF IInv, OwnName
  <2> QED
    BY <1>1, <1>3, <1>6, <2>1, OwnNameKept DEF IInv, Pids_, Links
<1> QED
  BY <1>6, <1>7 DEF IInv

\* The other steps of a client leave the files as they are.
LEMMA ClientRests ==
  ASSUME IInv, NEW c \in Clients, NEW to \in {"recv"} \cup Over, Living(c),
         cl' = [cl EXCEPT ![c] = to], UNCHANGED <<pid, reused, file, srvVars>>,
         sent' \subseteq Clients \cup Servers
  PROVE  IInv'
<1>1. to \in ClientPC \ {"exec"} /\ to \notin {"chmod", "connect"}
  BY DEF ClientPC, Over
<1>2. Moves(c, to)
  BY DEF Moves, IInv, TypeOK
<1>3. /\ TypeOK' /\ Links' /\ Pids_' /\ UserOfConnection'
      /\ cl'[c] = to /\ \A d \in Clients \ {c} : cl'[d] = cl[d]
      /\ \A d \in Clients : Pending(d)' = Pending(d)
  BY <1>1, <1>2, ClientMoves
<1>4. OwnName'
  BY <1>1, <1>3, OwnNameRests DEF IInv
<1> QED
  BY <1>3, <1>4 DEF IInv

LEMMA ClientRestsInv ==
  ASSUME IInv, NEW c \in Clients, ClientSend(c) \/ ClientRecv(c) \/ ClientKilled(c)
  PROVE  IInv'
<1>1. /\ UNCHANGED <<pid, reused, file, srvVars>>
      /\ sent' \subseteq Clients \cup Servers /\ Living(c)
  BY DEF ClientSend, ClientRecv, ClientKilled, ClGo, Living, Over, IInv, TypeOK
<1>2. \E to \in {"recv"} \cup Over : cl' = [cl EXCEPT ![c] = to]
  BY DEF ClientSend, ClientRecv, ClientKilled, ClGo, Over
<1> QED
  BY <1>1, <1>2, ClientRests

\* Exec(c): a pid that comes back while a server may look at its name.
LEMMA ExecInv ==
  ASSUME IInv, NEW c \in Clients, Exec(c)
  PROVE  IInv'
<1>1. PICK p \in Pids :
        /\ \A d \in Clients : Living(d) => pid[d] # p
        /\ pid' = [pid EXCEPT ![c] = p]
        /\ LET before == {d \in Clients : pid[d] = p /\ Pending(d)}
           IN reused' = reused \cup (IF before = {} THEN {} ELSE before \cup {c})
  BY DEF Exec
<1>2. /\ cl[c] = "exec" /\ cl' = [cl EXCEPT ![c] = "unlink"]
      /\ UNCHANGED <<file, srvname, srv, queue, conn, uid, sent>>
  BY DEF Exec, ClGo, srvVars
<1>3. /\ \A d \in Clients : /\ cl'[d] = IF d = c THEN "unlink" ELSE cl[d]
                            /\ pid'[d] = IF d = c THEN p ELSE pid[d]
      /\ reused' \subseteq Clients /\ \A d \in reused : d \in reused'
      /\ \A d \in Clients : pid[d] = p /\ Pending(d) => d \in reused' /\ c \in reused'
  <2>1. cl \in [Clients -> ClientPC] /\ pid \in [Clients -> Pids \cup {None}] /\ reused \subseteq Clients
    BY DEF IInv, TypeOK, ClientPC
  <2>2. \A d \in Clients : /\ cl'[d] = IF d = c THEN "unlink" ELSE cl[d]
                           /\ pid'[d] = IF d = c THEN p ELSE pid[d]
    BY <1>1, <1>2, <2>1
  <2> QED
    BY <1>1, <2>1, <2>2
<1>4. /\ \A d \in Clients, s \in Servers : Connected(d, s)' = Connected(d, s)
      /\ \A d \in Clients : Pending(d)' = Pending(d)
      /\ ~Pending(c) /\ \A s \in Servers : ~Connected(c, s)
  BY <1>2 DEF Connected, Pending, IInv, Links, Linked, Over
<1>5. TypeOK'
  <2>1. cl' \in [Clients -> ClientPC] /\ pid' \in [Clients -> Pids \cup {None}]
    BY <1>1, <1>2 DEF IInv, TypeOK, ClientPC
  <2> QED
    BY <1>2, <1>3, <2>1 DEF IInv, TypeOK, ClientPC
<1>6. Links'
  BY <1>2, <1>3, <1>4, LinksKept DEF IInv, Over
<1>7. \A d \in Clients \ {c} : /\ Living(d)' = Living(d) /\ Active(d)' = Active(d)
                               /\ Living(d) => pid[d] # p
  BY <1>1, <1>3, <1>4 DEF Living, Active
<1>8. HasPid' /\ OnePid'
  BY <1>3, <1>7 DEF IInv, Pids_, HasPid, OnePid
<1>9. SharedPid'
  <2> SUFFICES ASSUME NEW d \in Clients, NEW e \in Clients, d # e, pid'[d] = pid'[e],
                      Active(d)', Active(e)'
               PROVE  d \in reused' /\ e \in reused'
    BY DEF SharedPid
  <2>1. CASE d # c /\ e # c
    BY <1>3, <1>7, <2>1 DEF IInv, Pids_, SharedPid
  <2>2. CASE d = c
    BY <1>3, <1>7, <2>2 DEF Active
  <2>3. CASE e = c
    BY <1>3, <1>7, <2>3 DEF Active
  <2> QED
    BY <2>1, <2>2, <2>3
<1>10. OwnName'
  <2>1. \A d \in Clients : cl'[d] \in {"chmod", "connect"} \/ Pending(d)' => d # c
    BY <1>3, <1>4
  <2> QED
    BY <1>2, <1>3, <1>4, <2>1, OwnNameRests DEF IInv
<1>11. UserOfConnection'
  <2>1. \A s \in Servers : srv[s] \in {"unlink", "recv", "send", "done"} => conn[s] \in Clients \ {c}
    <3>1. \A s \in Servers : srv[s] \in {"unlink", "recv", "send", "done"} => conn[s] \in Clients
      BY DEF IInv, TypeOK
    <3> QED
      BY <1>4, <3>1 DEF Connected
  <2>2. \A s \in Servers : srv[s] \in {"unlink", "recv", "send", "done"} => pid'[conn[s]] = pid[conn[s]]
    BY <1>3, <2>1
  <2> QED
    BY <1>2, <1>3, <2>2, UserKept DEF IInv, Pids_
<1> QED
  BY <1>5, <1>6, <1>8, <1>9, <1>10, <1>11 DEF IInv, Pids_

\* Connect(c): from here on a server may look at the client's name.
LEMMA ConnectInv ==
  ASSUME IInv, NEW c \in Clients, Connect(c)
  PROVE  IInv'
<1>1. /\ cl[c] = "connect" /\ Living(c) /\ \A s \in Servers : ~Connected(c, s)
      /\ UNCHANGED <<pid, reused, file, srvname, srv, conn, uid, sent>>
  BY DEF Connect, ClGo, Living, Over, IInv, Links, Linked
<1>2. PICK to \in {"send", "failed"} :
        /\ cl' = [cl EXCEPT ![c] = to]
        /\ to = "send" => /\ srvname \in Servers /\ srv[srvname] \in {"accept", "stat", "unlink", "recv", "send"}
                          /\ queue' = [queue EXCEPT ![srvname] = Append(@, c)]
        /\ to = "failed" => queue' = queue
  BY DEF Connect, ClGo, IInv, TypeOK
<1>3. \A d \in Clients : cl'[d] = IF d = c THEN to ELSE cl[d]
  BY <1>2 DEF IInv, TypeOK
<1>4. /\ queue' \in [Servers -> Seq(Clients)]
      /\ \A d \in Clients, s \in Servers :
           Connected(d, s)' => Connected(d, s) \/ (d = c /\ s = srvname /\ to = "send")
  <2>1. queue \in [Servers -> Seq(Clients)]
    BY DEF IInv, TypeOK
  <2>2. CASE to = "send"
    <3>1. srvname \in Servers /\ queue' = [queue EXCEPT ![srvname] = Append(queue[srvname], c)]
      BY <1>2, <2>2
    <3>2. queue' \in [Servers -> Seq(Clients)]
      BY <2>1, <3>1
    <3>3. \A s \in Servers : s # srvname => queue'[s] = queue[s]
      BY <2>1, <3>1
    <3>4. \A d \in Clients, i \in 1..Len(queue'[srvname]) :
            queue'[srvname][i] = d => d = c \/ \E j \in 1..Len(queue[srvname]) : queue[srvname][j] = d
      BY <2>1, <3>1
    <3> QED
      BY <1>1, <2>2, <3>2, <3>3, <3>4 DEF Connected
  <2>3. CASE to = "failed"
    BY <1>1, <1>2, <2>1, <2>3 DEF Connected
  <2> QED
    BY <2>2, <2>3
<1>5. TypeOK'
  <2>1. cl' \in [Clients -> ClientPC]
    BY <1>2 DEF IInv, TypeOK, ClientPC, Over
  <2> QED
    BY <1>1, <1>4, <2>1 DEF IInv, TypeOK, ClientPC
<1>6. Links'
  <2>1. Linked'
    BY <1>1, <1>2, <1>3, <1>4 DEF IInv, Links, Linked, Over
  <2>2. OneServer'
    BY <1>1, <1>4 DEF IInv, Links, OneServer
  <2> QED
    BY <2>1, <2>2 DEF Links
<1>7. \A d \in Clients : Pending(d)' => Pending(d) \/ d = c
  BY <1>1, <1>4 DEF Pending
<1>8. Pids_'
  BY <1>1, <1>3, <1>7, PidsKept DEF IInv, Living, Active
<1>9. OwnName'
  BY <1>1, <1>2, <1>3, <1>7, OwnNameRests DEF IInv
<1>10. UserOfConnection'
  BY <1>1, UserKept DEF IInv, Pids_
<1> QED
  BY <1>5, <1>6, <1>8, <1>9, <1>10 DEF IInv

------------------------------------------------------------------------------
(* The steps of the servers *)

ServerPC == Over \cup {"exec", "bind", "listen", "accept", "stat", "unlink", "recv", "send"}

\* A server goes on to another of its steps; the clients rest and no connection
\* comes into being.
LEMMA ServerMoves ==
  ASSUME IInv, NEW s \in Servers, NEW to \in ServerPC \ {"exec"},
         srv' = [srv EXCEPT ![s] = to], UNCHANGED <<cl, pid, reused>>,
         file' \in [Pids -> [owner : Clients \cup {None}, perm : BOOLEAN, old : BOOLEAN]],
         srvname' \in Servers \cup {None}, sent' \subseteq Clients \cup Servers,
         queue' \in [Servers -> Seq(Clients)],
         conn' \in [Servers -> Clients \cup {None}], uid' \in [Servers -> Clients \cup {None}],
         \A t \in Servers \ {s} : conn'[t] = conn[t],
         to \in {"stat", "unlink", "recv", "send", "done"} => conn'[s] # None,
         \A c \in Clients, t \in Servers : Connected(c, t)' => Connected(c, t),
         srv[s] \notin {"exec", "bind", "listen"} => to \notin {"bind", "listen"},
         to \in {"accept", "stat", "unlink"} => srv[s] \in {"listen", "accept", "stat", "unlink"}
  PROVE  /\ TypeOK' /\ Links' /\ Pids_'
         /\ \A c \in Clients : Pending(c)' => Pending(c)
         /\ srv'[s] = to /\ \A t \in Servers \ {s} : srv'[t] = srv[t]
<1>1. /\ srv' \in [Servers -> ServerPC]
      /\ srv'[s] = to /\ \A t \in Servers \ {s} : srv'[t] = srv[t]
  BY DEF IInv, TypeOK, ServerPC
<1>2. TypeOK'
  BY <1>1 DEF IInv, TypeOK, ServerPC
<1>3. Links'
  BY <1>1, LinksKept DEF IInv, ServerPC
<1>4. \A c \in Clients : Pending(c)' => Pending(c)
  <2>1. \A c \in Clients : srv[s] = "listen" => ~Connected(c, s)
    BY DEF IInv, Links, Linked
  <2> QED
    BY <1>1, <2>1 DEF Pending
<1>5. Pids_'
  BY <1>4, PidsKept DEF IInv, Living, Active
<1> QED
  BY <1>1, <1>2, <1>3, <1>4, <1>5

\* The steps of a server that leave the names of the clients alone.
Rests(s, to) ==
  /\ srv' = [srv EXCEPT ![s] = to]
  /\ UNCHANGED <<cl, pid, reused, file, queue, conn, uid>>
  /\ srvname' \in Servers \cup {None} /\ sent' \subseteq Clients \cup Servers
  /\ srv[s] \notin {"exec", "bind", "listen"} => to \notin {"bind", "listen"}
  /\ to = "accept" => srv[s] = "listen"
  /\ to = "send" => srv[s] = "recv"
  /\ to = "done" => srv[s] = "send"

LEMMA ServerRests ==
  ASSUME IInv, NEW s \in Servers, NEW to \in ServerPC \ {"exec", "stat", "unlink", "recv"},
         Rests(s, to)
  PROVE  IInv'
<1> USE DEF Rests
<1>1. /\ TypeOK' /\ Links' /\ Pids_'
      /\ \A c \in Clients : Pending(c)' => Pending(c)
      /\ srv'[s] = to /\ \A t \in Servers \ {s} : srv'[t] = srv[t]
  <2>1. \A c \in Clients, t \in Servers : Connected(c, t)' => Connected(c, t)
    BY DEF Connected
  <2>2. to \in {"stat", "unlink", "recv", "send", "done"} => conn'[s] # None
    BY DEF IInv, TypeOK
  <2> QED
    BY <2>1, <2>2, ServerMoves DEF IInv, TypeOK
<1>2. OwnName'
  BY <1>1, OwnNameRests DEF IInv
<1>3. UserOfConnection'
  BY <1>1, UserKept DEF IInv, Pids_, ServerPC
<1> QED
  BY <1>1, <1>2, <1>3 DEF IInv

LEMMA ServerRestsInv ==
  ASSUME IInv, NEW s \in Servers,
         SrvUnlink(s) \/ SrvBind(s) \/ Listen(s) \/ SrvRecv(s) \/ SrvSend(s) \/ SrvKilled(s)
  PROVE  IInv'
<1> USE DEF SrvGo, Over, clVars, Rests
<1>1. srvname \in Servers \cup {None} /\ sent \subseteq Clients \cup Servers
  BY DEF IInv, TypeOK
<1>2. SrvUnlink(s) => Rests(s, "bind")
  BY <1>1 DEF SrvUnlink
<1>3. SrvBind(s) => Rests(s, "listen") \/ Rests(s, "failed")
  BY <1>1 DEF SrvBind
<1>4. Listen(s) => Rests(s, "accept")
  BY <1>1 DEF Listen
<1>5. SrvRecv(s) => Rests(s, "send")
  BY <1>1 DEF SrvRecv
<1>6. SrvSend(s) => Rests(s, "failed") \/ Rests(s, "done")
  BY <1>1 DEF SrvSend
<1>7. SrvKilled(s) => Rests(s, "killed")
  BY <1>1 DEF SrvKilled
<1>8. {"bind", "listen", "failed", "accept", "send", "done", "killed"}
        \subseteq ServerPC \ {"exec", "stat", "unlink", "recv"}
  BY DEF ServerPC
<1> HIDE DEF SrvGo, Over, clVars, Rests
<1>9. ASSUME NEW to \in {"bind", "listen", "failed", "accept", "send", "done", "killed"},
             Rests(s, to)
      PROVE  IInv'
  BY <1>8, <1>9, ServerRests
<1> QED
  BY <1>2, <1>3, <1>4, <1>5, <1>6, <1>7, <1>9

LEMMA AcceptInv ==
  ASSUME IInv, NEW s \in Servers, Accept(s)
  PROVE  IInv'
<1>1. /\ srv[s] = "accept" /\ srv' = [srv EXCEPT ![s] = "stat"]
      /\ UNCHANGED <<cl, pid, reused, file, srvname, uid, sent>>
      /\ queue[s] \in Seq(Clients) /\ queue[s] # <<>>
      /\ conn' = [conn EXCEPT ![s] = Head(queue[s])]
      /\ queue' = [queue EXCEPT ![s] = Tail(queue[s])]
  BY DEF Accept, SrvGo, clVars, IInv, TypeOK
<1>2. /\ Head(queue[s]) \in Clients /\ Head(queue[s]) = queue[s][1] /\ 1 \in 1..Len(queue[s])
      /\ Tail(queue[s]) \in Seq(Clients)
      /\ \A i \in 1..Len(Tail(queue[s])) : i + 1 \in 1..Len(queue[s]) /\ Tail(queue[s])[i] = queue[s][i + 1]
  BY <1>1
<1>3. /\ conn' \in [Servers -> Clients \cup {None}] /\ queue' \in [Servers -> Seq(Clients)]
      /\ conn'[s] = Head(queue[s]) /\ queue'[s] = Tail(queue[s])
      /\ \A t \in Servers \ {s} : conn'[t] = conn[t] /\ queue'[t] = queue[t]
  BY <1>1, <1>2 DEF IInv, TypeOK
<1>4. \A c \in Clients, t \in Servers : Connected(c, t)' => Connected(c, t)
  <2> SUFFICES ASSUME NEW c \in Clients, NEW t \in Servers, Connected(c, t)'
               PROVE  Connected(c, t)
    OBVIOUS
  <2>1. CASE t # s
    BY <1>3, <2>1 DEF Connected
  <2>2. CASE t = s
    <3>1. c = conn'[s] \/ \E i \in 1..Len(queue'[s]) : queue'[s][i] = c
      BY <2>2 DEF Connected
    <3>2. CASE c = conn'[s]
      BY <1>2, <1>3, <2>2, <3>2 DEF Connected
    <3>3. CASE \E i \in 1..Len(queue'[s]) : queue'[s][i] = c
      <4>1. PICK i \in 1..Len(Tail(queue[s])) : Tail(queue[s])[i] = c
        BY <1>3, <3>3
      <4>2. i + 1 \in 1..Len(queue[s]) /\ queue[s][i + 1] = c
        BY <1>2, <4>1
      <4> QED
        BY <2>2, <4>2 DEF Connected
    <3> QED
      BY <3>1, <3>2, <3>3
  <2> QED
    BY <2>1, <2>2
<1>5. /\ TypeOK' /\ Links' /\ Pids_'
      /\ \A c \in Clients : Pending(c)' => Pending(c)
      /\ srv'[s] = "stat" /\ \A t \in Servers \ {s} : srv'[t] = srv[t]
  <2>1. conn'[s] # None
    BY <1>2, <1>3, UniqueConnAssumption
  <2>2. "stat" \in ServerPC \ {"exec"}
    BY DEF ServerPC
  <2> QED
    BY <1>1, <1>3, <1>4, <2>1, <2>2, ServerMoves DEF IInv, TypeOK
<1>6. OwnName'
  BY <1>1, <1>5, OwnNameRests DEF IInv
<1>7. UserOfConnection'
  BY <1>1, <1>3, <1>5, UserKept DEF IInv, Pids_
<1> QED
  BY <1>5, <1>6, <1>7 DEF IInv

\* What srv_accept() finds under the name of a client whose pid was not reused.
LEMMA NameFound ==
  ASSUME IInv, NEW s \in Servers, srv[s] \in {"stat", "unlink"}
  PROVE  /\ conn[s] \in Clients /\ Connected(conn[s], s) /\ Pending(conn[s])
         /\ pid[conn[s]] \in Pids
         /\ conn[s] \notin reused => NameOf(s).owner = conn[s] /\ NameOf(s).perm
<1>1. conn[s] \in Clients /\ Connected(conn[s], s) /\ Pending(conn[s])
  BY DEF IInv, TypeOK, Connected, Pending
<1>2. pid[conn[s]] \in Pids
  BY <1>1 DEF IInv, Links, Linked, Pids_, HasPid, Over
<1> QED
  BY <1>1, <1>2 DEF IInv, OwnName, NameOf

LEMMA StatInv ==
  ASSUME IInv, NEW s \in Servers, Stat(s)
  PROVE  IInv'
<1>1. PICK to \in {"unlink", "failed"} :
        /\ srv[s] = "stat" /\ srv' = [srv EXCEPT ![s] = to]
        /\ to = "unlink" => uid' = [uid EXCEPT ![s] = NameOf(s).owner]
        /\ to = "failed" => uid' = uid
        /\ UNCHANGED <<cl, pid, reused, file, srvname, queue, conn, sent>>
  BY DEF Stat, SrvGo, clVars
<1>2. /\ conn[s] \in Clients /\ conn[s] # None /\ NameOf(s).owner \in Clients \cup {None}
      /\ conn[s] \notin reused => NameOf(s).owner = conn[s]
  <2>1. conn[s] \in Clients /\ pid[conn[s]] \in Pids /\ (conn[s] \notin reused => NameOf(s).owner = conn[s])
    BY <1>1, NameFound
  <2> QED
    BY <2>1, UniqueConnAssumption DEF NameOf, IInv, TypeOK
<1>3. /\ uid' \in [Servers -> Clients \cup {None}]
      /\ \A t \in Servers \ {s} : uid'[t] = uid[t]
      /\ to = "unlink" => uid'[s] = NameOf(s).owner
  BY <1>1, <1>2 DEF IInv, TypeOK
<1>4. /\ TypeOK' /\ Links' /\ Pids_'
      /\ \A c \in Clients : Pending(c)' => Pending(c)
      /\ srv'[s] = to /\ \A t \in Servers \ {s} : srv'[t] = srv[t]
  <2>1. \A c \in Clients, t \in Servers : Connected(c, t)' => Connected(c, t)
    BY <1>1 DEF Connected
  <2>2. to \in ServerPC \ {"exec"}
    BY DEF ServerPC, Over
  <2> QED
    BY <1>1, <1>2, <1>3, <2>1, <2>2, ServerMoves DEF IInv, TypeOK
<1>5. OwnName'
  BY <1>1, <1>4, OwnNameRests DEF IInv
<1>6. UserOfConnection'
  <2> SUFFICES ASSUME NEW t \in Servers
               PROVE  /\ srv'[t] \in {"unlink", "recv", "send", "done"} /\ conn[t] \notin reused =>
                           uid'[t] = conn[t]
                      /\ srv'[t] \in {"recv", "send", "done"} => file[pid[conn[t]]].owner # conn[t]
    BY <1>1 DEF UserOfConnection, NameOf
  <2>1. CASE t = s
    BY <1>2, <1>3, <1>4, <2>1
  <2>2. CASE t # s
    BY <1>3, <1>4, <2>2 DEF IInv, UserOfConnection, NameOf
  <2> QED
    BY <2>1, <2>2
<1> QED
  BY <1>4, <1>5, <1>6 DEF IInv

LEMMA SrvAcceptedInv ==
  ASSUME IInv, NEW s \in Servers, SrvAccepted(s)
  PROVE  IInv'
<1>0. PICK c : c = conn[s]
  OBVIOUS
<1>1. /\ srv[s] = "unlink" /\ srv' = [srv EXCEPT ![s] = "recv"]
      /\ UNCHANGED <<cl, pid, reused, srvname, queue, conn, uid, sent>>
  BY DEF SrvAccepted, SrvGo, clVars
<1>2. c \in Clients /\ c # None /\ Connected(c, s) /\ Pending(c) /\ pid[c] \in Pids
  BY <1>0, <1>1, NameFound, UniqueConnAssumption
<1>3. /\ file' \in [Pids -> [owner : Clients \cup {None}, perm : BOOLEAN, old : BOOLEAN]]
      /\ \A p \in Pids : file'[p] = IF p = pid[c] THEN NoFile ELSE file[p]
  BY <1>0 DEF SrvAccepted, IInv, TypeOK, NoFile
<1>4. \A d \in Clients, t \in Servers : Connected(d, t)' = Connected(d, t)
  BY <1>1 DEF Connected
<1>5. /\ TypeOK' /\ Links' /\ Pids_'
      /\ \A d \in Clients : Pending(d)' => Pending(d)
      /\ srv'[s] = "recv" /\ \A t \in Servers \ {s} : srv'[t] = srv[t]
  <2>1. "recv" \in ServerPC \ {"exec"}
    BY DEF ServerPC
  <2> QED
    BY <1>0, <1>1, <1>2, <1>3, <1>4, <2>1, ServerMoves DEF IInv, TypeOK
<1>6. ~Pending(c)' /\ cl'[c] \notin {"chmod", "connect"}
  <2>1. cl[c] \notin {"chmod", "connect"}
    BY <1>2 DEF IInv, Links, Linked, Over
  <2>2. \A t \in Servers \ {s} : ~Connected(c, t)
    BY <1>2 DEF IInv, Links, OneServer
  <2>3. \A t \in Servers : Connected(c, t)' => t = s
    BY <1>2, <1>4, <2>2
  <2>4. ~Pending(c)'
    BY <1>5, <2>3 DEF Pending
  <2> QED
    BY <1>1, <2>1, <2>4
<1>7. OwnName'
  <2>1. Active(c)
    BY <1>2 DEF Active
  <2> QED
    BY <1>1, <1>2, <1>3, <1>5, <1>6, <2>1, OwnNameKept DEF IInv, Pids_, Links
<1>8. UserOfConnection'
  <2> SUFFICES ASSUME NEW t \in Servers
               PROVE  /\ srv'[t] \in {"unlink", "recv", "send", "done"} /\ conn[t] \notin reused =>
                           uid[t] = conn[t]
                      /\ srv'[t] \in {"recv", "send", "done"} => file'[pid[conn[t]]].owner # conn[t]
    BY <1>1 DEF UserOfConnection, NameOf
  <2>1. CASE t = s
    BY <1>0, <1>1, <1>2, <1>3, <2>1 DEF IInv, UserOfConnection, NoFile
  <2>2. CASE t # s
    <3>1. srv'[t] = srv[t]
      BY <1>5, <2>2
    <3>2. srv[t] \in {"recv", "send", "done"} =>
            conn[t] \in Clients /\ conn[t] # None /\ pid[conn[t]] \in Pids
      <4>1. srv[t] \in {"recv", "send", "done"} => conn[t] \in Clients /\ conn[t] # None
        BY DEF IInv, TypeOK
      <4> QED
        BY <4>1 DEF IInv, Links, Linked, Connected, Pids_, HasPid, Over
    <3> QED
      BY <1>3, <3>1, <3>2 DEF IInv, UserOfConnection, NameOf, NoFile
  <2> QED
    BY <2>1, <2>2
<1> QED
  BY <1>5, <1>7, <1>8 DEF IInv

\* A name that grows old keeps its owner and its permissions.
LEMMA GetsOldInv ==
  ASSUME IInv, NEW p \in Pids, GetsOld(p)
  PROVE  IInv'
<1>1. /\ UNCHANGED <<cl, pid, reused, srvname, srv, queue, conn, uid, sent>>
      /\ file' = [file EXCEPT ![p].old = TRUE]
      /\ file \in [Pids -> [owner : Clients \cup {None}, perm : BOOLEAN, old : BOOLEAN]]
  BY DEF GetsOld, clVars, srvVars, IInv, TypeOK
<1>2. /\ file' \in [Pids -> [owner : Clients \cup {None}, perm : BOOLEAN, old : BOOLEAN]]
      /\ \A q \in Pids : file'[q].owner = file[q].owner /\ file'[q].perm = file[q].perm
  <2>1. [file[p] EXCEPT !.old = TRUE] \in [owner : Clients \cup {None}, perm : BOOLEAN, old : BOOLEAN]
    BY <1>1
  <2>2. file' = [file EXCEPT ![p] = [file[p] EXCEPT !.old = TRUE]]
    BY <1>1
  <2>3. file' \in [Pids -> [owner : Clients \cup {None}, perm : BOOLEAN, old : BOOLEAN]]
    BY <1>1, <2>1, <2>2
  <2>4. \A q \in Pids : file'[q].owner = file[q].owner /\ file'[q].perm = file[q].perm
    BY <1>1, <2>2
  <2> QED
    BY <2>3, <2>4
<1>3. /\ \A c \in Clients, s \in Servers : Connected(c, s)' = Connected(c, s)
      /\ \A c \in Clients : Pending(c)' = Pending(c) /\ Living(c)' = Living(c)
  BY <1>1 DEF Connected, Pending, Living
<1>4. TypeOK'
  BY <1>1, <1>2 DEF IInv, TypeOK
<1>5. Links' /\ Pids_'
  BY <1>1, <1>3, LinksKept, PidsKept DEF IInv, Active
<1>6. OwnName'
  <2>1. \A c \in Clients : cl[c] # "exec" => pid[c] \in Pids
    BY DEF IInv, Pids_, HasPid
  <2>2. \A c \in Clients : cl[c] \in {"chmod", "connect"} \/ Pending(c) => pid[c] \in Pids
    BY <2>1 DEF IInv, Pending, Links, Linked, Over
  <2> QED
    BY <1>1, <1>2, <1>3, <2>2, OwnNameRests DEF IInv
<1>7. UserOfConnection'
  BY <1>1, <1>2, UserKept DEF IInv, Pids_
<1> QED
  BY <1>4, <1>5, <1>6, <1>7 DEF IInv

------------------------------------------------------------------------------
(* The invariant and what follows from it *)

LEMMA StepIInv == IInv /\ [Next]_vars => IInv'
<1> SUFFICES ASSUME IInv, [Next]_vars PROVE IInv'
  OBVIOUS
<1>1. CASE \E c \in Clients : Exec(c) \/ ClientStep(c) \/ ClientKilled(c)
  BY <1>1, ExecInv, UnlinkInv, BindInv, ChmodInv, ConnectInv, ClientRestsInv DEF ClientStep
<1>2. CASE \E s \in Servers : SrvUnlink(s) \/ ServerStep(s) \/ SrvKilled(s)
  BY <1>2, AcceptInv, StatInv, SrvAcceptedInv, ServerRestsInv DEF ServerStep
<1>3. CASE \E p \in Pids : GetsOld(p)
  BY <1>3, GetsOldInv
<1>4. CASE UNCHANGED vars
  <2>1. UNCHANGED <<cl, pid, reused, file, srvname, srv, queue, conn, uid, sent>>
    BY <1>4 DEF vars, clVars, srvVars
  <2>2. /\ \A c \in Clients, s \in Servers : Connected(c, s)' = Connected(c, s)
        /\ \A c \in Clients : Pending(c)' = Pending(c) /\ Living(c)' = Living(c)
    BY <2>1 DEF Connected, Pending, Living
  <2>3. Links' /\ Pids_' /\ OwnName'
    BY <2>1, <2>2, LinksKept, PidsKept, OwnNameRests DEF IInv, Active
  <2> QED
    BY <2>1, <2>3 DEF IInv, TypeOK, UserOfConnection, NameOf
<1> QED
  BY <1>1, <1>2, <1>3, <1>4 DEF Next

\* All of it holds in every state that the clients and servers reach.
THEOREM Invariance == Spec => []IInv
BY InitIInv, StepIInv, PTL DEF Spec

\* Clients, servers, names and connections keep their types, and a server that
\* looks at a name has accepted a client.
THEOREM TypeCorrect == Spec => []TypeOK
<1>1. IInv => TypeOK
  BY DEF IInv
<1> QED
  BY <1>1, Invariance, PTL

\* srv_accept() returns the user whose connection it is, and leaves no name of
\* that client behind (server.c, lines 55-58).
THEOREM RightUser == Spec => []UserOfConnection
<1>1. IInv => UserOfConnection
  BY DEF IInv
<1> QED
  BY <1>1, Invariance, PTL

\* stat(), its permissions or its age turn a client away only when the name is too
\* old or the pid was reused (srv_accept()).
THEOREM TurnedAway == Spec => TurnedAwayForCause
<1>1. ASSUME IInv, [Next]_vars, NEW s \in Servers, srv[s] = "stat", srv'[s] = "failed"
      PROVE  conn[s] \in reused \/ NameOf(s).old
  <2>1. Stat(s)
    <3>1. srv \in [Servers -> ServerPC]
      BY <1>1 DEF IInv, TypeOK, ServerPC
    <3>2. \A t \in Servers : ~(SrvUnlink(t) \/ SrvBind(t) \/ Listen(t) \/ Accept(t) \/ SrvAccepted(t)
                               \/ SrvRecv(t) \/ SrvSend(t) \/ SrvKilled(t))
      BY <1>1, <3>1 DEF SrvUnlink, SrvBind, Listen, Accept, SrvAccepted, SrvRecv, SrvSend,
                        SrvKilled, SrvGo
    <3>3. \A t \in Servers : Stat(t) => t = s
      BY <1>1, <3>1 DEF Stat, SrvGo
    <3>4. srv' # srv
      BY <1>1
    <3> QED
      BY <1>1, <3>2, <3>3, <3>4
         DEF Next, ClientStep, ServerStep, vars, srvVars, Exec, Unlink, Bind, Chmod, Connect,
             ClientSend, ClientRecv, ClientKilled, GetsOld
  <2>2. ~Acceptable(s)
    BY <1>1, <2>1 DEF Stat, SrvGo, IInv, TypeOK
  <2>3. conn[s] \notin reused => NameOf(s).owner = conn[s] /\ NameOf(s).perm /\ conn[s] # None
    BY <1>1, NameFound, UniqueConnAssumption
  <2> QED
    BY <2>2, <2>3 DEF Acceptable, NoFile
<1>2. IInv /\ [Next]_vars =>
        [\A s \in Servers : srv[s] = "stat" /\ srv'[s] = "failed" =>
           conn[s] \in reused \/ NameOf(s).old]_vars
  BY <1>1
<1> QED
  BY <1>2, Invariance, PTL DEF Spec, TurnedAwayForCause
==============================================================================
