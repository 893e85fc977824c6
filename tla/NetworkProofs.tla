----------------------------- MODULE NetworkProofs -----------------------------
(***************************************************************************)
(* The invariants of the programs of NetworkPrograms, each with an         *)
(* inductive invariant of its own: what a connection, a datagram, a port   *)
(* or a piece of the stream has gone through by the time a program acts.   *)
(***************************************************************************)
EXTENDS NetworkPrograms, Sequences, FiniteSetTheorems, SequenceTheorems, TLAPS

------------------------------------------------------------------------------
(* Queues of connections *)

\* The elements of a sequence, and a sequence that has none of them twice.
Among(s) == {s[i] : i \in DOMAIN s}
Once(s)  == \A i, j \in DOMAIN s : i # j => s[i] # s[j]

\* An empty queue.
LEMMA EmptyOnce == Among(<<>>) = {} /\ Once(<<>>)
BY DEF Among, Once

\* What accept() leaves of a queue.
LEMMA TailOnce ==
  ASSUME NEW X, NEW s \in Seq(X), s # <<>>, Once(s)
  PROVE  /\ Tail(s) \in Seq(X) /\ Len(Tail(s)) = Len(s) - 1
         /\ Head(s) \in X /\ Head(s) \in Among(s)
         /\ Among(Tail(s)) = Among(s) \ {Head(s)} /\ Once(Tail(s))
<1>1. /\ Tail(s) \in Seq(X) /\ Len(Tail(s)) = Len(s) - 1 /\ Len(s) \in Nat /\ Len(s) > 0
      /\ Head(s) = s[1] /\ DOMAIN s = 1..Len(s) /\ DOMAIN Tail(s) = 1..(Len(s) - 1)
      /\ \A i \in DOMAIN Tail(s) : Tail(s)[i] = s[i + 1]
      /\ \A i \in DOMAIN s : s[i] \in X
  OBVIOUS
<1>2. Head(s) \in X /\ Head(s) \in Among(s)
  BY <1>1 DEF Among
<1>3. ASSUME NEW i \in DOMAIN s, i # 1 PROVE i - 1 \in DOMAIN Tail(s) /\ s[i] = Tail(s)[i - 1]
  BY <1>1, <1>3
<1>4. Among(Tail(s)) \subseteq Among(s) \ {Head(s)}
  BY <1>1 DEF Among, Once
<1>5. Among(s) \ {Head(s)} \subseteq Among(Tail(s))
  BY <1>1, <1>3 DEF Among
<1>6. Once(Tail(s))
  BY <1>1 DEF Once
<1> QED
  BY <1>1, <1>2, <1>4, <1>5, <1>6

\* What a connection adds to one.
LEMMA AppendOnce ==
  ASSUME NEW X, NEW s \in Seq(X), NEW e \in X, e \notin Among(s), Once(s)
  PROVE  /\ Append(s, e) \in Seq(X) /\ Len(Append(s, e)) = Len(s) + 1
         /\ Among(Append(s, e)) = Among(s) \cup {e} /\ Once(Append(s, e))
<1>1. /\ Append(s, e) \in Seq(X) /\ Len(Append(s, e)) = Len(s) + 1 /\ Len(s) \in Nat
      /\ DOMAIN s = 1..Len(s) /\ DOMAIN Append(s, e) = 1..(Len(s) + 1)
      /\ \A i \in DOMAIN s : Append(s, e)[i] = s[i]
      /\ Append(s, e)[Len(s) + 1] = e
  OBVIOUS
<1>2. \A i \in DOMAIN Append(s, e) : i \in DOMAIN s \/ i = Len(s) + 1
  BY <1>1
<1>3. Among(Append(s, e)) \subseteq Among(s) \cup {e}
  BY <1>1, <1>2 DEF Among
<1>4. Among(s) \cup {e} \subseteq Among(Append(s, e))
  <2>1. \A i \in DOMAIN s : i \in DOMAIN Append(s, e)
    BY <1>1
  <2>2. Len(s) + 1 \in DOMAIN Append(s, e)
    BY <1>1
  <2> QED
    BY <1>1, <2>1, <2>2 DEF Among
<1>5. Once(Append(s, e))
  BY <1>1, <1>2 DEF Once, Among
<1> QED
  BY <1>1, <1>3, <1>4, <1>5

\* Those in a queue are of its type.
LEMMA AmongIn == ASSUME NEW X, NEW s \in Seq(X) PROVE Among(s) \subseteq X
BY DEF Among

\* A subset of what is counted is no more.
LEMMA NoneMore ==
  ASSUME NEW A, NEW B, IsFiniteSet(A), B \subseteq A
  PROVE  /\ IsFiniteSet(B) /\ Cardinality(A) \in Nat /\ Cardinality(B) \in Nat
         /\ Cardinality(B) <= Cardinality(A)
BY FS_Subset, FS_CardinalityType

\* One element adds one.
LEMMA OneMore ==
  ASSUME NEW A, NEW B, NEW x, IsFiniteSet(A), B \subseteq A \cup {x}
  PROVE  /\ IsFiniteSet(B) /\ Cardinality(A) \in Nat /\ Cardinality(B) \in Nat
         /\ Cardinality(B) <= Cardinality(A) + 1
<1>1. /\ IsFiniteSet(A \cup {x}) /\ Cardinality(A \cup {x}) <= Cardinality(A) + 1
      /\ Cardinality(A) \in Nat
  BY FS_AddElement, FS_CardinalityType
<1> QED
  BY <1>1, FS_Subset, FS_CardinalityType

------------------------------------------------------------------------------
(* Connections over TCP *)

\* How a connection ends, and what it has carried of k chunks.
Ends == {"open", "closed", "cut", "reset"}
Chans(k) == [sent : 0..k, got : 0..k, end : Ends]

------------------------------------------------------------------------------
(* 12-sendrecv *)

\* Clients whose connection the server has closed after a whole answer.
Answered == {c \in Clients : chan[c].end = "closed"}

\* Who has not connected, who waits in the queue and the one that is served are
\* different clients; only the last has been sent anything, and only a connection
\* with a whole answer is closed.
ServerConns ==
  /\ \A c \in Clients : cl[c] = "connect" => /\ nsecs[c] <= 8 /\ conn # c
                                            /\ chan[c].end = "open" /\ chan[c].sent = 0
  /\ \A c \in Among(queue) : /\ cl[c] # "connect" /\ c # conn
                              /\ chan[c].end = "open" /\ chan[c].sent = 0
  /\ Once(queue)
  /\ conn # None => chan[conn].end = "open"
  /\ \A c \in Clients : chan[c].end = "closed" => chan[c].sent = Chunks

ServerInv == S!TypeOK /\ chan \in [Clients -> Chans(Chunks)] /\ ServerConns /\ S!WholeAnswer

\* A start answers one client: the server that runs may still answer its own.
ServerCount ==
  /\ IsFiniteSet(Answered)
  /\ Cardinality(Answered) + (IF srv = "down" THEN 0 ELSE 1) <= starts

\* 12-sendrecv begins with nobody connected.
LEMMA ServerInit == S!Init => ServerInv /\ ServerCount
<1> SUFFICES ASSUME S!Init PROVE ServerInv /\ ServerCount
  OBVIOUS
<1> USE NetworkAssumption DEF S!Init, S!ClientInit, S!NoChan
<1>1. Answered = {}
  BY DEF Answered
<1>2. ServerCount
  BY <1>1, FS_EmptySet DEF ServerCount
<1>3. S!TypeOK /\ chan \in [Clients -> Chans(Chunks)]
  <2>1. S!ClientTypeOK
    <3>1. listening \in BOOLEAN
      OBVIOUS
    <3>2. queue \in Seq(Clients) /\ Len(queue) <= QLen
      OBVIOUS
    <3>3. \A c \in Clients : chan[c].sent = 0 /\ chan[c].got = 0 /\ chan[c].end = "open"
      OBVIOUS
    <3>4. /\ cl \in [Clients -> {"connect", "recv", "exit0", "exit1", "gone"}]
          /\ nsecs \in [Clients -> {1, 2, 4, 8, 16}]
      OBVIOUS
    <3> HIDE DEF S!Init, S!ClientInit
    <3> QED
      BY <3>1, <3>2, <3>3, <3>4 DEF S!ClientTypeOK
  <2>2. chan \in [Clients -> Chans(Chunks)]
    BY DEF Chans, Ends
  <2> QED
    BY <2>1, <2>2 DEF S!TypeOK
<1>4. ServerConns /\ S!WholeAnswer
  BY EmptyOnce DEF ServerConns, S!WholeAnswer, S!At
<1> QED
  BY <1>2, <1>3, <1>4 DEF ServerInv

\* The end of the server closes or cuts the connection it serves and resets the others.
LEMMA ServerExits ==
  ASSUME ServerInv, ServerCount, srv # "down", NEW how \in {"closed", "cut"}, S!ServerExit(how),
         how = "closed" => conn # None /\ chan[conn].sent = Chunks
  PROVE  ServerInv' /\ ServerCount'
<1> USE NetworkAssumption
<1>1. /\ srv' = "down" /\ conn' = None /\ listening' = FALSE /\ queue' = <<>>
      /\ UNCHANGED <<cl, nsecs, starts>>
  BY DEF S!ServerExit, S!StopListening
<1>2. ASSUME NEW c \in Clients
      PROVE  /\ chan'[c].sent = chan[c].sent /\ chan'[c].got = chan[c].got
             /\ chan'[c].end = IF c \in Among(queue) THEN "reset"
                               ELSE IF c = conn THEN how ELSE chan[c].end
             /\ chan'[c] \in Chans(Chunks)
  <2> DEFINE ch == IF conn = None THEN chan ELSE [chan EXCEPT ![conn].end = how]
  <2>1. chan' = [d \in Clients |-> IF S!Contains(queue, d) THEN [ch[d] EXCEPT !.end = "reset"] ELSE ch[d]]
    BY DEF S!ServerExit, S!StopListening
  <2>2. S!Contains(queue, c) <=> c \in Among(queue)
    BY DEF S!Contains, Among, ServerInv, S!TypeOK, S!ClientTypeOK
  <2>3. chan[c] \in Chans(Chunks)
    BY DEF ServerInv
  <2>4. /\ ch[c].sent = chan[c].sent /\ ch[c].got = chan[c].got
        /\ ch[c].end = (IF c = conn THEN how ELSE chan[c].end)
        /\ ch[c] \in Chans(Chunks)
    <3>1. CASE c = conn
      <4>1. ch[c] = [chan[c] EXCEPT !.end = how]
        BY <3>1 DEF ServerInv
      <4> QED
        BY <2>3, <3>1, <4>1 DEF Chans, Ends
    <3>2. CASE c # conn
      <4>1. ch[c] = chan[c]
        BY <3>2 DEF ServerInv, S!TypeOK
      <4> QED
        BY <2>3, <3>2, <4>1
    <3> QED
      BY <3>1, <3>2
  <2> HIDE DEF ch
  <2>5. CASE c \in Among(queue)
    <3>1. chan'[c] = [ch[c] EXCEPT !.end = "reset"]
      BY <2>1, <2>2, <2>5
    <3> QED
      BY <2>4, <2>5, <3>1 DEF Chans, Ends
  <2>6. CASE c \notin Among(queue)
    <3>1. chan'[c] = ch[c]
      BY <2>1, <2>2, <2>6
    <3> QED
      BY <2>4, <2>6, <3>1
  <2> QED
    BY <2>5, <2>6
<1>3. DOMAIN chan' = Clients /\ chan' = [c \in Clients |-> chan'[c]]
  BY DEF S!ServerExit, S!StopListening
<1>4. chan' \in [Clients -> Chans(Chunks)]
  BY <1>2, <1>3
<1>5. S!TypeOK'
  <2>1. \A c \in Clients : /\ chan'[c].sent \in 0..Chunks /\ chan'[c].got \in 0..chan'[c].sent
                           /\ chan'[c].end \in Ends
    BY <1>2 DEF ServerInv, S!TypeOK, S!ClientTypeOK, Ends
  <2>2. queue' \in Seq(Clients) /\ Len(queue') <= QLen
    BY <1>1
  <2>3. S!ClientTypeOK'
    BY <1>1, <2>1, <2>2 DEF ServerInv, S!TypeOK, S!ClientTypeOK, Ends
  <2> QED
    BY <1>1, <2>3 DEF ServerInv, S!TypeOK
<1>6. ServerConns'
  BY <1>1, <1>2, EmptyOnce DEF ServerInv, ServerConns
<1>7. S!WholeAnswer'
  BY <1>1, <1>2 DEF ServerInv, ServerConns, S!WholeAnswer, S!At
<1>8. ServerCount'
  <2>1. Answered' \subseteq Answered \cup {conn}
    BY <1>2 DEF Answered
  <2>2. Cardinality(Answered') <= Cardinality(Answered) + 1 /\ IsFiniteSet(Answered')
        /\ Cardinality(Answered') \in Nat /\ Cardinality(Answered) \in Nat
    BY <2>1, OneMore DEF ServerCount
  <2> QED
    BY <1>1, <2>2 DEF ServerCount, ServerInv, S!TypeOK
<1> QED
  BY <1>4, <1>5, <1>6, <1>7, <1>8 DEF ServerInv

\* What a step must keep when it changes no connection: its own variables' part of the invariant.
LEMMA ServerSame ==
  ASSUME ServerInv, ServerCount, UNCHANGED <<nsecs, chan, conn>>, S!TypeOK',
         starts' >= starts, srv = "down" /\ srv' # "down" => starts' = starts + 1,
         Among(queue') \subseteq Among(queue), Once(queue'),
         \A c \in Clients : cl'[c] = cl[c] \/ cl'[c] \notin {"connect", "exit0"}
  PROVE  ServerInv' /\ ServerCount'
<1>1. ServerConns'
  <2>1. Among(queue) \subseteq Clients
    BY AmongIn DEF ServerInv, S!TypeOK, S!ClientTypeOK
  <2> QED
    BY <2>1 DEF ServerInv, ServerConns
<1>2. S!WholeAnswer'
  BY DEF ServerInv, S!WholeAnswer, S!At
<1>3. ServerCount'
  <2>1. Answered' = Answered
    BY DEF Answered
  <2>2. Cardinality(Answered) \in Nat /\ starts \in Nat /\ starts' \in Nat
    BY FS_CardinalityType, NetworkAssumption DEF ServerCount, ServerInv, S!TypeOK
  <2> QED
    BY <2>1, <2>2 DEF ServerCount
<1> QED
  BY <1>1, <1>2, <1>3 DEF ServerInv

\* Every step of 12-sendrecv keeps its invariant.
LEMMA ServerStep == ServerInv /\ ServerCount /\ S!Next => ServerInv' /\ ServerCount'
<1> SUFFICES ASSUME ServerInv, ServerCount, S!Next PROVE ServerInv' /\ ServerCount'
  OBVIOUS
<1> USE NetworkAssumption
<1>0. Once(queue) /\ starts \in Nat
  BY DEF ServerInv, ServerConns, S!TypeOK
<1>1. CASE S!Start
  <2>1. S!TypeOK'
    BY <1>1 DEF S!Start, S!Goto, ServerInv, S!TypeOK, S!ClientTypeOK
  <2> QED
    BY <1>0, <1>1, <2>1, ServerSame DEF S!Start, S!Goto
<1>2. CASE S!StartFails
  <2>1. S!TypeOK'
    BY <1>2 DEF S!StartFails, S!netVars, ServerInv, S!TypeOK, S!ClientTypeOK
  <2> QED
    BY <1>0, <1>2, <2>1, ServerSame DEF S!StartFails, S!netVars
<1>3. CASE S!Accept
  <2>0. /\ srv = "accept" /\ srv' = "popen" /\ queue # <<>> /\ conn' = Head(queue)
        /\ queue' = Tail(queue) /\ UNCHANGED <<cl, nsecs, listening, chan, starts>>
    BY <1>3 DEF S!Accept, S!Goto
  <2>1. /\ queue' \in Seq(Clients) /\ Once(queue') /\ Len(queue') = Len(queue) - 1
        /\ Among(queue') = Among(queue) \ {conn'} /\ conn' \in Clients /\ conn' \in Among(queue)
    BY <2>0, <1>0, TailOnce DEF ServerInv, S!TypeOK, S!ClientTypeOK
  <2>2. S!TypeOK'
    <3>1. S!ClientTypeOK'
      BY <2>0, <2>1 DEF ServerInv, S!TypeOK, S!ClientTypeOK
    <3> QED
      BY <2>0, <2>1, <3>1 DEF ServerInv, S!TypeOK
  <2>3. ServerConns'
    BY <2>0, <2>1 DEF ServerInv, ServerConns
  <2>4. S!WholeAnswer'
    BY <2>0 DEF ServerInv, S!WholeAnswer, S!At
  <2>5. ServerCount'
    <3>1. Answered' = Answered
      BY <2>0 DEF Answered
    <3> QED
      BY <2>0, <3>1 DEF ServerCount
  <2> QED
    BY <2>0, <2>2, <2>3, <2>4, <2>5 DEF ServerInv
<1>4. CASE S!Popen
  <2>1. S!TypeOK'
    BY <1>4 DEF S!Popen, S!Goto, S!netVars, ServerInv, S!TypeOK, S!ClientTypeOK
  <2> QED
    BY <1>0, <1>4, <2>1, ServerSame DEF S!Popen, S!Goto, S!netVars
<1>5. CASE S!PopenFails
  BY <1>5, ServerExits DEF S!PopenFails
<1>6. CASE S!Send
  <2>0. /\ srv = "send" /\ srv' = "send" /\ chan[conn].sent < Chunks
        /\ chan' = [chan EXCEPT ![conn].sent = @ + 1]
        /\ UNCHANGED <<cl, nsecs, listening, queue, conn, starts>>
    BY <1>6 DEF S!Send, S!Goto
  <2>1. conn \in Clients /\ chan[conn].end = "open"
    BY <2>0 DEF ServerInv, S!TypeOK, ServerConns
  <2>2. /\ chan'[conn].sent = chan[conn].sent + 1 /\ chan'[conn].got = chan[conn].got
        /\ chan'[conn].end = "open" /\ \A c \in Clients : c # conn => chan'[c] = chan[c]
    BY <2>0, <2>1 DEF ServerInv, Chans
  <2>3. chan' \in [Clients -> Chans(Chunks)]
    BY <2>0, <2>1 DEF ServerInv, Chans
  <2>4. S!TypeOK'
    <3>1. \A c \in Clients : /\ chan'[c].sent \in 0..Chunks /\ chan'[c].got \in 0..chan'[c].sent
                             /\ chan'[c].end \in Ends
      <4>1. \A c \in Clients : /\ chan[c].sent \in 0..Chunks /\ chan[c].got \in 0..chan[c].sent
                               /\ chan[c].end \in Ends
        BY DEF ServerInv, S!TypeOK, S!ClientTypeOK, Ends
      <4>2. chan'[conn].sent \in 0..Chunks /\ chan'[conn].got \in 0..chan'[conn].sent
        BY <2>0, <2>1, <2>2, <4>1
      <4> QED
        BY <2>1, <2>2, <4>1, <4>2 DEF Ends
    <3>2. S!ClientTypeOK'
      BY <2>0, <3>1 DEF ServerInv, S!TypeOK, S!ClientTypeOK, Ends
    <3> QED
      BY <2>0, <3>2 DEF ServerInv, S!TypeOK
  <2>5. ServerConns'
    <3>1. Among(queue) \subseteq Clients
      BY AmongIn DEF ServerInv, S!TypeOK, S!ClientTypeOK
    <3> QED
      BY <2>0, <2>1, <2>2, <3>1 DEF ServerInv, ServerConns
  <2>6. S!WholeAnswer'
    BY <2>0, <2>1, <2>2 DEF ServerInv, S!WholeAnswer, S!At
  <2>7. ServerCount'
    <3>1. Answered' = Answered
      BY <2>1, <2>2 DEF Answered
    <3> QED
      BY <2>0, <3>1 DEF ServerCount
  <2> QED
    BY <2>3, <2>4, <2>5, <2>6, <2>7 DEF ServerInv
<1>7. CASE S!SendBroken
  BY <1>7, ServerExits DEF S!SendBroken
<1>8. CASE S!SendEnds
  BY <1>8, ServerExits DEF S!SendEnds, ServerInv, S!TypeOK
<1>9. CASE S!Killed
  BY <1>9, ServerExits DEF S!Killed
<1>10. ASSUME NEW c \in Clients, S!Client(c) \/ (S!ClientDies(c) /\ UNCHANGED S!srvVars)
       PROVE  ServerInv' /\ ServerCount'
  <2>0. UNCHANGED <<srv, conn, starts>>
    BY <1>10 DEF S!Client, S!srvVars
  <2>t. /\ cl \in [Clients -> {"connect", "recv", "exit0", "exit1", "gone"}]
        /\ nsecs \in [Clients -> {1, 2, 4, 8, 16}] /\ queue \in Seq(Clients)
    BY DEF ServerInv, S!TypeOK, S!ClientTypeOK
  <2>1. CASE S!Connected(c)
    <3>0. /\ cl[c] = "connect" /\ cl' = [cl EXCEPT ![c] = "recv"] /\ queue' = Append(queue, c)
          /\ listening /\ Len(queue) < QLen /\ UNCHANGED <<nsecs, listening, chan>>
      BY <2>1 DEF S!Connected, S!At, S!ClientGo
    <3>1. /\ chan[c].end = "open" /\ chan[c].sent = 0 /\ c \notin Among(queue) /\ c # conn
      BY <3>0 DEF ServerInv, ServerConns
    <3>2. /\ queue' \in Seq(Clients) /\ Once(queue') /\ Len(queue') = Len(queue) + 1
          /\ Among(queue') = Among(queue) \cup {c}
      BY <1>0, <2>t, <3>0, <3>1, AppendOnce
    <3>3. S!TypeOK'
      <4>1. Len(queue') <= QLen
        BY <2>t, <3>0, <3>2
      <4>2. cl' \in [Clients -> {"connect", "recv", "exit0", "exit1", "gone"}]
        BY <2>t, <3>0
      <4>3. S!ClientTypeOK'
        BY <3>0, <3>2, <4>1, <4>2 DEF ServerInv, S!TypeOK, S!ClientTypeOK
      <4> QED
        BY <2>0, <3>0, <4>3 DEF ServerInv, S!TypeOK
    <3>4. ServerConns'
      <4>1. cl'[c] = "recv" /\ \A d \in Clients : d # c => cl'[d] = cl[d]
        BY <2>t, <3>0
      <4>2. Among(queue) \subseteq Clients
        BY <2>t, AmongIn
      <4> QED
        BY <2>0, <3>0, <3>1, <3>2, <4>1, <4>2 DEF ServerInv, ServerConns
    <3>5. S!WholeAnswer'
      BY <2>t, <3>0 DEF ServerInv, S!WholeAnswer, S!At
    <3>6. ServerCount'
      <4>1. Answered' = Answered
        BY <3>0 DEF Answered
      <4> QED
        BY <2>0, <4>1 DEF ServerCount
    <3> QED
      BY <3>0, <3>3, <3>4, <3>5, <3>6 DEF ServerInv
  <2>2. CASE S!Refused(c)
    <3>0. /\ cl[c] = "connect" /\ nsecs' = [nsecs EXCEPT ![c] = 2 * @]
          /\ cl' = (IF 2 * nsecs[c] > 8 THEN [cl EXCEPT ![c] = "exit1"] ELSE cl)
          /\ UNCHANGED <<listening, queue, chan>>
      BY <2>2 DEF S!Refused, S!At, S!ClientGo, S!netVars, S!MAXTIMES
    <3>1. /\ nsecs[c] \in {1, 2, 4, 8} /\ nsecs' \in [Clients -> {1, 2, 4, 8, 16}]
          /\ nsecs'[c] = 2 * nsecs[c] /\ \A d \in Clients : d # c => nsecs'[d] = nsecs[d]
      BY <2>t, <3>0 DEF ServerInv, ServerConns
    <3>2. /\ cl' \in [Clients -> {"connect", "recv", "exit0", "exit1", "gone"}]
          /\ cl'[c] \in {"connect", "exit1"} /\ (cl'[c] = "connect" => nsecs'[c] <= 8)
          /\ \A d \in Clients : d # c => cl'[d] = cl[d]
      BY <2>t, <3>0, <3>1
    <3>3. S!TypeOK'
      <4>1. S!ClientTypeOK'
        BY <3>0, <3>1, <3>2 DEF ServerInv, S!TypeOK, S!ClientTypeOK
      <4> QED
        BY <2>0, <3>0, <4>1 DEF ServerInv, S!TypeOK
    <3>4. ServerConns'
      <4>1. c \notin Among(queue)
        BY <3>0 DEF ServerInv, ServerConns
      <4>2. Among(queue) \subseteq Clients
        BY <2>t, AmongIn
      <4> QED
        BY <2>0, <3>0, <3>1, <3>2, <4>1, <4>2 DEF ServerInv, ServerConns
    <3>5. S!WholeAnswer'
      BY <3>0, <3>2 DEF ServerInv, S!WholeAnswer, S!At
    <3>6. ServerCount'
      <4>1. Answered' = Answered
        BY <3>0 DEF Answered
      <4> QED
        BY <2>0, <4>1 DEF ServerCount
    <3> QED
      BY <3>0, <3>3, <3>4, <3>5, <3>6 DEF ServerInv
  <2>3. CASE S!Recv(c)
    <3>0. /\ cl[c] = "recv" /\ UNCHANGED <<cl, nsecs, listening, queue>>
      BY <2>3 DEF S!Recv, S!At
    <3>1. PICK k \in 1..(chan[c].sent - chan[c].got) : chan' = [chan EXCEPT ![c].got = @ + k]
      BY <2>3 DEF S!Recv
    <3>2. /\ chan'[c].sent = chan[c].sent /\ chan'[c].end = chan[c].end
          /\ chan'[c].got = chan[c].got + k /\ \A d \in Clients : d # c => chan'[d] = chan[d]
      BY <3>1 DEF ServerInv, Chans
    <3>3. \A d \in Clients : /\ chan[d].sent \in 0..Chunks /\ chan[d].got \in 0..chan[d].sent
                             /\ chan[d].end \in Ends
      BY DEF ServerInv, S!TypeOK, S!ClientTypeOK, Ends
    <3>4. chan'[c].got \in 0..chan'[c].sent
      BY <3>1, <3>2, <3>3
    <3>5. chan' \in [Clients -> Chans(Chunks)]
      <4>1. chan[c].got + k \in 0..Chunks
        BY <3>1, <3>3
      <4> QED
        BY <3>1, <4>1 DEF ServerInv, Chans
    <3>6. S!TypeOK'
      <4>1. \A d \in Clients : /\ chan'[d].sent \in 0..Chunks /\ chan'[d].got \in 0..chan'[d].sent
                               /\ chan'[d].end \in Ends
        BY <3>2, <3>3, <3>4
      <4>2. S!ClientTypeOK'
        BY <3>0, <4>1 DEF ServerInv, S!TypeOK, S!ClientTypeOK, Ends
      <4> QED
        BY <2>0, <3>0, <4>2 DEF ServerInv, S!TypeOK
    <3>7. ServerConns'
      <4>1. Among(queue) \subseteq Clients
        BY <2>t, AmongIn
      <4>2. \A d \in Clients : chan'[d].sent = chan[d].sent /\ chan'[d].end = chan[d].end
        BY <3>2
      <4>3. conn # None => conn \in Clients
        BY DEF ServerInv, S!TypeOK
      <4> QED
        BY <2>0, <3>0, <4>1, <4>2, <4>3 DEF ServerInv, ServerConns
    <3>8. S!WholeAnswer'
      BY <3>0, <3>2 DEF ServerInv, S!WholeAnswer, S!At
    <3>9. ServerCount'
      <4>1. Answered' = Answered
        BY <3>2 DEF Answered
      <4> QED
        BY <2>0, <4>1 DEF ServerCount
    <3> QED
      BY <3>5, <3>6, <3>7, <3>8, <3>9 DEF ServerInv
  <2>4. CASE S!RecvEOF(c)
    <3>0. /\ cl[c] = "recv" /\ cl' = [cl EXCEPT ![c] = "exit0"] /\ chan[c].end \in {"closed", "cut"}
          /\ chan[c].got = chan[c].sent /\ UNCHANGED <<nsecs, listening, queue, chan>>
      BY <2>4 DEF S!RecvEOF, S!At, S!ClientGo, S!netVars
    <3>1. /\ cl' \in [Clients -> {"connect", "recv", "exit0", "exit1", "gone"}]
          /\ cl'[c] = "exit0" /\ \A d \in Clients : d # c => cl'[d] = cl[d]
      BY <2>t, <3>0
    <3>2. S!TypeOK'
      <4>1. S!ClientTypeOK'
        BY <3>0, <3>1 DEF ServerInv, S!TypeOK, S!ClientTypeOK
      <4> QED
        BY <2>0, <3>0, <4>1 DEF ServerInv, S!TypeOK
    <3>3. ServerConns'
      <4>1. Among(queue) \subseteq Clients
        BY <2>t, AmongIn
      <4> QED
        BY <2>0, <3>0, <3>1, <4>1 DEF ServerInv, ServerConns
    <3>4. S!WholeAnswer'
      BY <3>0, <3>1 DEF ServerInv, ServerConns, S!WholeAnswer, S!At
    <3>5. ServerCount'
      <4>1. Answered' = Answered
        BY <3>0 DEF Answered
      <4> QED
        BY <2>0, <4>1 DEF ServerCount
    <3> QED
      BY <3>0, <3>2, <3>3, <3>4, <3>5 DEF ServerInv
  <2>5. CASE S!RecvError(c) \/ S!ClientDies(c)
    <3>0. UNCHANGED <<nsecs, listening, queue, chan>> /\ \E to \in {"exit1", "gone"} : cl' = [cl EXCEPT ![c] = to]
      BY <2>5 DEF S!RecvError, S!ClientDies, S!ClientGo, S!netVars
    <3>1. PICK to \in {"exit1", "gone"} : cl' = [cl EXCEPT ![c] = to]
      BY <3>0
    <3>2. /\ cl' \in [Clients -> {"connect", "recv", "exit0", "exit1", "gone"}]
          /\ cl'[c] = to /\ \A d \in Clients : d # c => cl'[d] = cl[d]
      BY <2>t, <3>1
    <3>3. S!TypeOK'
      <4>1. S!ClientTypeOK'
        BY <3>0, <3>2 DEF ServerInv, S!TypeOK, S!ClientTypeOK
      <4> QED
        BY <2>0, <3>0, <4>1 DEF ServerInv, S!TypeOK
    <3> QED
      BY <1>0, <2>0, <3>0, <3>2, <3>3, ServerSame
  <2> QED
    BY <1>10, <2>1, <2>2, <2>3, <2>4, <2>5 DEF S!Client, S!ClientStep
<1> QED
  BY <1>1, <1>2, <1>3, <1>4, <1>5, <1>6, <1>7, <1>8, <1>9, <1>10 DEF S!Next, S!Server

\* The invariant of 12-sendrecv says what the run checks.
LEMMA ServerListed ==
  ServerInv /\ ServerCount => S!TypeOK /\ S!WholeAnswer /\ S!OneAnswerPerStart
<1> SUFFICES ASSUME ServerInv, ServerCount PROVE S!TypeOK /\ S!WholeAnswer /\ S!OneAnswerPerStart
  OBVIOUS
<1>1. \A X : S!Cardinality(X) = Cardinality(X)
  BY DEF S!Cardinality, Cardinality
<1>2. S!OneAnswerPerStart
  BY <1>1 DEF ServerCount, S!OneAnswerPerStart, Answered
<1> QED
  BY <1>2 DEF ServerInv

------------------------------------------------------------------------------
(* 13-othersrv *)

\* Between accept() and close() a process has one connection open as connfd; nothing
\* is ever on descriptor 2, and 0 is what 1 is.  Only a process that waits has a child.
ForkProcs ==
  \A p \in F!Procs :
    /\ fds[p][2] = {} /\ fds[p][0] = fds[p][1]
    /\ proc[p] \in {"none", "accept", "wait", "uptime"} => connfds[p] = {}
    /\ proc[p] \in {"fork", "plumb", "exec"} => \E c \in Clients : connfds[p] = {c}
    /\ proc[p] = "exec" => fds[p][1] = connfds[p]
    /\ proc[p] = "uptime" => \E c \in Clients : fds[p][1] = {c}
    /\ proc[p] \notin {"close", "wait", "zombie", "gone"} => child[p] = 0

\* connect_retry() has tried for no more than its four delays.
ForkConns == /\ chan \in [Clients -> Chans(1)]
             /\ \A c \in Clients : cl[c] = "connect" => nsecs[c] <= 8

ForkInv == F!TypeOK /\ ForkProcs /\ F!ZombiesAwaited /\ ForkConns

\* The types of what the processes have.
ProcTypes ==
  /\ proc \in [F!Procs -> {"none", "accept", "fork", "plumb", "exec", "close", "wait", "uptime",
                           "zombie", "gone"}]
  /\ child \in [F!Procs -> 0..MaxProcs] /\ connfds \in [F!Procs -> SUBSET Clients]
  /\ fds \in [F!Procs -> [0..2 -> SUBSET Clients]]
  /\ fallen \in BOOLEAN

\* 13-othersrv begins with no process.
LEMMA ForkInit == F!Init => ForkInv
<1> SUFFICES ASSUME F!Init PROVE ForkInv
  OBVIOUS
<1> USE NetworkAssumption DEF F!Init, F!ClientInit, F!NoChan, F!StdNull
<1>1. ForkConns /\ ForkProcs
  BY DEF ForkConns, ForkProcs, Chans, Ends
<1>2. F!ClientTypeOK
  <2>1. listening \in BOOLEAN
    OBVIOUS
  <2>2. queue \in Seq(Clients) /\ Len(queue) <= QLen
    OBVIOUS
  <2>3. \A c \in Clients : chan[c].sent = 0 /\ chan[c].got = 0 /\ chan[c].end = "open"
    OBVIOUS
  <2>4. /\ cl \in [Clients -> {"connect", "recv", "exit0", "exit1", "gone"}]
        /\ nsecs \in [Clients -> {1, 2, 4, 8, 16}]
    OBVIOUS
  <2> HIDE DEF F!Init, F!ClientInit
  <2> QED
    BY <2>1, <2>2, <2>3, <2>4 DEF F!ClientTypeOK
<1>3. /\ proc \in [F!Procs -> {"none", "accept", "fork", "plumb", "exec", "close", "wait", "uptime",
                               "zombie", "gone"}]
      /\ child \in [F!Procs -> 0..MaxProcs] /\ connfds \in [F!Procs -> SUBSET Clients]
      /\ fds \in [F!Procs -> [0..2 -> SUBSET Clients]]
  OBVIOUS
<1>4. fallen \in BOOLEAN /\ ~listening
  OBVIOUS
<1>5. \A p \in F!Procs : ~F!Alive(p)
  BY DEF F!Alive
<1>7. F!ZombiesAwaited
  BY DEF F!ZombiesAwaited
<1> HIDE DEF F!Init
<1>6. F!TypeOK
  BY <1>2, <1>3, <1>4, <1>5 DEF F!TypeOK
<1> QED
  BY <1>1, <1>6, <1>7 DEF ForkInv

\* The kernel's part of a step changes no more of a connection than its end.
LEMMA KernelPart ==
  ASSUME F!TypeOK, ForkConns, \E p \in F!Procs : F!Alive(p), F!KernelCloses, UNCHANGED <<cl, nsecs>>
  PROVE  /\ F!ClientTypeOK' /\ ForkConns'
         /\ listening' <=> \E p \in F!Procs : F!Alive(p)'
<1> USE NetworkAssumption
<1> DEFINE Open == UNION {F!Holds(p) : p \in F!Procs}
           ch == [c \in Clients |->
                   IF c \in Open /\ c \notin Open'
                   THEN [chan[c] EXCEPT !.end = IF @ = "open" THEN "closed" ELSE @] ELSE chan[c]]
<1>0. IF \E p \in F!Procs : F!Alive(p)' THEN chan' = ch /\ UNCHANGED <<listening, queue>>
                                        ELSE F!StopListening(ch)
  BY DEF F!KernelCloses
<1>1. ASSUME NEW c \in Clients
      PROVE ch[c] \in Chans(1) /\ ch[c].sent = chan[c].sent /\ ch[c].got = chan[c].got
  <2>1. chan[c] \in Chans(1)
    BY DEF ForkConns
  <2>2. CASE ch[c] = chan[c]
    BY <2>1, <2>2
  <2>3. CASE ch[c] = [chan[c] EXCEPT !.end = IF @ = "open" THEN "closed" ELSE @]
    <3> HIDE DEF ch
    <3> QED
      BY <2>1, <2>3 DEF Chans, Ends
  <2>4. ch[c] = chan[c] \/ ch[c] = [chan[c] EXCEPT !.end = IF @ = "open" THEN "closed" ELSE @]
    OBVIOUS
  <2> QED
    BY <2>2, <2>3, <2>4
<1>2. listening <=> \E p \in F!Procs : F!Alive(p)
  BY DEF F!TypeOK
<1>d. ch = [c \in Clients |-> ch[c]]
  OBVIOUS
<1> HIDE DEF ch
<1>3. /\ DOMAIN chan' = Clients /\ chan' = [c \in Clients |-> chan'[c]]
      /\ \A c \in Clients : chan'[c] \in Chans(1) /\ chan'[c].sent = chan[c].sent /\ chan'[c].got = chan[c].got
  <2>1. CASE chan' = ch
    BY <1>1, <1>d, <2>1
  <2>2. CASE F!StopListening(ch)
    <3>1. chan' = [c \in Clients |-> IF F!Contains(queue, c) THEN [ch[c] EXCEPT !.end = "reset"] ELSE ch[c]]
      BY <2>2 DEF F!StopListening
    <3>2. \A c \in Clients : chan'[c] = ch[c] \/ chan'[c] = [ch[c] EXCEPT !.end = "reset"]
      BY <3>1
    <3>3. ASSUME NEW c \in Clients
          PROVE  chan'[c] \in Chans(1) /\ chan'[c].sent = chan[c].sent /\ chan'[c].got = chan[c].got
      <4>1. CASE chan'[c] = ch[c]
        BY <1>1, <4>1
      <4>2. CASE chan'[c] = [ch[c] EXCEPT !.end = "reset"]
        BY <1>1, <4>2 DEF Chans, Ends
      <4> QED
        BY <3>2, <4>1, <4>2
    <3> QED
      BY <3>1, <3>3
  <2> QED
    BY <1>0, <2>1, <2>2
<1>4. ForkConns'
  BY <1>3 DEF ForkConns
<1>5. queue' \in Seq(Clients) /\ Len(queue') <= QLen
  <2>1. CASE queue' = <<>>
    BY <2>1
  <2>2. CASE queue' = queue
    BY <2>2 DEF F!TypeOK, F!ClientTypeOK
  <2> QED
    BY <1>0, <2>1, <2>2 DEF F!StopListening
<1>6. /\ listening' \in BOOLEAN
      /\ listening' <=> \E p \in F!Procs : F!Alive(p)'
  BY <1>0, <1>2 DEF F!StopListening
<1>7. F!ClientTypeOK'
  <2>1. \A c \in Clients : /\ chan'[c].sent \in 0..1 /\ chan'[c].got \in 0..chan'[c].sent
                           /\ chan'[c].end \in Ends
    BY <1>3 DEF F!TypeOK, F!ClientTypeOK, Chans
  <2> QED
    BY <1>5, <1>6, <2>1 DEF F!TypeOK, F!ClientTypeOK, Ends
<1> QED
  BY <1>4, <1>6, <1>7

\* A step of a process of the server, with what the kernel does after it.
LEMMA ForkMoves ==
  ASSUME ForkInv, NEW p \in F!Procs, F!Alive(p), F!KernelCloses, UNCHANGED <<cl, nsecs>>,
         ProcTypes', ForkProcs', F!ZombiesAwaited'
  PROVE  ForkInv'
<1>1. F!ClientTypeOK' /\ ForkConns' /\ (listening' <=> \E q \in F!Procs : F!Alive(q)')
  BY KernelPart DEF ForkInv
<1>2. (\E q \in F!Procs : F!Alive(q)') <=> (\E q \in F!Procs : F!Alive(q))'
  OBVIOUS
<1> QED
  BY <1>1, <1>2 DEF ForkInv, F!TypeOK, ProcTypes

\* exit() turns its caller, and perhaps its child, into what is no process any more.
LEMMA ForkExits ==
  ASSUME ForkInv, NEW p \in F!Procs, F!Alive(p), child[p] # p, F!Exit(p), F!KernelCloses,
         UNCHANGED <<cl, nsecs>>
  PROVE  ForkInv'
<1>1. \A q \in F!Procs : proc'[q] = proc[q] \/ proc'[q] \in {"zombie", "gone"}
  BY DEF F!Exit, F!Dead
<1>2. DOMAIN proc' = F!Procs /\ proc' = [q \in F!Procs |-> proc'[q]]
  BY DEF F!Exit
<1>3. UNCHANGED <<child, connfds, fds, fallen>>
  BY DEF F!Exit
<1>4. ProcTypes'
  BY <1>1, <1>2, <1>3 DEF ForkInv, F!TypeOK, ProcTypes
<1>5. ForkProcs'
  BY <1>1, <1>3 DEF ForkInv, ForkProcs
<1>6. F!ZombiesAwaited'
  <2> SUFFICES ASSUME NEW q \in F!Procs, proc'[q] = "zombie"
               PROVE  \E x \in F!Procs : proc'[x] \in {"close", "wait"} /\ child'[x] = q
    BY DEF F!ZombiesAwaited
  <2>1. ASSUME NEW x \in F!Procs, proc[x] \in {"close", "wait"}, x # p PROVE proc'[x] = proc[x]
    BY <2>1 DEF F!Exit
  <2>2. CASE q = p
    <3>1. PICK x \in F!Procs : F!Alive(x) /\ child[x] = p
      BY <2>2 DEF F!Exit, F!Dead
    <3>2. child[x] # 0
      BY <3>1 DEF F!Procs
    <3>3. proc[x] \in {"close", "wait"}
      BY <3>1, <3>2 DEF ForkInv, ForkProcs, F!Alive
    <3> QED
      BY <1>3, <2>1, <2>2, <3>1, <3>3
  <2>3. CASE q # p
    <3>1. proc[q] = "zombie" /\ q # child[p]
      BY <2>3 DEF F!Exit
    <3>2. PICK x \in F!Procs : proc[x] \in {"close", "wait"} /\ child[x] = q
      BY <3>1 DEF ForkInv, F!ZombiesAwaited
    <3> QED
      BY <1>3, <2>1, <3>1, <3>2
  <2> QED
    BY <2>2, <2>3
<1> QED
  BY <1>4, <1>5, <1>6, ForkMoves

\* fork() gives the child the connection of its parent, and the parent a child.
LEMMA ForkForks ==
  ASSUME ForkInv, NEW p \in F!Procs, F!Fork(p), UNCHANGED <<cl, nsecs>>
  PROVE  ForkInv'
<1> USE NetworkAssumption
<1>1. PICK q \in F!Procs :
        /\ proc[q] = "none" /\ proc' = [proc EXCEPT ![p] = "close", ![q] = "plumb"]
        /\ child' = [child EXCEPT ![p] = q] /\ connfds' = [connfds EXCEPT ![q] = connfds[p]]
        /\ fds' = [fds EXCEPT ![q] = fds[p]]
  BY DEF F!Fork
<1>2. proc[p] = "fork" /\ p # q /\ UNCHANGED fallen /\ F!KernelCloses
  BY <1>1 DEF F!Fork
<1>3. ProcTypes
  BY DEF ForkInv, F!TypeOK, ProcTypes
<1>4. q \in 0..MaxProcs
  BY DEF F!Procs
<1>5. ProcTypes'
  BY <1>1, <1>2, <1>3, <1>4 DEF ProcTypes
<1>6. ForkProcs'
  <2> SUFFICES ASSUME NEW r \in F!Procs
      PROVE /\ fds'[r][2] = {} /\ fds'[r][0] = fds'[r][1]
            /\ proc'[r] \in {"none", "accept", "wait", "uptime"} => connfds'[r] = {}
            /\ proc'[r] \in {"fork", "plumb", "exec"} => \E c \in Clients : connfds'[r] = {c}
            /\ proc'[r] = "exec" => fds'[r][1] = connfds'[r]
            /\ proc'[r] = "uptime" => \E c \in Clients : fds'[r][1] = {c}
            /\ proc'[r] \notin {"close", "wait", "zombie", "gone"} => child'[r] = 0
    BY DEF ForkProcs
  <2>1. CASE r = p
    <3>1. proc'[r] = "close" /\ fds'[r] = fds[p]
      BY <1>1, <1>2, <1>3, <2>1 DEF ProcTypes
    <3> QED
      BY <2>1, <3>1 DEF ForkInv, ForkProcs
  <2>2. CASE r = q
    <3>1. /\ proc'[r] = "plumb" /\ fds'[r] = fds[p] /\ connfds'[r] = connfds[p]
          /\ child'[r] = child[r]
      BY <1>1, <1>2, <1>3, <2>2 DEF ProcTypes
    <3> QED
      BY <1>1, <1>2, <2>2, <3>1 DEF ForkInv, ForkProcs
  <2>3. CASE r # p /\ r # q
    <3>1. /\ proc'[r] = proc[r] /\ fds'[r] = fds[r] /\ connfds'[r] = connfds[r]
          /\ child'[r] = child[r]
      BY <1>1, <1>3, <2>3 DEF ProcTypes
    <3> QED
      BY <3>1 DEF ForkInv, ForkProcs
  <2> QED
    BY <2>1, <2>2, <2>3
<1>7. F!Alive(p)
  BY <1>2 DEF F!Alive
<1>8. F!ZombiesAwaited'
  <2> SUFFICES ASSUME NEW r \in F!Procs, proc'[r] = "zombie"
               PROVE  \E x \in F!Procs : proc'[x] \in {"close", "wait"} /\ child'[x] = r
    BY DEF F!ZombiesAwaited
  <2>1. proc[r] = "zombie"
    BY <1>1, <1>3 DEF ProcTypes
  <2>2. PICK x \in F!Procs : proc[x] \in {"close", "wait"} /\ child[x] = r
    BY <2>1 DEF ForkInv, F!ZombiesAwaited
  <2>3. x # p /\ x # q
    BY <1>1, <1>2, <2>2
  <2>4. proc'[x] = proc[x] /\ child'[x] = child[x]
    BY <1>1, <1>3, <2>3 DEF ProcTypes
  <2> QED
    BY <2>2, <2>4
<1> QED
  BY <1>2, <1>5, <1>6, <1>7, <1>8, ForkMoves

\* A step that moves one process and changes nothing of the others.
LEMMA ForkGoes ==
  ASSUME ForkInv, NEW p \in F!Procs, F!Alive(p), F!KernelCloses, ProcTypes',
         UNCHANGED <<child, cl, nsecs>>, proc'[p] \in {"accept", "exec", "wait", "uptime"},
         \A r \in F!Procs : r # p => /\ proc'[r] = proc[r] /\ connfds'[r] = connfds[r]
                                      /\ fds'[r] = fds[r],
         fds'[p][2] = {}, fds'[p][0] = fds'[p][1],
         proc'[p] # "exec" => connfds'[p] = {},
         proc'[p] = "exec" => fds'[p][1] = connfds'[p] /\ \E c \in Clients : connfds'[p] = {c},
         proc'[p] = "uptime" => \E c \in Clients : fds'[p][1] = {c},
         proc'[p] # "wait" => child[p] = 0
  PROVE  ForkInv'
<1>1. ForkProcs'
  BY DEF ForkInv, ForkProcs
<1>2. F!ZombiesAwaited'
  <2> SUFFICES ASSUME NEW r \in F!Procs, proc'[r] = "zombie"
               PROVE  \E x \in F!Procs : proc'[x] \in {"close", "wait"} /\ child'[x] = r
    BY DEF F!ZombiesAwaited
  <2>1. PICK x \in F!Procs : proc[x] \in {"close", "wait"} /\ child[x] = r
    BY DEF ForkInv, F!ZombiesAwaited
  <2>2. child[x] # 0
    BY <2>1 DEF F!Procs
  <2>3. proc'[x] \in {"close", "wait"}
    BY <2>1, <2>2
  <2> QED
    BY <2>1, <2>3
<1> QED
  BY <1>1, <1>2, ForkMoves

\* A step of a client leaves the processes of the server alone.
LEMMA ForkClients ==
  ASSUME ForkInv, UNCHANGED F!srvVars, UNCHANGED listening, F!ClientTypeOK', ForkConns'
  PROVE  ForkInv'
<1>1. ForkProcs' /\ F!ZombiesAwaited'
  BY DEF ForkInv, ForkProcs, F!ZombiesAwaited, F!srvVars
<1>2. (\E p \in F!Procs : F!Alive(p))' <=> \E p \in F!Procs : F!Alive(p)
  BY DEF F!Alive, F!srvVars
<1>3. ProcTypes'
  BY DEF ForkInv, F!TypeOK, ProcTypes, F!srvVars
<1>4. F!TypeOK'
  BY <1>2, <1>3 DEF ForkInv, F!TypeOK, ProcTypes
<1> QED
  BY <1>1, <1>4 DEF ForkInv

\* Every step of 13-othersrv keeps its invariant.
LEMMA ForkStep == ForkInv /\ F!Next => ForkInv'
<1> SUFFICES ASSUME ForkInv, F!Next PROVE ForkInv'
  OBVIOUS
<1> USE NetworkAssumption
<1>0. ProcTypes /\ F!ClientTypeOK /\ ForkConns /\ ForkProcs
  BY DEF ForkInv, F!TypeOK, ProcTypes
<1>1. CASE F!Start /\ UNCHANGED <<cl, nsecs>>
  <2>0. 1 \in F!Procs
    BY DEF F!Procs
  <2>1. /\ proc' = [proc EXCEPT ![1] = "accept"] /\ proc[1] = "none" /\ listening' = TRUE
        /\ UNCHANGED <<queue, chan, child, connfds, fds, fallen, cl, nsecs>>
    BY <1>1 DEF F!Start, F!Goto
  <2>2. F!ClientTypeOK' /\ ForkConns'
    BY <1>0, <2>1 DEF F!ClientTypeOK, ForkConns
  <2>3. ProcTypes'
    BY <1>0, <2>1 DEF ProcTypes
  <2>4. F!Alive(1)'
    BY <1>0, <2>0, <2>1 DEF F!Alive, ProcTypes
  <2>5. ForkProcs'
    <3>1. proc'[1] = "accept" /\ \A p \in F!Procs : p # 1 => proc'[p] = proc[p]
      BY <1>0, <2>0, <2>1 DEF ProcTypes
    <3> QED
      BY <1>0, <2>0, <2>1, <3>1 DEF ForkProcs
  <2>6. F!TypeOK'
    BY <2>0, <2>1, <2>2, <2>3, <2>4 DEF F!TypeOK, ProcTypes
  <2>7. F!ZombiesAwaited'
    BY <1>0, <2>1 DEF ForkInv, ProcTypes, F!ZombiesAwaited
  <2> QED
    BY <2>2, <2>5, <2>6, <2>7 DEF ForkInv
<1>2. ASSUME NEW p \in F!Procs, F!Server(p), UNCHANGED <<cl, nsecs>>
      PROVE  ForkInv'
  <2>0. /\ cl \in [Clients -> {"connect", "recv", "exit0", "exit1", "gone"}]
        /\ proc[p] # "none" /\ queue \in Seq(Clients) /\ Len(queue) <= QLen
        /\ fds[p] \in [0..2 -> SUBSET Clients] /\ connfds[p] \in SUBSET Clients
        /\ fds[p][2] = {} /\ fds[p][0] = fds[p][1]
        /\ child[p] # 0 => proc[p] \in {"close", "wait", "zombie", "gone"}
    BY <1>0, <1>2 DEF F!ClientTypeOK, ForkProcs, ProcTypes, F!Server, F!Accept, F!Fork, F!ForkFails,
       F!Plumb, F!PlumbFails, F!Exec, F!ParentClose, F!WaitAndExit, F!UptimeWrites, F!UptimeEnds, F!Goto
  <2>1. CASE F!Accept(p)
    <3>0. /\ proc[p] = "accept" /\ proc' = [proc EXCEPT ![p] = "fork"] /\ queue # <<>>
          /\ connfds' = [connfds EXCEPT ![p] = @ \cup {Head(queue)}] /\ queue' = Tail(queue)
          /\ UNCHANGED <<listening, chan, child, fds, fallen, cl, nsecs>>
      BY <1>2, <2>1 DEF F!Accept, F!Goto
    <3>1. /\ Head(queue) \in Clients /\ queue' \in Seq(Clients) /\ Len(queue') <= QLen
      BY <2>0, <3>0
    <3>2. F!ClientTypeOK' /\ ForkConns'
      BY <1>0, <3>0, <3>1 DEF F!ClientTypeOK, ForkConns
    <3>3. ASSUME NEW q \in F!Procs
          PROVE  /\ proc'[q] = IF q = p THEN "fork" ELSE proc[q]
                 /\ connfds'[q] = IF q = p THEN {Head(queue)} ELSE connfds[q]
      BY <1>0, <3>0 DEF ProcTypes, ForkProcs
    <3>4. ProcTypes'
      BY <1>0, <3>0, <3>1 DEF ProcTypes
    <3>5. ForkProcs'
      BY <1>0, <3>0, <3>1, <3>3 DEF ForkProcs
    <3>6. F!Alive(p) /\ F!Alive(p)'
      BY <3>0, <3>3 DEF F!Alive
    <3>7. listening
      BY <3>6 DEF ForkInv, F!TypeOK
    <3>8. F!TypeOK'
      BY <3>0, <3>2, <3>4, <3>6, <3>7 DEF F!TypeOK, ProcTypes
    <3>9. F!ZombiesAwaited'
      BY <3>0, <3>3 DEF ForkInv, F!ZombiesAwaited
    <3> QED
      BY <3>2, <3>5, <3>8, <3>9 DEF ForkInv
  <2>2. CASE F!Fork(p)
    BY <1>2, <2>2, ForkForks
  <2>3. CASE F!ForkFails(p)
    BY <1>2, <2>0, <2>3, ForkExits DEF F!ForkFails, F!Alive, F!Procs
  <2>4. CASE F!Plumb(p)
    <3>0. /\ proc[p] = "plumb" /\ proc' = [proc EXCEPT ![p] = "exec"]
          /\ fds' = [fds EXCEPT ![p][1] = connfds[p], ![p][0] = connfds[p]]
          /\ UNCHANGED <<child, connfds, fallen, cl, nsecs>> /\ F!KernelCloses
      BY <1>2, <2>4 DEF F!Plumb, F!Goto
    <3> DEFINE std == [fds[p] EXCEPT ![1] = connfds[p], ![0] = connfds[p]]
    <3>1. std \in [0..2 -> SUBSET Clients] /\ std[0] = connfds[p] /\ std[1] = connfds[p] /\ std[2] = {}
      BY <2>0
    <3>2. fds' = [fds EXCEPT ![p] = std]
      BY <1>0, <3>0 DEF ProcTypes
    <3>3. \E c \in Clients : connfds[p] = {c}
      BY <1>0, <3>0 DEF ForkProcs
    <3>4. connfds' = [connfds EXCEPT ![p] = connfds[p]]
      BY <1>0, <3>0 DEF ProcTypes
    <3>5. F!Alive(p) /\ child[p] = 0
      BY <1>0, <2>0, <3>0 DEF F!Alive, ProcTypes
    <3> HIDE DEF std
    <3>6. ProcTypes'
      BY <1>0, <3>0, <3>1, <3>2 DEF ProcTypes
    <3>7. proc'[p] = "exec" /\ fds'[p] = std /\ connfds'[p] = connfds[p]
      BY <1>0, <3>0, <3>2 DEF ProcTypes
    <3>8. \A r \in F!Procs : r # p => proc'[r] = proc[r] /\ connfds'[r] = connfds[r] /\ fds'[r] = fds[r]
      BY <1>0, <3>0, <3>2 DEF ProcTypes
    <3> QED
      BY <3>0, <3>1, <3>3, <3>5, <3>6, <3>7, <3>8, ForkGoes
  <2>5. CASE F!PlumbFails(p)
    BY <1>2, <2>0, <2>5, ForkExits DEF F!PlumbFails, F!Alive, F!Procs
  <2>6. CASE F!Exec(p)
    <3>0. /\ proc[p] = "exec" /\ connfds' = [connfds EXCEPT ![p] = {}]
          /\ UNCHANGED <<child, fds, cl, nsecs>> /\ F!KernelCloses
      BY <1>2, <2>6 DEF F!Exec, F!Goto
    <3>1. PICK to \in {"uptime", "accept"} : proc' = [proc EXCEPT ![p] = to]
      BY <2>6 DEF F!Exec, F!Goto
    <3>2. fallen' \in BOOLEAN
      BY <1>0, <2>6 DEF F!Exec, ProcTypes
    <3>3. \E c \in Clients : fds[p][1] = {c}
      BY <1>0, <3>0 DEF ForkProcs
    <3>4. F!Alive(p) /\ child[p] = 0
      BY <2>0, <3>0 DEF F!Alive
    <3>5. ProcTypes'
      BY <1>0, <3>0, <3>1, <3>2 DEF ProcTypes
    <3>6. /\ proc'[p] = to /\ connfds'[p] = {}
          /\ \A r \in F!Procs : r # p => proc'[r] = proc[r] /\ connfds'[r] = connfds[r]
      BY <1>0, <3>0, <3>1 DEF ProcTypes
    <3> QED
      BY <2>0, <3>0, <3>3, <3>4, <3>5, <3>6, ForkGoes
  <2>7. CASE F!ParentClose(p)
    <3>0. /\ proc[p] = "close" /\ proc' = [proc EXCEPT ![p] = "wait"]
          /\ connfds' = [connfds EXCEPT ![p] = {}]
          /\ UNCHANGED <<child, fds, fallen, cl, nsecs>> /\ F!KernelCloses
      BY <1>2, <2>7 DEF F!ParentClose, F!Goto
    <3>1. F!Alive(p)
      BY <3>0 DEF F!Alive
    <3>2. ProcTypes'
      BY <1>0, <3>0 DEF ProcTypes
    <3>3. /\ proc'[p] = "wait" /\ connfds'[p] = {}
          /\ \A r \in F!Procs : r # p => proc'[r] = proc[r] /\ connfds'[r] = connfds[r]
      BY <1>0, <3>0 DEF ProcTypes
    <3> QED
      BY <2>0, <3>0, <3>1, <3>2, <3>3, ForkGoes
  <2>8. CASE F!WaitAndExit(p)
    BY <1>2, <2>8, ForkExits DEF F!WaitAndExit, F!Alive
  <2>9. CASE F!UptimeWrites(p)
    <3>0. UNCHANGED <<cl, nsecs, listening, queue>> /\ UNCHANGED F!srvVars
      BY <1>2, <2>9 DEF F!UptimeWrites
    <3>1. PICK c \in fds[p][1] : chan[c].sent < 1 /\ chan' = [chan EXCEPT ![c].sent = @ + 1]
      BY <2>9 DEF F!UptimeWrites
    <3>2. c \in Clients
      BY <2>0, <3>1
    <3>3. \A d \in Clients : /\ chan[d].sent \in 0..1 /\ chan[d].got \in 0..chan[d].sent
                             /\ chan[d].end \in Ends
      BY <1>0 DEF F!ClientTypeOK, Ends
    <3>4. /\ chan'[c].sent = chan[c].sent + 1 /\ chan'[c].end = chan[c].end
          /\ chan'[c].got = chan[c].got /\ \A d \in Clients : d # c => chan'[d] = chan[d]
      BY <1>0, <3>1, <3>2 DEF ForkConns, Chans
    <3>5. chan' \in [Clients -> Chans(1)]
      <4>1. chan[c].sent + 1 \in 0..1
        BY <3>1, <3>2, <3>3
      <4> QED
        BY <1>0, <3>1, <3>2, <4>1 DEF ForkConns, Chans
    <3>6. \A d \in Clients : /\ chan'[d].sent \in 0..1 /\ chan'[d].got \in 0..chan'[d].sent
                             /\ chan'[d].end \in Ends
      BY <3>1, <3>2, <3>3, <3>4
    <3>7. F!ClientTypeOK'
      BY <1>0, <3>0, <3>6 DEF F!ClientTypeOK, Ends
    <3>8. ForkConns'
      BY <1>0, <3>0, <3>5 DEF ForkConns
    <3> QED
      BY <3>0, <3>7, <3>8, ForkClients
  <2>10. CASE F!UptimeEnds(p)
    BY <1>2, <2>0, <2>10, ForkExits DEF F!UptimeEnds, F!Alive, F!Procs
  <2> QED
    BY <1>2, <2>1, <2>2, <2>3, <2>4, <2>5, <2>6, <2>7, <2>8, <2>9, <2>10 DEF F!Server
<1>3. ASSUME NEW c \in Clients, F!ClientStep(c) \/ F!ClientDies(c), UNCHANGED F!srvVars
      PROVE  ForkInv'
  <2>t. /\ cl \in [Clients -> {"connect", "recv", "exit0", "exit1", "gone"}]
        /\ nsecs \in [Clients -> {1, 2, 4, 8, 16}] /\ queue \in Seq(Clients)
    BY <1>0 DEF F!ClientTypeOK
  <2>1. CASE F!Connected(c)
    <3>0. /\ cl' = [cl EXCEPT ![c] = "recv"] /\ queue' = Append(queue, c)
          /\ Len(queue) < QLen /\ UNCHANGED <<nsecs, listening, chan>>
      BY <2>1 DEF F!Connected, F!ClientGo
    <3>1. queue' \in Seq(Clients) /\ Len(queue') = Len(queue) + 1 /\ Len(queue) \in Nat
      BY <2>t, <3>0
    <3>2. Len(queue') <= QLen
      BY <3>0, <3>1
    <3>3. /\ cl' \in [Clients -> {"connect", "recv", "exit0", "exit1", "gone"}]
          /\ cl'[c] = "recv" /\ \A d \in Clients : d # c => cl'[d] = cl[d]
      BY <2>t, <3>0
    <3>4. F!ClientTypeOK'
      BY <1>0, <3>0, <3>1, <3>2, <3>3 DEF F!ClientTypeOK
    <3>5. ForkConns'
      BY <1>0, <3>0, <3>3 DEF ForkConns
    <3> QED
      BY <1>3, <3>0, <3>4, <3>5, ForkClients
  <2>2. CASE F!Refused(c)
    <3>0. /\ cl[c] = "connect" /\ nsecs' = [nsecs EXCEPT ![c] = 2 * @]
          /\ cl' = (IF 2 * nsecs[c] > 8 THEN [cl EXCEPT ![c] = "exit1"] ELSE cl)
          /\ UNCHANGED <<listening, queue, chan>>
      BY <2>2 DEF F!Refused, F!At, F!ClientGo, F!netVars, F!MAXTIMES
    <3>1. /\ nsecs[c] \in {1, 2, 4, 8} /\ nsecs' \in [Clients -> {1, 2, 4, 8, 16}]
          /\ nsecs'[c] = 2 * nsecs[c] /\ \A d \in Clients : d # c => nsecs'[d] = nsecs[d]
      BY <1>0, <2>t, <3>0 DEF ForkConns
    <3>2. /\ cl' \in [Clients -> {"connect", "recv", "exit0", "exit1", "gone"}]
          /\ cl'[c] \in {"connect", "exit1"} /\ (cl'[c] = "connect" => nsecs'[c] <= 8)
          /\ \A d \in Clients : d # c => cl'[d] = cl[d]
      BY <2>t, <3>0, <3>1
    <3>3. F!ClientTypeOK'
      BY <1>0, <3>0, <3>1, <3>2 DEF F!ClientTypeOK
    <3>4. ForkConns'
      BY <1>0, <3>0, <3>1, <3>2 DEF ForkConns
    <3> QED
      BY <1>3, <3>0, <3>3, <3>4, ForkClients
  <2>3. CASE F!Recv(c)
    <3>0. UNCHANGED <<cl, nsecs, listening, queue>>
      BY <2>3 DEF F!Recv
    <3>1. PICK k \in 1..(chan[c].sent - chan[c].got) : chan' = [chan EXCEPT ![c].got = @ + k]
      BY <2>3 DEF F!Recv
    <3>2. /\ chan'[c].sent = chan[c].sent /\ chan'[c].end = chan[c].end
          /\ chan'[c].got = chan[c].got + k /\ \A d \in Clients : d # c => chan'[d] = chan[d]
      BY <1>0, <3>1 DEF ForkConns, Chans
    <3>3. \A d \in Clients : /\ chan[d].sent \in 0..1 /\ chan[d].got \in 0..chan[d].sent
                             /\ chan[d].end \in Ends
      BY <1>0 DEF F!ClientTypeOK, Ends
    <3>4. chan'[c].got \in 0..chan'[c].sent /\ chan[c].got + k \in 0..1
      BY <3>1, <3>2, <3>3
    <3>5. chan' \in [Clients -> Chans(1)]
      BY <1>0, <3>1, <3>4 DEF ForkConns, Chans
    <3>6. \A d \in Clients : /\ chan'[d].sent \in 0..1 /\ chan'[d].got \in 0..chan'[d].sent
                             /\ chan'[d].end \in Ends
      BY <3>2, <3>3, <3>4
    <3>7. F!ClientTypeOK'
      BY <1>0, <3>0, <3>6 DEF F!ClientTypeOK, Ends
    <3>8. ForkConns'
      BY <1>0, <3>0, <3>5 DEF ForkConns
    <3> QED
      BY <1>3, <3>0, <3>7, <3>8, ForkClients
  <2>4. CASE F!RecvEOF(c) \/ F!RecvError(c) \/ F!ClientDies(c)
    <3>0. UNCHANGED <<nsecs, listening, queue, chan>>
      BY <2>4 DEF F!RecvEOF, F!RecvError, F!ClientDies, F!netVars
    <3>1. PICK to \in {"exit0", "exit1", "gone"} : cl' = [cl EXCEPT ![c] = to]
      BY <2>4 DEF F!RecvEOF, F!RecvError, F!ClientDies, F!ClientGo
    <3>2. /\ cl' \in [Clients -> {"connect", "recv", "exit0", "exit1", "gone"}]
          /\ cl'[c] = to /\ \A d \in Clients : d # c => cl'[d] = cl[d]
      BY <2>t, <3>1
    <3>3. F!ClientTypeOK'
      BY <1>0, <3>0, <3>2 DEF F!ClientTypeOK
    <3>4. ForkConns'
      BY <1>0, <3>0, <3>2 DEF ForkConns
    <3> QED
      BY <1>3, <3>0, <3>3, <3>4, ForkClients
  <2> QED
    BY <1>3, <2>1, <2>2, <2>3, <2>4 DEF F!ClientStep
<1> QED
  BY <1>1, <1>2, <1>3 DEF F!Next, F!ServerStep, F!Client

\* The invariant of 13-othersrv says what the run checks.
LEMMA ForkListed == ForkInv => F!TypeOK /\ F!OneConnection /\ F!ZombiesAwaited
<1> SUFFICES ASSUME ForkInv PROVE F!TypeOK /\ F!OneConnection /\ F!ZombiesAwaited
  OBVIOUS
<1>1. F!OneConnection
  <2> SUFFICES ASSUME NEW q \in F!Procs, proc[q] = "uptime"
               PROVE  \E c \in Clients : F!Holds(q) = {c} /\ fds[q][1] = {c}
    BY DEF F!OneConnection
  <2>1. PICK c \in Clients : fds[q][1] = {c}
    BY DEF ForkInv, ForkProcs
  <2>2. fds[q][0] = {c} /\ fds[q][2] = {} /\ connfds[q] = {}
    BY <2>1 DEF ForkInv, ForkProcs
  <2>3. UNION {fds[q][d] : d \in 0..2} = {c}
    BY <2>1, <2>2
  <2> QED
    BY <2>1, <2>2, <2>3 DEF F!Holds, F!Alive
<1> QED
  BY <1>1 DEF ForkInv

------------------------------------------------------------------------------
(* 14-connless *)

\* Clients that a server has served: printed, on their way, or being served.
DServed == {c \in Clients : printed[c] # 0} \cup {m.c : m \in {x \in net : x.kind = "answer"}}
           \cup (IF peer = None THEN {} ELSE {peer})
\* An alarm is set between alarm() and the end of recvfrom() only, and rings only in
\* a blocked one; whoever a datagram or the server names has sent a request.
DatagramInv ==
  /\ D!TypeOK
  /\ \A c \in Clients : /\ cl[c] \in {"send", "alarm", "done"} => alarm[c] = "off"
                        /\ alarm[c] = "rung" => cl[c] = "blocked"
  /\ \A m \in net : m.kind \in {"request", "answer"} /\ cl[m.c] # "send"
  /\ (peer = None) <=> (srv # "popen")
  /\ peer # None => cl[peer] # "send"
\* A start serves one client.
DatagramCount ==
  /\ IsFiniteSet(DServed)
  /\ Cardinality(DServed) + (IF srv = "recv" THEN 1 ELSE 0) <= starts

\* 14-connless begins with nothing sent.
LEMMA DatagramInit == D!Init => DatagramInv /\ DatagramCount
<1> SUFFICES ASSUME D!Init PROVE DatagramInv /\ DatagramCount
  OBVIOUS
<1> USE NetworkAssumption DEF D!Init
<1>1. DServed = {}
  BY DEF DServed
<1>2. DatagramCount
  BY <1>1, FS_EmptySet DEF DatagramCount
<1>3. D!TypeOK
  BY DEF D!TypeOK
<1> QED
  BY <1>2, <1>3 DEF DatagramInv

\* A step that serves nobody new keeps the count.
LEMMA DatagramKeeps ==
  ASSUME DatagramInv, DatagramCount, DServed' \subseteq DServed, UNCHANGED <<srv, starts>>
  PROVE  DatagramCount'
<1>1. IsFiniteSet(DServed') /\ Cardinality(DServed') <= Cardinality(DServed)
      /\ Cardinality(DServed) \in Nat /\ Cardinality(DServed') \in Nat
  BY NoneMore DEF DatagramCount
<1>2. starts \in Nat
  BY NetworkAssumption DEF DatagramInv, D!TypeOK
<1> QED
  BY <1>1, <1>2 DEF DatagramCount

\* A client's own step: nothing that the server has.
LEMMA DatagramClient ==
  ASSUME DatagramInv, DatagramCount, NEW c \in Clients,
         D!Client(c) \/ D!Ring(c) \/ D!RecvFails(c)
  PROVE  DatagramInv' /\ DatagramCount'
<1> USE NetworkAssumption
<1>0. UNCHANGED <<srv, peer, line, starts>>
  BY DEF D!Client, D!SendRequest, D!SetAlarm, D!Ring, D!Block, D!Receive, D!Interrupted,
     D!StopAlarm, D!RecvFails, D!srvVars
<1>t. /\ cl \in [Clients -> {"send", "alarm", "recv", "blocked", "stop", "done"}]
      /\ alarm \in [Clients -> {"off", "set", "rung"}] /\ early \subseteq Clients
      /\ printed \in [Clients -> 0..(Lines + 1)]
      /\ \A m \in net : m.c \in Clients /\ m.line \in 0..(Lines + 1)
  BY DEF DatagramInv, D!TypeOK
<1>s. /\ \A d \in Clients : /\ cl[d] \in {"send", "alarm", "done"} => alarm[d] = "off"
                            /\ alarm[d] = "rung" => cl[d] = "blocked"
      /\ \A m \in net : m.kind \in {"request", "answer"} /\ cl[m.c] # "send"
  BY DEF DatagramInv
\* What is left to show of each step.
<1>a. ASSUME cl' \in [Clients -> {"send", "alarm", "recv", "blocked", "stop", "done"}],
             alarm' \in [Clients -> {"off", "set", "rung"}], early' \subseteq Clients,
             printed' \in [Clients -> 0..(Lines + 1)],
             \A m \in net' : m \in net \/ m = D!Request(c),
             \A d \in Clients \ {c} : cl'[d] = cl[d] /\ alarm'[d] = alarm[d],
             cl'[c] # "send" \/ (cl[c] = "send" /\ net' \subseteq net),
             cl'[c] \in {"send", "alarm", "done"} => alarm'[c] = "off",
             alarm'[c] = "rung" => cl'[c] = "blocked",
             \A d \in Clients : printed'[d] # 0 => printed[d] # 0 \/ \E m \in net : m.kind = "answer" /\ m.c = d
      PROVE  DatagramInv' /\ DatagramCount'
  <2>1. D!Request(c).kind = "request" /\ D!Request(c).c = c /\ D!Request(c).line = 0
    BY DEF D!Request
  <2>2. \A m \in net' : m.c \in Clients /\ m.line \in 0..(Lines + 1)
    BY <1>a, <1>t, <2>1
  <2>3. \A m \in net' : m.kind \in {"request", "answer"} /\ cl'[m.c] # "send"
    BY <1>a, <1>t, <1>s, <2>1
  <2>4. D!TypeOK'
    BY <1>0, <1>a, <2>2 DEF DatagramInv, D!TypeOK
  <2>5. peer # None => cl'[peer] # "send"
    <3>1. peer # None => peer \in Clients /\ cl[peer] # "send"
      BY DEF DatagramInv, D!TypeOK
    <3> QED
      BY <1>a, <3>1
  <2>6. DatagramInv'
    BY <1>0, <1>a, <1>s, <2>3, <2>4, <2>5 DEF DatagramInv
  <2>7. DServed' \subseteq DServed
    BY <1>0, <1>a, <2>1 DEF DServed
  <2> QED
    BY <1>0, <2>6, <2>7, DatagramKeeps
<1>1. CASE D!SendRequest(c)
  <2>1. /\ cl[c] = "send" /\ UNCHANGED <<alarm, early, printed>>
        /\ net' = net \/ net' = net \cup {D!Request(c)}
    BY <1>1 DEF D!SendRequest, D!ClientGo
  <2>2. PICK to \in {"alarm", "done"} : cl' = [cl EXCEPT ![c] = to]
    BY <1>1 DEF D!SendRequest, D!ClientGo
  <2>3. /\ cl' \in [Clients -> {"send", "alarm", "recv", "blocked", "stop", "done"}]
        /\ cl'[c] = to /\ \A d \in Clients \ {c} : cl'[d] = cl[d]
    BY <1>t, <2>2
  <2> QED
    BY <1>t, <1>s, <1>a, <2>1, <2>2, <2>3
<1>2. CASE D!Receive(c)
  <2>1. /\ cl[c] = "blocked" /\ cl' = [cl EXCEPT ![c] = "stop"] /\ alarm[c] # "rung"
        /\ UNCHANGED <<alarm, early>>
    BY <1>2 DEF D!Receive, D!ClientGo
  <2>2. PICK m \in net : /\ m.kind = "answer" /\ m.c = c /\ net' \subseteq net
                         /\ printed' = [printed EXCEPT ![c] = m.line]
    BY <1>2 DEF D!Receive, D!Taken
  <2>3. /\ cl' \in [Clients -> {"send", "alarm", "recv", "blocked", "stop", "done"}]
        /\ cl'[c] = "stop" /\ \A d \in Clients \ {c} : cl'[d] = cl[d]
    BY <1>t, <2>1
  <2>4. /\ printed' \in [Clients -> 0..(Lines + 1)]
        /\ \A d \in Clients \ {c} : printed'[d] = printed[d]
    BY <1>t, <2>2
  <2> QED
    BY <1>t, <1>s, <1>a, <2>1, <2>2, <2>3, <2>4
<1>3. CASE D!Ring(c)
  <2>1. /\ alarm[c] = "set" /\ UNCHANGED <<cl, printed, net>> /\ early' \subseteq Clients
    BY <1>3, <1>t DEF D!Ring
  <2>2. alarm' = [alarm EXCEPT ![c] = IF cl[c] = "blocked" THEN "rung" ELSE "off"]
    BY <1>3 DEF D!Ring, D!AlarmTo
  <2>3. /\ alarm' \in [Clients -> {"off", "set", "rung"}]
        /\ alarm'[c] = (IF cl[c] = "blocked" THEN "rung" ELSE "off")
        /\ \A d \in Clients \ {c} : alarm'[d] = alarm[d]
    BY <1>t, <2>2
  <2> QED
    BY <1>t, <1>s, <1>a, <2>1, <2>3
<1>4. CASE D!SetAlarm(c) \/ D!Block(c) \/ D!Interrupted(c) \/ D!RecvFails(c) \/ D!StopAlarm(c)
  <2>1. UNCHANGED <<early, printed, net>>
    BY <1>4 DEF D!SetAlarm, D!Block, D!Interrupted, D!RecvFails, D!StopAlarm
  <2>2. PICK to \in {"recv", "blocked", "done"}, a \in {"off", "set"} :
          /\ cl' = [cl EXCEPT ![c] = to]
          /\ alarm' = [alarm EXCEPT ![c] = a] \/ (alarm' = alarm /\ cl[c] = "recv")
          /\ to = "done" => alarm' = [alarm EXCEPT ![c] = "off"]
    <3> USE DEF D!ClientGo, D!AlarmTo
    <3>1. CASE D!SetAlarm(c)
      BY <3>1 DEF D!SetAlarm
    <3>2. CASE D!Block(c)
      BY <3>2 DEF D!Block
    <3>3. CASE D!Interrupted(c) \/ D!RecvFails(c) \/ D!StopAlarm(c)
      BY <3>3 DEF D!Interrupted, D!RecvFails, D!StopAlarm
    <3> QED
      BY <1>4, <3>1, <3>2, <3>3
  <2>3. /\ cl' \in [Clients -> {"send", "alarm", "recv", "blocked", "stop", "done"}]
        /\ cl'[c] = to /\ \A d \in Clients \ {c} : cl'[d] = cl[d]
    BY <1>t, <2>2
  <2>4. /\ alarm' \in [Clients -> {"off", "set", "rung"}]
        /\ alarm'[c] = "rung" => alarm[c] = "rung" /\ cl[c] = "recv"
        /\ to = "done" => alarm'[c] = "off"
        /\ \A d \in Clients \ {c} : alarm'[d] = alarm[d]
    BY <1>t, <2>2
  <2>5. alarm'[c] = "rung" => cl'[c] = "blocked"
    BY <1>s, <2>2, <2>4
  <2> QED
    BY <1>t, <1>s, <1>a, <2>1, <2>2, <2>3, <2>4, <2>5
<1> QED
  BY <1>1, <1>2, <1>3, <1>4 DEF D!Client

\* A step of the server, or the loss of a datagram: nothing that the clients have.
LEMMA DatagramServer ==
  ASSUME DatagramInv, DatagramCount,
         D!Start \/ D!Server \/ D!ServeFails \/ \E m \in net : D!Lose(m)
  PROVE  DatagramInv' /\ DatagramCount'
<1> USE NetworkAssumption
<1>0. UNCHANGED <<cl, alarm, early, printed>>
  BY DEF D!Start, D!Server, D!TakeRequest, D!PopenAndSend, D!PopenFails, D!Finish, D!ServerEnd,
     D!ServeFails, D!Lose, D!clVars
<1>t. /\ srv \in {"down", "recv", "popen"} /\ peer \in Clients \cup {None}
      /\ line \in 0..Lines /\ starts \in 0..MaxRestarts /\ starts \in Nat
      /\ \A m \in net : m.c \in Clients /\ m.line \in 0..(Lines + 1)
      /\ \A m \in net : m.kind \in {"request", "answer"} /\ cl[m.c] # "send"
      /\ (peer = None) <=> (srv # "popen")
      /\ peer # None => cl[peer] # "send"
  BY DEF DatagramInv, D!TypeOK
<1>a. ASSUME srv' \in {"down", "recv", "popen"}, peer' \in Clients \cup {None}, line' \in 0..Lines,
             starts' \in 0..MaxRestarts, (peer' = None) <=> (srv' # "popen"),
             peer' # None => cl[peer'] # "send",
             \A m \in net' : \/ m \in net
                             \/ /\ m.kind = "answer" /\ m.c = peer /\ m.line \in 0..(Lines + 1)
                                /\ peer # None
      PROVE  DatagramInv' /\ (UNCHANGED peer \/ peer' = None => DServed' \subseteq DServed)
  <2>1. D!TypeOK'
    BY <1>0, <1>t, <1>a DEF DatagramInv, D!TypeOK
  <2>2. DatagramInv'
    BY <1>0, <1>t, <1>a, <2>1 DEF DatagramInv
  <2>3. UNCHANGED peer \/ peer' = None => DServed' \subseteq DServed
    BY <1>0, <1>a DEF DServed
  <2> QED
    BY <2>2, <2>3
<1>c. IsFiniteSet(DServed) /\ Cardinality(DServed) \in Nat
      /\ Cardinality(DServed) + (IF srv = "recv" THEN 1 ELSE 0) <= starts
  BY FS_CardinalityType DEF DatagramCount
<1>1. CASE D!Start
  <2>1. /\ srv = "down" /\ srv' = "recv" /\ starts < MaxRestarts /\ starts' = starts + 1
        /\ UNCHANGED <<net, peer, line>>
    BY <1>1 DEF D!Start, D!ServerGo
  <2>2. starts' \in 0..MaxRestarts
    BY <1>t, <2>1
  <2>3. DatagramInv' /\ DServed' \subseteq DServed
    BY <1>t, <1>a, <2>1, <2>2
  <2>4. IsFiniteSet(DServed') /\ Cardinality(DServed') <= Cardinality(DServed)
        /\ Cardinality(DServed') \in Nat
    BY <1>c, <2>3, NoneMore
  <2> QED
    BY <1>c, <1>t, <2>1, <2>3, <2>4 DEF DatagramCount
<1>2. CASE D!TakeRequest
  <2>1. srv = "recv" /\ srv' = "popen" /\ UNCHANGED <<line, starts>>
    BY <1>2 DEF D!TakeRequest, D!ServerGo
  <2>2. PICK m \in net : peer' = m.c /\ net' \subseteq net
    BY <1>2 DEF D!TakeRequest, D!Taken
  <2>3. peer' \in Clients /\ peer' # None
    BY <1>t, <2>2
  <2>4. DatagramInv'
    BY <1>t, <1>a, <2>1, <2>2, <2>3
  <2>5. DServed' \subseteq DServed \cup {m.c}
    BY <1>0, <2>2, <2>3 DEF DServed
  <2>6. IsFiniteSet(DServed') /\ Cardinality(DServed') <= Cardinality(DServed) + 1
        /\ Cardinality(DServed') \in Nat
    BY <1>c, <2>5, OneMore
  <2> QED
    BY <1>c, <1>t, <2>1, <2>4, <2>6 DEF DatagramCount
<1>3. CASE D!ServeFails
  <2>1. srv = "recv" /\ srv' = "down" /\ UNCHANGED <<net, peer, line, starts>>
    BY <1>3 DEF D!ServeFails, D!ServerGo
  <2>2. DatagramInv' /\ DServed' \subseteq DServed
    BY <1>t, <1>a, <2>1
  <2>3. IsFiniteSet(DServed') /\ Cardinality(DServed') <= Cardinality(DServed)
        /\ Cardinality(DServed') \in Nat
    BY <1>c, <2>2, NoneMore
  <2> QED
    BY <1>c, <1>t, <2>1, <2>2, <2>3 DEF DatagramCount
<1>4. CASE D!PopenAndSend
  <2>1. /\ srv = "popen" /\ srv' = "popen" /\ line < Lines /\ line' = line + 1
        /\ net' = net \cup {D!Answer(peer, line + 1)} /\ UNCHANGED <<peer, starts>>
    BY <1>4 DEF D!PopenAndSend, D!ServerGo
  <2>2. line + 1 \in 0..Lines /\ line + 1 \in 0..(Lines + 1)
    BY <1>t, <2>1
  <2>3. DatagramInv' /\ DServed' \subseteq DServed
    BY <1>t, <1>a, <2>1, <2>2 DEF D!Answer
  <2> QED
    BY <2>1, <2>3, DatagramKeeps
<1>5. CASE D!PopenFails \/ D!Finish
  <2>1. /\ srv = "popen" /\ srv' = "down" /\ peer' = None /\ line' = 0 /\ starts' = starts
        /\ net' = net \/ net' = net \cup {D!Answer(peer, Lines + 1)}
    BY <1>5 DEF D!PopenFails, D!Finish, D!ServerEnd
  <2>2. Lines + 1 \in 0..(Lines + 1) /\ 0 \in 0..Lines
    OBVIOUS
  <2>3. DatagramInv' /\ DServed' \subseteq DServed
    BY <1>t, <1>a, <2>1, <2>2 DEF D!Answer
  <2>4. IsFiniteSet(DServed') /\ Cardinality(DServed') <= Cardinality(DServed)
        /\ Cardinality(DServed') \in Nat
    BY <1>c, <2>3, NoneMore
  <2> QED
    BY <1>c, <1>t, <2>1, <2>3, <2>4 DEF DatagramCount
<1>6. CASE \E m \in net : D!Lose(m)
  <2>1. UNCHANGED <<srv, peer, line, starts>> /\ net' \subseteq net
    BY <1>6 DEF D!Lose, D!srvVars
  <2>2. DatagramInv' /\ DServed' \subseteq DServed
    BY <1>t, <1>a, <2>1
  <2> QED
    BY <2>1, <2>2, DatagramKeeps
<1> QED
  BY <1>1, <1>2, <1>3, <1>4, <1>5, <1>6 DEF D!Server

\* Every step of 14-connless keeps its invariant.
LEMMA DatagramStep == DatagramInv /\ DatagramCount /\ D!Next => DatagramInv' /\ DatagramCount'
BY DatagramClient, DatagramServer DEF D!Next

\* The invariant of 14-connless says what the run checks.
LEMMA DatagramListed ==
  DatagramInv /\ DatagramCount =>
    D!TypeOK /\ D!AnsweredRequesters /\ D!OneClientPerStart /\ D!NoStrayAlarm
<1> SUFFICES ASSUME DatagramInv, DatagramCount
             PROVE  D!TypeOK /\ D!AnsweredRequesters /\ D!OneClientPerStart /\ D!NoStrayAlarm
  OBVIOUS
<1>1. \A X : D!Cardinality(X) = Cardinality(X)
  BY DEF D!Cardinality, Cardinality
<1> DEFINE Printed == {c \in Clients : printed[c] # 0}
<1>2. Printed \subseteq DServed
  BY DEF DServed
<1>3. Cardinality(Printed) <= Cardinality(DServed) /\ Cardinality(DServed) \in Nat
      /\ Cardinality(Printed) \in Nat
  BY <1>2, NoneMore DEF DatagramCount
<1>4. starts \in Nat
  BY NetworkAssumption DEF DatagramInv, D!TypeOK
<1>5. Cardinality(Printed) <= starts
  <2> HIDE DEF Printed
  <2> QED
    BY <1>3, <1>4 DEF DatagramCount
<1>6. D!OneClientPerStart
  BY <1>1, <1>5 DEF D!OneClientPerStart
<1> QED
  BY <1>6 DEF DatagramInv, D!AnsweredRequesters, D!NoStrayAlarm

------------------------------------------------------------------------------
(* 16-oobdata *)

\* What the client sends.
Toks == {"abc", "e", "123", "E"}
\* How many sends the kernel of the server has received; the end counts as no send.
Received == IF eof THEN sent ELSE IF cli = "done" THEN sent + 1 - Len(wire) ELSE sent - Len(wire)
\* recv_data() has a piece in its buffer that it has not written.
Held == oob \in {"test", "write"} /\ n = 1
\* More than the types that the run checks: the queues hold what was sent.
OobTypes ==
  /\ cli \in {"connect", "send", "done", "failed"} /\ tries \in 0..O!MaxTries
  /\ cli = "connect" => tries < O!MaxTries
  /\ sent \in 0..4 /\ missed \subseteq O!Urgent
  /\ oob \in {"listen", "accept", "setown", "recv", "interrupted", "test", "write", "closed",
               "failed"}
  /\ handler \in {"none", "urg", "setsockopt"} /\ n \in {-1, 0, 1} /\ status \in {0, 1}
  /\ wire \in Seq(Toks \cup {"FIN"}) /\ stream \in Seq(Toks) /\ out \in Seq(Toks)
  /\ urgent \in Seq(O!Urgent) /\ Len(urgent) = status
  /\ mark \in [byte : O!Urgent \cup {"none"}, read : BOOLEAN]
\* SIGURG is pending, or in its handler, only with an unread urgent byte until the
\* handler has read one; then SO_OOBINLINE is set before main() goes on.  An unread
\* one is in the stream; one that nobody was told of came before F_SETOWN.
OobFlags ==
  /\ (pending \/ handler = "urg") /\ status = 0 => ~mark.read
  /\ ~mark.read => mark.byte \in O!Urgent /\ O!Seen(mark.byte, stream)
  /\ inline => status = 1
  /\ handler = "setsockopt" => status = 1
  /\ status = 1 /\ handler # "setsockopt" => inline
  /\ mark.read /\ mark.byte # "none" => O!Seen(mark.byte, urgent)
  /\ status = 0 /\ ~mark.read /\ ~pending /\ handler # "urg" => mark.byte \in missed
\* errno is EINTR only between a recv() that was interrupted and the write() after it.
OobSteps ==
  /\ errno \in {"0", "EINTR", "EFAULT"}
  /\ errno = "EINTR" => oob \in {"test", "write"} /\ n = -1
  /\ oob = "test" /\ n = -1 => errno = "EINTR"
  /\ oob = "write" => n # 0
  /\ oob = "test" /\ n = 0 => stream = <<>> /\ eof
  /\ oob = "closed" => stream = <<>> /\ eof /\ n = 0
\* The wire holds the sends after the last that was received, and then the end.
OobWire ==
  /\ eof => wire = <<>> /\ cli = "done"
  /\ cli \in {"connect", "failed"} => sent = 0 /\ wire = <<>>
  /\ Received \in 0..sent
  /\ \A i \in DOMAIN wire : wire[i] = IF Received + i <= sent THEN O!Sends[Received + i] ELSE "FIN"
\* Written, in hand and in the stream: the sends are in order, each once.  The i-th
\* piece of the stream is the i-th send or a later one.
OobOrder ==
  /\ \A i \in DOMAIN out : out[i] \in Toks /\ O!Turn(out[i]) <= Received
  /\ \A i, j \in DOMAIN out : i < j => O!Turn(out[i]) < O!Turn(out[j])
  /\ Held => /\ buf \in Toks /\ O!Turn(buf) <= Received
             /\ \A i \in DOMAIN out : O!Turn(out[i]) < O!Turn(buf)
  /\ \A i \in DOMAIN stream : /\ stream[i] \in Toks /\ O!Turn(stream[i]) \in i..Received
                              /\ Held => O!Turn(buf) < O!Turn(stream[i])
                              /\ \A j \in DOMAIN out : O!Turn(out[j]) < O!Turn(stream[i])
  /\ \A i, j \in DOMAIN stream : i < j => O!Turn(stream[i]) < O!Turn(stream[j])
\* The second urgent byte was received, and the handler has read it or is going to.
LastTaken ==
  /\ Received = 4
  /\ \/ O!Seen("E", urgent)
     \/ mark.byte = "E" /\ ~mark.read /\ status = 0 /\ (pending \/ handler = "urg")
\* An urgent byte that is nowhere on this way was read by the handler, or came before
\* F_SETOWN, or was the first and discarded for the second.
Noticed(t) == t \in O!Urgent /\ (O!Seen(t, urgent) \/ t \in missed \/ (t = "e" /\ LastTaken))
\* What was received is somewhere on this way, or is such an urgent byte.
OobKept ==
  \A k \in 1..Received : LET t == O!Sends[k] IN
    O!Seen(t, out) \/ O!Seen(t, stream) \/ (Held /\ buf = t) \/ Noticed(t)
OobInv == OobTypes /\ OobFlags /\ OobSteps /\ OobWire /\ OobOrder /\ OobKept

\* The four sends are different, so that each has its turn.
LEMMA Turns ==
  /\ Len(O!Sends) = 4 /\ DOMAIN O!Sends = 1..4 /\ O!Urgent \subseteq Toks
  /\ "FIN" \notin Toks /\ "none" \notin Toks
  /\ \A k \in 1..4 : O!Sends[k] \in Toks /\ O!Turn(O!Sends[k]) = k
  /\ \A t \in Toks : O!Turn(t) \in 1..4 /\ O!Sends[O!Turn(t)] = t
  /\ O!Turn("e") = 2 /\ O!Turn("E") = 4
<1>1. /\ O!Sends = <<"abc", "e", "123", "E">> /\ Len(O!Sends) = 4 /\ DOMAIN O!Sends = 1..4
      /\ O!Sends[1] = "abc" /\ O!Sends[2] = "e" /\ O!Sends[3] = "123" /\ O!Sends[4] = "E"
  BY DEF O!Sends
<1>2. \A k \in 1..4 : k = 1 \/ k = 2 \/ k = 3 \/ k = 4
  OBVIOUS
<1>3. \A i, j \in 1..4 : O!Sends[i] = O!Sends[j] => i = j
  BY <1>1, <1>2
<1>4. ASSUME NEW k \in 1..4 PROVE O!Turn(O!Sends[k]) = k
  <2>1. O!Turn(O!Sends[k]) = CHOOSE j \in DOMAIN O!Sends : O!Sends[j] = O!Sends[k]
    BY DEF O!Turn
  <2>2. \A j \in DOMAIN O!Sends : O!Sends[j] = O!Sends[k] <=> j = k
    BY <1>1, <1>3
  <2> HIDE DEF O!Sends
  <2> QED
    BY <1>1, <2>1, <2>2
<1>5. \A t \in Toks : \E k \in 1..4 : O!Sends[k] = t
  BY <1>1 DEF Toks
<1>6. \A k \in 1..4 : O!Sends[k] \in Toks
  BY <1>1, <1>2 DEF Toks
<1>7. \A t \in Toks : O!Turn(t) \in 1..4 /\ O!Sends[O!Turn(t)] = t
  BY <1>4, <1>5
<1>8. O!Urgent \subseteq Toks /\ "FIN" \notin Toks /\ "none" \notin Toks
  BY DEF O!Urgent, Toks
<1>9. O!Turn("e") = 2 /\ O!Turn("E") = 4
  <2>1. O!Sends[2] = "e" /\ O!Sends[4] = "E" /\ 2 \in 1..4 /\ 4 \in 1..4
    BY <1>1
  <2> QED
    BY <2>1, <1>4
<1> QED
  BY <1>1, <1>4, <1>6, <1>7, <1>8, <1>9

\* 16-oobdata begins with nothing sent.
LEMMA OobInitial == O!OobInit => OobInv
<1> SUFFICES ASSUME O!OobInit PROVE OobInv
  OBVIOUS
<1> USE DEF O!OobInit, O!NoMark, Toks
<1>1. OobTypes
  BY DEF OobTypes, O!MaxTries, O!Urgent
<1>2. OobFlags
  BY DEF OobFlags
<1>3. OobSteps
  BY DEF OobSteps
<1>4. Received = 0 /\ sent = 0 /\ wire = <<>>
  <2>1. ~eof /\ cli # "done" /\ sent = 0 /\ wire = <<>> /\ Len(wire) = 0
    OBVIOUS
  <2> HIDE DEF O!OobInit
  <2>2. Received = sent - Len(wire)
    BY <2>1 DEF Received
  <2> HIDE DEF Received
  <2> QED
    BY <2>1, <2>2
<1>5. OobWire
  BY <1>4 DEF OobWire
<1>6. OobOrder
  BY DEF OobOrder, Held
<1>7. OobKept
  BY <1>4 DEF OobKept
<1> QED
  BY <1>1, <1>2, <1>3, <1>5, <1>6, <1>7 DEF OobInv

\* What is received is no more than was sent, and the stream no longer than that.
LEMMA StreamShort ==
  ASSUME OobInv
  PROVE  /\ Received \in 0..4 /\ Received <= sent /\ Len(stream) \in Nat
         /\ Len(stream) <= Received
<1>1. Received \in 0..sent /\ sent \in 0..4 /\ stream \in Seq(Toks)
  BY DEF OobInv, OobWire, OobTypes
<1>2. Received \in 0..4 /\ Received <= sent
  BY <1>1
<1>3. Len(stream) # 0 => Len(stream) \in DOMAIN stream
  BY <1>1
<1>4. Len(stream) # 0 => O!Turn(stream[Len(stream)]) \in Len(stream)..Received
  BY <1>3 DEF OobInv, OobOrder
<1>5. Len(stream) \in Nat
  BY <1>1
<1> HIDE DEF Received
<1>6. Len(stream) <= Received
  <2>1. CASE Len(stream) = 0
    BY <1>2, <2>1
  <2>2. CASE Len(stream) # 0
    BY <1>2, <1>4, <1>5, <2>2
  <2> QED
    BY <2>1, <2>2
<1> QED
  BY <1>2, <1>5, <1>6

\* A step of oobdata.c changes nothing that is received.
LEMMA OobClient ==
  ASSUME OobInv, UNCHANGED <<stream, mark, eof, pending, missed, owner, oob, handler, n, errno, buf,
                             out, status, inline, urgent>>,
         OobTypes', OobWire', Received' = Received
  PROVE  OobInv'
<1>1. OobFlags' /\ OobSteps'
  <2>1. OobFlags'
    BY DEF OobInv, OobFlags, O!Seen
  <2>2. OobSteps'
    BY DEF OobInv, OobSteps
  <2> QED
    BY <2>1, <2>2
<1> HIDE DEF Received
<1>2. OobOrder' /\ OobKept'
  <2>1. OobOrder'
    BY DEF OobInv, OobOrder, Held
  <2>2. OobKept'
    BY DEF OobInv, OobKept, Held, O!Seen, Noticed, LastTaken
  <2> QED
    BY <2>1, <2>2
<1> QED
  BY <1>1, <1>2 DEF OobInv

\* The steps of oobdata.c.
LEMMA OobClients ==
  ASSUME OobInv, O!OobConnect \/ O!Send \/ O!Close
  PROVE  OobInv'
<1>t. OobTypes /\ OobWire
  BY DEF OobInv
<1>u. UNCHANGED <<stream, mark, eof, pending, missed, owner, oob, handler, n, errno, buf,
                  out, status, inline, urgent>>
  BY DEF O!OobConnect, O!Send, O!Close, O!kernel, O!work, O!taken
<1>w. /\ sent \in 0..4 /\ wire \in Seq(Toks \cup {"FIN"}) /\ Len(wire) \in Nat
      /\ tries \in 0..O!MaxTries /\ O!MaxTries = 4
  BY <1>t DEF OobTypes, O!MaxTries
<1>1. CASE O!OobConnect
  <2>1. /\ UNCHANGED <<sent, wire>> /\ cli = "connect" /\ cli' \in {"send", "connect", "failed"}
        /\ sent = 0 /\ wire = <<>> /\ ~eof
    BY <1>1, <1>t DEF O!OobConnect, O!kernel, OobWire
  <2>2. Received' = Received
    BY <1>u, <2>1 DEF Received
  <2>3. tries' \in 0..4 /\ (cli' = "connect" => tries' < 4)
    <3>1. tries < 4
      BY <1>t, <2>1 DEF OobTypes, O!MaxTries
    <3> QED
      BY <1>1, <1>w, <3>1 DEF O!OobConnect
  <2>4. OobTypes'
    BY <1>t, <1>u, <1>w, <2>1, <2>3 DEF OobTypes, O!MaxTries
  <2>5. OobWire'
    <3> HIDE DEF Received
    <3> QED
      BY <1>t, <1>u, <2>1, <2>2 DEF OobWire
  <2> QED
    BY <1>u, <2>2, <2>4, <2>5, OobClient
<1>2. CASE O!Send
  <2>1. /\ cli = "send" /\ sent < 4 /\ sent' = sent + 1 /\ wire' = Append(wire, O!Sends[sent'])
        /\ UNCHANGED <<cli, tries>> /\ ~eof
    BY <1>2, <1>t, Turns DEF O!Send, OobWire
  <2>2. sent' \in 1..4 /\ O!Sends[sent'] \in Toks
    BY <1>w, <2>1, Turns
  <2>3. /\ Len(wire') = Len(wire) + 1 /\ wire' \in Seq(Toks \cup {"FIN"})
        /\ DOMAIN wire' = 1..(Len(wire) + 1)
        /\ \A i \in DOMAIN wire' : wire'[i] = IF i \in DOMAIN wire THEN wire[i] ELSE O!Sends[sent']
    BY <1>w, <2>1, <2>2
  <2>4. Received' = Received /\ Received = sent - Len(wire)
    BY <1>u, <1>w, <2>1, <2>3 DEF Received
  <2>5. OobTypes'
    <3>1. sent' \in 0..4
      BY <2>2
    <3> QED
      BY <1>t, <1>u, <2>1, <2>3, <3>1 DEF OobTypes
  <2>6. OobWire'
    <3> HIDE DEF Received
    <3>1. Received' \in 0..sent'
      BY <1>t, <1>w, <2>1, <2>4 DEF OobWire
    <3>2. ASSUME NEW i \in DOMAIN wire'
          PROVE  wire'[i] = IF Received + i <= sent' THEN O!Sends[Received + i] ELSE "FIN"
      <4>1. CASE i \in DOMAIN wire
        <5>1. i \in 1..Len(wire) /\ Received + i <= sent /\ Received + i <= sent'
          BY <1>w, <2>1, <2>4, <4>1
        <5> QED
          BY <1>t, <2>3, <4>1, <5>1 DEF OobWire
      <4>2. CASE i \notin DOMAIN wire
        <5>1. i = Len(wire) + 1 /\ Received + i = sent'
          BY <1>w, <2>1, <2>3, <2>4, <4>2
        <5> QED
          BY <1>w, <2>1, <2>3, <4>2, <5>1
      <4> QED
        BY <4>1, <4>2
    <3> QED
      BY <1>t, <1>u, <2>1, <2>4, <3>1, <3>2 DEF OobWire
  <2> QED
    BY <1>u, <2>4, <2>5, <2>6, OobClient
<1>3. CASE O!Close
  <2>1. /\ cli = "send" /\ cli' = "done" /\ wire' = Append(wire, "FIN")
        /\ UNCHANGED <<tries, sent>> /\ ~eof
    BY <1>3, <1>t DEF O!Close, OobWire
  <2>3. /\ Len(wire') = Len(wire) + 1 /\ wire' \in Seq(Toks \cup {"FIN"})
        /\ DOMAIN wire' = 1..(Len(wire) + 1)
        /\ \A i \in DOMAIN wire' : wire'[i] = IF i \in DOMAIN wire THEN wire[i] ELSE "FIN"
    BY <1>w, <2>1
  <2>4. Received' = Received /\ Received = sent - Len(wire)
    BY <1>u, <1>w, <2>1, <2>3 DEF Received
  <2>5. OobTypes'
    BY <1>t, <1>u, <2>1, <2>3 DEF OobTypes
  <2>6. OobWire'
    <3> HIDE DEF Received
    <3>2. ASSUME NEW i \in DOMAIN wire'
          PROVE  wire'[i] = IF Received + i <= sent THEN O!Sends[Received + i] ELSE "FIN"
      <4>1. CASE i \in DOMAIN wire
        BY <1>t, <2>3, <4>1 DEF OobWire
      <4>2. CASE i \notin DOMAIN wire
        <5>1. i = Len(wire) + 1 /\ ~(Received + i <= sent)
          BY <1>w, <2>1, <2>3, <2>4, <4>2
        <5> QED
          BY <2>3, <4>2, <5>1
      <4> QED
        BY <4>1, <4>2
    <3> QED
      BY <1>t, <1>u, <2>1, <2>4, <3>2 DEF OobWire
  <2> QED
    BY <1>u, <2>4, <2>5, <2>6, OobClient
<1> QED
  BY <1>1, <1>2, <1>3

\* The kernel of the server receives the next piece.
LEMMA OobReceives ==
  ASSUME OobInv, O!Receive
  PROVE  OobInv'
<1> DEFINE t == Head(wire)
<1>t. OobTypes /\ OobWire /\ OobFlags /\ OobSteps /\ OobOrder /\ OobKept
  BY DEF OobInv
<1>u. /\ UNCHANGED <<cli, tries, sent, owner, oob, handler, n, errno, buf, out, status, inline, urgent>>
      /\ wire # <<>> /\ wire' = Tail(wire)
  BY DEF O!Receive, O!client, O!work, O!taken
<1>w. /\ sent \in 0..4 /\ wire \in Seq(Toks \cup {"FIN"}) /\ Len(wire) \in Nat /\ Len(wire) > 0
      /\ t = wire[1] /\ 1 \in DOMAIN wire /\ t \in Toks \cup {"FIN"} /\ ~eof
      /\ cli \in {"send", "done"}
  BY <1>t, <1>u DEF OobTypes, OobWire
<1>x. /\ wire' \in Seq(Toks \cup {"FIN"}) /\ Len(wire') = Len(wire) - 1
      /\ DOMAIN wire' = 1..(Len(wire) - 1)
      /\ \A i \in DOMAIN wire' : i + 1 \in DOMAIN wire /\ wire'[i] = wire[i + 1]
  BY <1>u, <1>w
<1>r. /\ cli = "done" => Received = sent + 1 - Len(wire)
      /\ cli # "done" => Received = sent - Len(wire)
      /\ Received \in 0..4 /\ Received <= sent
  BY <1>w, StreamShort DEF Received
<1>f. t = (IF Received + 1 <= sent THEN O!Sends[Received + 1] ELSE "FIN")
  BY <1>t, <1>w DEF OobWire
<1>1. CASE t = "FIN"
  <2>1. eof' /\ UNCHANGED <<stream, mark, pending, missed>>
    BY <1>1 DEF O!Receive, O!Urgent
  <2>2. Received = sent
    <3>1. Received + 1 <= sent => Received + 1 \in 1..4
      BY <1>w, <1>r
    <3>2. ~(Received + 1 <= sent)
      BY <1>1, <1>f, <3>1, Turns
    <3> QED
      BY <1>w, <1>r, <3>2
  <2>3. cli = "done" /\ Len(wire) = 1 /\ wire' = <<>>
    <3> HIDE DEF Received, t
    <3>1. cli = "done" /\ Len(wire) = 1
      <4>1. sent \in Nat /\ Len(wire) \in Nat /\ Len(wire) > 0
        BY <1>w
      <4>2. cli = "done"
        BY <1>r, <2>2, <4>1
      <4>3. Received + Len(wire) = sent + 1
        BY <1>r, <4>1, <4>2
      <4>4. sent + Len(wire) = sent + 1
        BY <2>2, <4>3
      <4>5. \A a, b \in Nat : a + b = a + 1 => b = 1
        OBVIOUS
      <4>6. Len(wire) = 1
        BY <4>1, <4>4, <4>5
      <4> QED
        BY <4>2, <4>6
    <3> QED
      BY <1>u, <1>w, <3>1
  <2>4. Received' = Received
    BY <1>u, <2>1, <2>2 DEF Received
  <2> HIDE DEF Received, t
  <2>5. OobTypes'
    BY <1>t, <1>u, <1>x, <2>1 DEF OobTypes
  <2>6. OobFlags'
    BY <1>t, <1>u, <2>1 DEF OobFlags, O!Seen
  <2>7. OobSteps'
    BY <1>t, <1>u, <2>1 DEF OobSteps
  <2>8. OobWire'
    BY <1>t, <1>u, <2>1, <2>3, <2>4 DEF OobWire
  <2>9. OobOrder'
    BY <1>t, <1>u, <2>1, <2>4 DEF OobOrder, Held
  <2>10. OobKept'
    BY <1>t, <1>u, <2>1, <2>4 DEF OobKept, Held, O!Seen, Noticed, LastTaken
  <2> QED
    BY <2>5, <2>6, <2>7, <2>8, <2>9, <2>10 DEF OobInv
<1>2. CASE t # "FIN"
  <2>1. /\ Received + 1 <= sent /\ t = O!Sends[Received + 1] /\ t \in Toks
        /\ Received + 1 \in 1..4 /\ O!Turn(t) = Received + 1
    <3>1. Received + 1 <= sent /\ t = O!Sends[Received + 1]
      BY <1>2, <1>f
    <3>2. Received + 1 \in 1..4
      BY <1>w, <1>r, <3>1
    <3> QED
      BY <1>2, <1>w, <3>1, <3>2, Turns
  <2>2. ~eof'
    BY <1>2, <1>w DEF O!Receive
  <2>3. Received' = Received + 1
    <3>1. CASE cli = "done"
      <4>1. Received' = sent + 1 - Len(wire')
        BY <1>u, <2>2, <3>1 DEF Received
      <4> HIDE DEF Received
      <4> QED
        BY <1>w, <1>x, <1>r, <3>1, <4>1
    <3>2. CASE cli # "done"
      <4>1. Received' = sent - Len(wire')
        BY <1>u, <2>2, <3>2 DEF Received
      <4> HIDE DEF Received
      <4> QED
        BY <1>w, <1>x, <1>r, <3>2, <4>1
    <3> QED
      BY <3>1, <3>2
  <2> DEFINE base == IF t \in O!Urgent THEN O!WithoutMarked ELSE stream
  <2>4. stream' = Append(base, t)
    BY <1>2 DEF O!Receive
  <2>5. /\ t \in O!Urgent => /\ mark' = [byte |-> t, read |-> FALSE]
                            /\ missed' = (IF owner THEN missed ELSE missed \cup {t})
        /\ t \notin O!Urgent => UNCHANGED <<mark, missed>>
    BY <1>2 DEF O!Receive
  <2>6. /\ t \in O!Urgent => (pending' <=> pending \/ owner)
        /\ t \notin O!Urgent => (pending' <=> pending)
    BY <1>2 DEF O!Receive
  <2>7. \/ base = stream
        \/ /\ stream # <<>> /\ base = Tail(stream) /\ Head(stream) = mark.byte
           /\ ~inline /\ t \in O!Urgent
    BY DEF O!WithoutMarked, O!AtMark
  <2> HIDE DEF base, Received, t
  <2>s. stream \in Seq(Toks) /\ Len(stream) \in Nat /\ Len(stream) <= Received
    BY <1>t, StreamShort DEF OobTypes
  <2>8. /\ base \in Seq(Toks) /\ Len(base) \in Nat /\ Len(base) <= Len(stream)
        /\ \E k \in {0, 1} : \A i \in DOMAIN base : i + k \in DOMAIN stream /\ base[i] = stream[i + k]
    <3>1. CASE base = stream
      BY <2>s, <3>1
    <3>2. CASE stream # <<>> /\ base = Tail(stream)
      <4>1. \A i \in DOMAIN base : i + 1 \in DOMAIN stream /\ base[i] = stream[i + 1]
        BY <2>s, <3>2
      <4> QED
        BY <2>s, <3>2, <4>1
    <3> QED
      BY <2>7, <3>1, <3>2
  <2>9. /\ stream' \in Seq(Toks) /\ DOMAIN stream' = 1..(Len(base) + 1) /\ DOMAIN base = 1..Len(base)
        /\ \A i \in DOMAIN base : i \in DOMAIN stream' /\ stream'[i] = base[i]
        /\ stream'[Len(base) + 1] = t
        /\ \A i \in DOMAIN stream' : i \in DOMAIN base \/ i = Len(base) + 1
    BY <2>1, <2>4, <2>8
  <2>10. \A x : O!Seen(x, stream) => \/ O!Seen(x, stream')
                                    \/ /\ x = mark.byte /\ ~inline /\ t \in O!Urgent
                                       /\ stream # <<>> /\ Head(stream) = x
    <3>1. CASE base = stream
      BY <2>9, <3>1 DEF O!Seen
    <3>2. CASE /\ stream # <<>> /\ base = Tail(stream) /\ Head(stream) = mark.byte
               /\ ~inline /\ t \in O!Urgent
      <4> SUFFICES ASSUME NEW x, NEW i \in DOMAIN stream, stream[i] = x, x # mark.byte
                   PROVE  O!Seen(x, stream')
        BY <3>2 DEF O!Seen
      <4>1. i - 1 \in DOMAIN base /\ base[i - 1] = x
        BY <2>s, <3>2
      <4> QED
        BY <2>9, <4>1 DEF O!Seen
    <3> QED
      BY <2>7, <3>1, <3>2
  <2>11. OobTypes'
    <3>1. mark' \in [byte : O!Urgent \cup {"none"}, read : BOOLEAN]
      <4>1. CASE t \in O!Urgent
        <5>1. mark' = [byte |-> t, read |-> FALSE]
          BY <2>5, <4>1
        <5> QED
          BY <4>1, <5>1
      <4>2. CASE t \notin O!Urgent
        BY <1>t, <2>5, <4>2 DEF OobTypes
      <4> QED
        BY <4>1, <4>2
    <3>2. missed' \subseteq O!Urgent
      BY <1>t, <2>5 DEF OobTypes
    <3> QED
      BY <1>t, <1>u, <1>x, <2>9, <3>1, <3>2 DEF OobTypes
  <2>12. OobFlags'
    <3>1. CASE t \in O!Urgent
      <4>1. mark'.byte = t /\ ~mark'.read
        BY <2>5, <3>1
      <4>2. status = 0 /\ ~pending' /\ handler # "urg" => mark'.byte \in missed'
        BY <2>5, <2>6, <3>1, <4>1
      <4>3. O!Seen(t, stream')
        BY <2>8, <2>9 DEF O!Seen
      <4> QED
        BY <1>t, <1>u, <3>1, <4>1, <4>2, <4>3 DEF OobFlags
    <3>2. CASE t \notin O!Urgent
      <4>1. UNCHANGED <<mark, missed>> /\ (pending' <=> pending)
        BY <2>5, <2>6, <3>2
      <4>2. ~mark.read => mark.byte \in O!Urgent /\ O!Seen(mark.byte, stream')
        BY <1>t, <2>10, <3>2 DEF OobFlags
      <4>3. \A x : O!Seen(x, urgent)' <=> O!Seen(x, urgent)
        BY <1>u DEF O!Seen
      <4> QED
        BY <1>t, <1>u, <4>1, <4>2, <4>3 DEF OobFlags
    <3> QED
      BY <3>1, <3>2
  <2>13. OobSteps'
    BY <1>t, <1>u, <1>w DEF OobSteps
  <2>14. OobWire'
    <3>1. Received' \in 0..sent
      BY <1>r, <2>1, <2>3
    <3>2. ASSUME NEW i \in DOMAIN wire'
          PROVE  wire'[i] = IF Received' + i <= sent THEN O!Sends[Received' + i] ELSE "FIN"
      <4>1. Received + (i + 1) = Received' + i
        BY <1>r, <1>x, <2>3
      <4> QED
        BY <1>t, <1>x, <4>1 DEF OobWire
    <3> QED
      BY <1>t, <1>u, <1>w, <2>2, <3>1, <3>2 DEF OobWire
  <2>15. OobOrder'
    <3>0. \A x \in Toks : O!Turn(x) \in 1..4
      BY Turns
    <3>1. /\ \A i \in DOMAIN out : out[i] \in Toks /\ O!Turn(out[i]) <= Received
          /\ Held => buf \in Toks /\ O!Turn(buf) <= Received /\ \A i \in DOMAIN out : O!Turn(out[i]) < O!Turn(buf)
          /\ Held' <=> Held
      BY <1>t, <1>u DEF OobOrder, Held
    <3>2. ASSUME NEW i \in DOMAIN base
          PROVE  /\ base[i] \in Toks /\ O!Turn(base[i]) \in i..Received
                 /\ Held => O!Turn(buf) < O!Turn(base[i])
                 /\ \A j \in DOMAIN out : O!Turn(out[j]) < O!Turn(base[i])
      <4>1. PICK k \in {0, 1} : i + k \in DOMAIN stream /\ base[i] = stream[i + k]
        BY <2>8
      <4>2. /\ stream[i + k] \in Toks /\ O!Turn(stream[i + k]) \in (i + k)..Received
            /\ Held => O!Turn(buf) < O!Turn(stream[i + k])
            /\ \A j \in DOMAIN out : O!Turn(out[j]) < O!Turn(stream[i + k])
        BY <1>t, <4>1 DEF OobOrder
      <4>3. i \in Nat /\ O!Turn(base[i]) \in i..Received
        BY <1>r, <2>8, <4>1, <4>2
      <4> QED
        BY <4>1, <4>2, <4>3
    <3>3. ASSUME NEW i \in DOMAIN base, NEW j \in DOMAIN base, i < j
          PROVE  O!Turn(base[i]) < O!Turn(base[j])
      <4>1. PICK k \in {0, 1} : \A l \in DOMAIN base : l + k \in DOMAIN stream /\ base[l] = stream[l + k]
        BY <2>8
      <4>2. i + k < j + k
        BY <2>8, <3>3
      <4> QED
        BY <1>t, <4>1, <4>2 DEF OobOrder
    <3>4. \A i \in DOMAIN out : out[i] \in Toks /\ O!Turn(out[i]) <= Received' /\ O!Turn(out[i]) < O!Turn(t)
      BY <1>r, <2>1, <2>3, <3>0, <3>1
    <3>5. Held => O!Turn(buf) <= Received' /\ O!Turn(buf) < O!Turn(t)
      BY <1>r, <2>1, <2>3, <3>0, <3>1
    <3>6. ASSUME NEW i \in DOMAIN base
          PROVE  O!Turn(base[i]) \in i..Received' /\ O!Turn(base[i]) < O!Turn(t)
      <4>1. i \in Nat /\ O!Turn(base[i]) \in i..Received
        BY <2>8, <3>2
      <4> QED
        BY <1>r, <2>1, <2>3, <4>1
    <3>7. O!Turn(t) \in (Len(base) + 1)..Received'
      BY <1>r, <2>1, <2>3, <2>s, <2>8
    <3>8. ASSUME NEW i \in DOMAIN stream'
          PROVE  /\ stream'[i] \in Toks /\ O!Turn(stream'[i]) \in i..Received'
                 /\ Held => O!Turn(buf) < O!Turn(stream'[i])
                 /\ \A j \in DOMAIN out : O!Turn(out[j]) < O!Turn(stream'[i])
      <4>1. CASE i \in DOMAIN base
        BY <2>9, <3>2, <3>6, <4>1
      <4>2. CASE i = Len(base) + 1
        BY <2>1, <2>9, <3>4, <3>5, <3>7, <4>2
      <4> QED
        BY <2>9, <4>1, <4>2
    <3>9. ASSUME NEW i \in DOMAIN stream', NEW j \in DOMAIN stream', i < j
          PROVE  O!Turn(stream'[i]) < O!Turn(stream'[j])
      <4>1. i \in DOMAIN base
        BY <2>8, <2>9, <3>9
      <4>2. CASE j \in DOMAIN base
        BY <2>9, <3>3, <3>9, <4>1, <4>2
      <4>3. CASE j = Len(base) + 1
        BY <2>9, <3>6, <4>1, <4>3
      <4> QED
        BY <2>9, <4>2, <4>3
    <3>10. \A i, j \in DOMAIN out : i < j => O!Turn(out[i]) < O!Turn(out[j])
      BY <1>t DEF OobOrder
    <3> QED
      BY <1>u, <3>1, <3>4, <3>5, <3>8, <3>9, <3>10 DEF OobOrder
  <2>16. OobKept'
    <3> SUFFICES ASSUME NEW k \in 1..Received'
                 PROVE  LET x == O!Sends[k] IN
                        \/ O!Seen(x, out) \/ O!Seen(x, stream') \/ (Held' /\ buf' = x)
                        \/ Noticed(x)'
      BY <1>u DEF OobKept
    <3>1. CASE k = Received + 1
      BY <2>1, <2>8, <2>9, <3>1 DEF O!Seen
    <3>2. CASE k \in 1..Received
      <4> DEFINE x == O!Sends[k]
      <4>1. x \in Toks
        BY <1>r, <3>2, Turns
      <4>2. O!Seen(x, out) \/ O!Seen(x, stream) \/ (Held /\ buf = x) \/ Noticed(x)
        BY <1>t, <3>2 DEF OobKept
      <4>3. missed \subseteq missed' /\ (Held' <=> Held)
        BY <1>u, <2>5 DEF Held
      <4> HIDE DEF x
      \* A byte that is discarded for t: x is the first, t the second.
      <4>4. ASSUME x = mark.byte, ~inline, t \in O!Urgent, stream # <<>>, Head(stream) = x
            PROVE  Noticed(x)'
        <5>1. x \in O!Urgent
          BY <1>t, <4>1, <4>4, Turns DEF OobTypes
        <5>2. O!Turn(x) <= Received
          <6>1. 1 \in DOMAIN stream /\ stream[1] = x
            BY <2>s, <4>4
          <6>2. O!Turn(stream[1]) \in 1..Received
            BY <1>t, <6>1 DEF OobOrder
          <6> QED
            BY <6>1, <6>2
        <5>3. x \in {"e", "E"} /\ t \in {"e", "E"}
          BY <5>1, <4>4 DEF O!Urgent
        <5>4. x = "e" /\ t = "E" /\ Received' = 4
          <6>1. O!Turn("e") = 2 /\ O!Turn("E") = 4
            BY Turns
          <6>2. x # "E"
            BY <5>2, <6>1, <2>1, <1>r
          <6>3. t # "e"
            BY <5>2, <5>3, <6>1, <6>2, <2>1, <1>r
          <6> QED
            BY <5>3, <6>1, <6>2, <6>3, <2>1, <2>3
        <5>5. mark'.byte = "E" /\ ~mark'.read
          BY <2>5, <4>4, <5>4
        <5>6. \A y : O!Seen(y, urgent)' <=> O!Seen(y, urgent)
          BY <1>u DEF O!Seen
        <5>7. CASE mark.read
          <6>1. O!Seen(x, urgent)
            BY <1>t, <4>4, <5>7, <5>1 DEF OobFlags, O!Urgent
          <6> QED
            BY <5>1, <5>6, <6>1 DEF Noticed
        <5>8. CASE ~mark.read /\ status = 0
          <6>1. pending' \/ handler = "urg" \/ x \in missed'
            BY <1>t, <2>6, <4>3, <4>4, <5>8 DEF OobFlags
          <6>2. pending' \/ handler' = "urg" => LastTaken'
            BY <1>u, <5>4, <5>5, <5>8 DEF LastTaken
          <6> QED
            BY <1>u, <5>1, <5>4, <6>1, <6>2 DEF Noticed
        <5>9. CASE status = 1
          <6>0. urgent \in Seq(O!Urgent) /\ Len(urgent) = 1
            BY <1>t, <5>9 DEF OobTypes
          <6>1. urgent[1] \in O!Urgent /\ 1 \in DOMAIN urgent
            BY <6>0
          <6>2. O!Seen("e", urgent) \/ O!Seen("E", urgent)
            BY <6>1 DEF O!Seen, O!Urgent
          <6> QED
            BY <5>1, <5>4, <5>6, <6>2 DEF Noticed, LastTaken
        <5> QED
          BY <1>t, <5>7, <5>8, <5>9 DEF OobTypes
      <4>5. Noticed(x) => Noticed(x)'
        <5>1. ~LastTaken
          BY <2>1 DEF LastTaken
        <5>2. \A y : O!Seen(y, urgent)' <=> O!Seen(y, urgent)
          BY <1>u DEF O!Seen
        <5> QED
          BY <4>3, <5>1, <5>2 DEF Noticed
      <4>6. O!Seen(x, out') <=> O!Seen(x, out)
        BY <1>u
      <4> QED
        BY <1>u, <2>10, <4>2, <4>3, <4>4, <4>5, <4>6 DEF x
    <3>3. k = Received + 1 \/ k \in 1..Received
      BY <1>r, <2>3
    <3> QED
      BY <3>1, <3>2, <3>3
  <2> QED
    BY <2>11, <2>12, <2>13, <2>14, <2>15, <2>16 DEF OobInv
<1> QED
  BY <1>1, <1>2

\* A step of oobsrv.c that neither reads nor writes: what is in its hands stays.
LEMMA OobSame ==
  ASSUME OobInv, UNCHANGED <<cli, tries, sent, wire, eof, stream, out, buf, missed>>,
         Held' <=> Held, \A x : Noticed(x) => Noticed(x)',
         OobTypes', OobFlags', OobSteps'
  PROVE  OobInv'
<1>0. OobWire /\ OobOrder /\ OobKept
  BY DEF OobInv
<1>1. Received' = Received
  BY DEF Received
<1> HIDE DEF Received, Held, Noticed
<1>2. OobWire'
  BY <1>0, <1>1 DEF OobWire
<1>3. OobOrder'
  BY <1>0, <1>1 DEF OobOrder
<1>4. OobKept'
  BY <1>0, <1>1 DEF OobKept, O!Seen
<1> QED
  BY <1>2, <1>3, <1>4 DEF OobInv

\* The steps of main() that neither read nor write.
LEMMA OobMains ==
  ASSUME OobInv, \/ O!OobListen \/ O!OobAccept \/ O!SetOwn \/ O!RecvEnd \/ O!RecvReturns \/ O!Test
  PROVE  OobInv'
<1>t. OobTypes /\ OobFlags /\ OobSteps
  BY DEF OobInv
<1>u. /\ UNCHANGED <<cli, tries, sent, wire, stream, mark, out, buf, missed, status, urgent>>
      /\ handler = "none" /\ handler' = "none"
  BY DEF O!OobListen, O!OobAccept, O!SetOwn, O!RecvEnd, O!RecvReturns, O!Test, O!Go, O!client,
     O!kernel, O!work, O!taken
<1>v. UNCHANGED <<eof, pending, inline>>
  BY DEF O!OobListen, O!OobAccept, O!SetOwn, O!RecvEnd, O!RecvReturns, O!Test, O!kernel, O!taken
<1>1. OobFlags'
  BY <1>t, <1>u, <1>v DEF OobFlags, O!Seen
<1>a. \A x : Noticed(x) => Noticed(x)'
  <2>1. Received' = Received
    BY <1>u, <1>v DEF Received
  <2> HIDE DEF Received
  <2> QED
    BY <1>u, <1>v, <2>1 DEF Noticed, LastTaken, O!Seen
<1>2. ASSUME oob' \in {"accept", "failed", "setown", "recv", "test", "write", "closed"},
             n' \in {-1, 0, 1}, OobSteps', Held' <=> Held
      PROVE  OobInv'
  <2>1. OobTypes'
    BY <1>t, <1>u, <1>2 DEF OobTypes
  <2> QED
    BY <1>u, <1>v, <1>a, <1>1, <1>2, <2>1, OobSame
<1>3. CASE O!OobListen \/ O!OobAccept \/ O!SetOwn
  <2>1. /\ oob \in {"listen", "accept", "setown"} /\ oob' \in {"accept", "failed", "setown", "recv"}
        /\ UNCHANGED <<n, errno>>
    BY <1>3 DEF O!OobListen, O!OobAccept, O!SetOwn, O!Go, O!work
  <2>2. OobSteps'
    BY <1>t, <2>1 DEF OobSteps
  <2>3. Held' <=> Held
    BY <2>1 DEF Held
  <2>4. n' \in {-1, 0, 1}
    BY <1>t, <2>1 DEF OobTypes
  <2> QED
    BY <1>2, <2>1, <2>2, <2>3, <2>4
<1>4. CASE O!RecvEnd
  <2>1. oob = "recv" /\ oob' = "test" /\ n' = 0 /\ errno' = errno /\ stream = <<>>
    BY <1>4 DEF O!RecvEnd, O!Go
  <2>2. eof
    BY <1>4 DEF O!RecvEnd
  <2>3. OobSteps'
    BY <1>t, <1>u, <1>v, <2>1, <2>2 DEF OobSteps
  <2> QED
    BY <1>2, <2>1, <2>3 DEF Held
<1>5. CASE O!RecvReturns
  <2>1. oob = "interrupted" /\ oob' = "test" /\ n' = -1 /\ errno' = "EINTR"
    BY <1>5 DEF O!RecvReturns, O!Go
  <2>2. OobSteps'
    BY <2>1 DEF OobSteps
  <2> QED
    BY <1>2, <2>1, <2>2 DEF Held
<1>6. CASE O!Test
  <2>1. /\ oob = "test" /\ UNCHANGED <<n, errno>>
        /\ oob' = (IF n > 0 \/ errno = "EINTR" THEN "write" ELSE "closed")
    BY <1>6 DEF O!Test, O!Go, O!work
  <2>2. n \in {-1, 0, 1} /\ (errno = "EINTR" => n = -1) /\ (n = -1 => errno = "EINTR")
    BY <1>t, <2>1 DEF OobTypes, OobSteps
  <2>3. IF n = 0 THEN oob' = "closed" ELSE oob' = "write"
    BY <2>1, <2>2
  <2>4. OobSteps'
    BY <1>t, <1>u, <1>v, <2>1, <2>2, <2>3 DEF OobSteps
  <2>5. Held' <=> Held
    BY <2>1, <2>3 DEF Held
  <2>6. n' \in {-1, 0, 1} /\ oob' \in {"write", "closed"}
    BY <2>1, <2>2, <2>3
  <2> QED
    BY <1>2, <2>4, <2>5, <2>6
<1> QED
  BY <1>3, <1>4, <1>5, <1>6

\* The handler enters, takes the urgent byte and sets the option.
LEMMA OobHandles ==
  ASSUME OobInv, O!RecvInterrupted \/ O!Enter \/ O!TakeUrgent \/ O!SetInline
  PROVE  OobInv'
<1>t. OobTypes /\ OobFlags /\ OobSteps
  BY DEF OobInv
<1>r. UNCHANGED <<cli, sent, wire, eof>> => Received' = Received
  BY DEF Received
<1> HIDE DEF Received
<1>1. CASE O!RecvInterrupted \/ O!Enter
  <2>1. /\ UNCHANGED <<cli, tries, sent, wire, stream, mark, out, buf, missed, status, urgent, n, errno>>
        /\ handler = "none" /\ handler' = "urg"
        /\ oob' = oob \/ (oob = "recv" /\ oob' = "interrupted")
    BY <1>1 DEF O!RecvInterrupted, O!Enter, O!client, O!work, O!taken
  <2>2. UNCHANGED <<eof, inline>> /\ pending /\ ~pending'
    BY <1>1 DEF O!RecvInterrupted, O!Enter, O!taken
  <2>3. OobFlags'
    BY <1>t, <2>1, <2>2 DEF OobFlags, O!Seen
  <2>4. OobSteps'
    BY <1>t, <2>1, <2>2 DEF OobSteps
  <2>5. OobTypes'
    BY <1>t, <2>1 DEF OobTypes
  <2>6. Held' <=> Held
    BY <2>1 DEF Held
  <2>7. \A x : Noticed(x) => Noticed(x)'
    BY <1>r, <2>1, <2>2 DEF Noticed, LastTaken, O!Seen
  <2> QED
    BY <2>1, <2>2, <2>3, <2>4, <2>5, <2>6, <2>7, OobSame
<1>2. CASE O!SetInline
  <2>1. /\ UNCHANGED <<cli, tries, sent, wire, stream, mark, out, buf, missed, status, urgent, n, errno, oob>>
        /\ handler = "setsockopt" /\ handler' = "none"
    BY <1>2 DEF O!SetInline, O!In, O!client, O!kernel, O!work
  <2>2. UNCHANGED <<eof, pending>> /\ inline'
    BY <1>2 DEF O!SetInline, O!kernel
  <2>3. OobFlags'
    BY <1>t, <2>1, <2>2 DEF OobFlags, O!Seen, OobTypes
  <2>4. OobSteps'
    BY <1>t, <2>1, <2>2 DEF OobSteps
  <2>5. OobTypes'
    BY <1>t, <2>1 DEF OobTypes
  <2>6. Held' <=> Held
    BY <2>1 DEF Held
  <2>7. \A x : Noticed(x) => Noticed(x)'
    BY <1>r, <2>1, <2>2, <1>t DEF Noticed, LastTaken, O!Seen, OobFlags
  <2> QED
    BY <2>1, <2>2, <2>3, <2>4, <2>5, <2>6, <2>7, OobSame
<1>3. CASE O!TakeUrgent
  <2>1. /\ UNCHANGED <<cli, tries, sent, wire, stream, out, buf, missed, n, oob>>
        /\ handler = "urg"
    BY <1>3 DEF O!TakeUrgent, O!In, O!client, O!kernel, O!work
  <2>2. UNCHANGED <<eof, pending, inline>>
    BY <1>3 DEF O!TakeUrgent, O!kernel, O!taken
  <2>3. status = 0 => ~mark.read /\ ~inline
    BY <1>t, <2>1 DEF OobFlags
  <2>4. CASE status = 1
    <3>1. UNCHANGED <<mark, status, urgent, errno>> /\ handler' = "none"
      BY <1>3, <2>4 DEF O!TakeUrgent, O!In, O!kernel, O!work, O!taken
    <3>2. OobFlags'
      BY <1>t, <2>1, <2>2, <2>4, <3>1 DEF OobFlags, O!Seen
    <3>3. OobSteps'
      BY <1>t, <2>1, <2>2, <3>1 DEF OobSteps
    <3>4. OobTypes'
      BY <1>t, <2>1, <3>1 DEF OobTypes
    <3>5. Held' <=> Held
      BY <2>1 DEF Held
    <3>6. \A x : Noticed(x) => Noticed(x)'
      BY <1>r, <2>1, <2>2, <2>4, <3>1 DEF Noticed, LastTaken, O!Seen
    <3> QED
      BY <2>1, <2>2, <3>1, <3>2, <3>3, <3>4, <3>5, <3>6, OobSame
  <2>5. CASE status = 0
    <3>1. /\ handler' = "setsockopt" /\ urgent' = Append(urgent, mark.byte) /\ status' = 1
          /\ mark' = [mark EXCEPT !.read = TRUE] /\ errno' = errno
      BY <1>3, <2>3, <2>5 DEF O!TakeUrgent, O!In, O!work
    <3>2. mark.byte \in O!Urgent /\ mark \in [byte : O!Urgent \cup {"none"}, read : BOOLEAN]
      BY <1>t, <2>3, <2>5 DEF OobFlags, OobTypes, O!Urgent, Toks
    <3>3. /\ mark'.byte = mark.byte /\ mark'.read
          /\ mark' \in [byte : O!Urgent \cup {"none"}, read : BOOLEAN]
      BY <3>1, <3>2
    <3>4. /\ urgent' \in Seq(O!Urgent) /\ Len(urgent') = 1 /\ O!Seen(mark.byte, urgent')
          /\ \A x : O!Seen(x, urgent) => O!Seen(x, urgent')
      <4>1. urgent \in Seq(O!Urgent) /\ Len(urgent) = 0
        BY <1>t, <2>5 DEF OobTypes
      <4>2. urgent' \in Seq(O!Urgent) /\ Len(urgent') = 1 /\ DOMAIN urgent' = 1..1 /\ urgent'[1] = mark.byte
        BY <3>1, <3>2, <4>1
      <4>3. DOMAIN urgent = {}
        BY <4>1
      <4> QED
        BY <4>2, <4>3 DEF O!Seen
    <3>5. OobFlags'
      BY <1>t, <2>1, <2>2, <3>1, <3>3, <3>4 DEF OobFlags
    <3>6. OobSteps'
      BY <1>t, <2>1, <2>2, <3>1 DEF OobSteps
    <3>7. OobTypes'
      BY <1>t, <2>1, <3>1, <3>3, <3>4 DEF OobTypes
    <3>8. Held' <=> Held
      BY <2>1 DEF Held
    <3>9. \A x : Noticed(x) => Noticed(x)'
      <4>1. Received' = Received
        BY <1>r, <2>1, <2>2
      <4>2. LastTaken => LastTaken'
        BY <4>1, <3>4 DEF LastTaken
      <4> QED
        BY <2>1, <3>4, <4>2 DEF Noticed
    <3> QED
      BY <2>1, <2>2, <3>4, <3>5, <3>6, <3>7, <3>8, <3>9, OobSame
  <2> QED
    BY <1>t, <2>4, <2>5 DEF OobTypes
<1> QED
  BY <1>1, <1>2, <1>3

\* main() takes the next piece of the stream, or passes the byte of the mark.
LEMMA OobReads ==
  ASSUME OobInv, O!Recv
  PROVE  OobInv'
<1> DEFINE t == Head(stream)
<1>t. OobTypes /\ OobFlags /\ OobSteps /\ OobWire /\ OobOrder /\ OobKept
  BY DEF OobInv
<1>u. /\ UNCHANGED <<cli, tries, sent, wire, missed, status, urgent, errno, out>>
      /\ handler = "none" /\ handler' = "none" /\ oob = "recv"
      /\ stream # <<>> /\ stream' = Tail(stream)
      /\ mark' = (IF O!AtMark THEN O!NoMark ELSE mark)
  BY DEF O!Recv, O!Go, O!client, O!work, O!taken
<1>v. UNCHANGED <<eof, pending, inline>> /\ (O!AtMark => ~pending)
  BY DEF O!Recv, O!taken
<1>w. \/ oob' = "recv" /\ UNCHANGED <<n, buf>> /\ O!AtMark /\ ~inline
      \/ oob' = "test" /\ n' = 1 /\ buf' = t
  BY DEF O!Recv, O!Go, O!work
<1>a. O!AtMark <=> t = mark.byte
  BY <1>u DEF O!AtMark
<1>s. /\ stream \in Seq(Toks) /\ Len(stream) \in Nat /\ Len(stream) > 0 /\ stream' \in Seq(Toks)
      /\ t = stream[1] /\ 1 \in DOMAIN stream /\ t \in Toks
      /\ DOMAIN stream' = 1..(Len(stream) - 1)
      /\ \A i \in DOMAIN stream' : i + 1 \in DOMAIN stream /\ stream'[i] = stream[i + 1]
      /\ \A i \in DOMAIN stream : i = 1 \/ (i - 1 \in DOMAIN stream' /\ stream[i] = stream'[i - 1])
  BY <1>t, <1>u DEF OobTypes
<1>r. Received' = Received
  BY <1>u, <1>v DEF Received
<1> HIDE DEF t, Received
\* A byte that is passed over was read, or came before F_SETOWN.
<1>p. O!AtMark /\ ~inline => t \in O!Urgent /\ (O!Seen(t, urgent) \/ t \in missed)
  <2> SUFFICES ASSUME O!AtMark, ~inline PROVE t \in O!Urgent /\ (O!Seen(t, urgent) \/ t \in missed)
    OBVIOUS
  <2>1. t = mark.byte /\ t # "none" /\ mark.byte \in O!Urgent
    BY <1>t, <1>a, <1>s, Turns DEF OobTypes
  <2>2. status = 0
    BY <1>t, <1>u DEF OobTypes, OobFlags
  <2>3. CASE mark.read
    BY <1>t, <2>1, <2>3 DEF OobFlags
  <2>4. CASE ~mark.read
    BY <1>t, <1>u, <1>v, <2>1, <2>2, <2>4 DEF OobFlags
  <2> QED
    BY <2>1, <2>3, <2>4
<1>1. OobTypes'
  <2>1. mark' \in [byte : O!Urgent \cup {"none"}, read : BOOLEAN]
    BY <1>t, <1>u DEF OobTypes, O!NoMark
  <2>2. n' \in {-1, 0, 1} /\ oob' \in {"recv", "test"}
    BY <1>t, <1>w DEF OobTypes
  <2> QED
    BY <1>t, <1>u, <1>s, <2>1, <2>2 DEF OobTypes
<1>2. OobFlags'
  <2>1. CASE O!AtMark
    <3>1. mark'.byte = "none" /\ mark'.read /\ ~pending'
      BY <1>u, <1>v, <2>1 DEF O!NoMark
    <3> QED
      BY <1>t, <1>u, <1>v, <3>1 DEF OobFlags
  <2>2. CASE ~O!AtMark
    <3>1. mark' = mark
      BY <1>u, <2>2
    <3>2. O!Seen(mark.byte, stream) => O!Seen(mark.byte, stream')
      BY <1>a, <1>s, <2>2 DEF O!Seen
    <3>3. \A x : O!Seen(x, urgent)' <=> O!Seen(x, urgent)
      BY <1>u DEF O!Seen
    <3> QED
      BY <1>t, <1>u, <1>v, <3>1, <3>2, <3>3 DEF OobFlags
  <2> QED
    BY <2>1, <2>2
<1>3. OobSteps'
  <2>1. errno \in {"0", "EINTR", "EFAULT"} /\ errno # "EINTR"
    BY <1>t, <1>u DEF OobSteps
  <2> QED
    BY <1>u, <1>v, <1>w, <2>1 DEF OobSteps
<1>4. OobWire'
  BY <1>t, <1>u, <1>v, <1>r DEF OobWire
<1>h. ~Held /\ (Held' => oob' = "test" /\ buf' = t)
  BY <1>u, <1>w DEF Held
<1>5. OobOrder'
  <2>1. /\ \A i \in DOMAIN out : out[i] \in Toks /\ O!Turn(out[i]) <= Received
        /\ \A i, j \in DOMAIN out : i < j => O!Turn(out[i]) < O!Turn(out[j])
    BY <1>t DEF OobOrder
  <2>2. \A i \in DOMAIN stream : /\ stream[i] \in Toks /\ O!Turn(stream[i]) \in i..Received
                                  /\ \A j \in DOMAIN out : O!Turn(out[j]) < O!Turn(stream[i])
    BY <1>t DEF OobOrder
  <2>3. \A i, j \in DOMAIN stream : i < j => O!Turn(stream[i]) < O!Turn(stream[j])
    BY <1>t DEF OobOrder
  <2>4. O!Turn(t) <= Received /\ \A i \in DOMAIN out : O!Turn(out[i]) < O!Turn(t)
    <3>1. Received \in Nat
      BY StreamShort
    <3> QED
      BY <1>s, <2>2, <3>1
  <2>5. ASSUME NEW i \in DOMAIN stream'
        PROVE  /\ stream'[i] \in Toks /\ O!Turn(stream'[i]) \in i..Received
               /\ O!Turn(t) < O!Turn(stream'[i])
               /\ \A j \in DOMAIN out : O!Turn(out[j]) < O!Turn(stream'[i])
    <3>1. i \in Nat /\ i > 0 /\ i + 1 \in DOMAIN stream /\ stream'[i] = stream[i + 1] /\ Received \in Nat
      BY <1>s, StreamShort
    <3>2. O!Turn(stream[i + 1]) \in (i + 1)..Received
      BY <2>2, <3>1
    <3>3. O!Turn(stream'[i]) \in i..Received
      BY <3>1, <3>2
    <3>4. O!Turn(t) < O!Turn(stream[i + 1])
      BY <1>s, <2>3, <3>1
    <3> QED
      BY <2>2, <3>1, <3>3, <3>4
  <2>6. ASSUME NEW i \in DOMAIN stream', NEW j \in DOMAIN stream', i < j
        PROVE  O!Turn(stream'[i]) < O!Turn(stream'[j])
    <3>1. i + 1 < j + 1
      BY <1>s, <2>6
    <3> QED
      BY <1>s, <2>3, <3>1
  <2> QED
    BY <1>u, <1>r, <1>s, <1>h, <2>1, <2>4, <2>5, <2>6 DEF OobOrder
<1>6. OobKept'
  <2> SUFFICES ASSUME NEW k \in 1..Received
               PROVE  LET x == O!Sends[k] IN
                      \/ O!Seen(x, out) \/ O!Seen(x, stream') \/ (Held' /\ buf' = x)
                      \/ Noticed(x)'
    BY <1>u, <1>r DEF OobKept
  <2> DEFINE x == O!Sends[k]
  <2>1. O!Seen(x, out) \/ O!Seen(x, stream) \/ Noticed(x)
    BY <1>t, <1>h DEF OobKept
  <2> HIDE DEF x
  <2>k. ASSUME NEW y, Noticed(y) PROVE Noticed(y)'
    <3>1. LastTaken => LastTaken'
      BY <1>u, <1>v, <1>r DEF LastTaken, O!Seen
    <3> QED
      BY <1>u, <2>k, <3>1 DEF Noticed, O!Seen
  <2>2. O!Seen(x, stream) => x = t \/ O!Seen(x, stream')
    BY <1>s DEF O!Seen
  <2>3. \/ Held' /\ buf' = t
        \/ t \in O!Urgent /\ (O!Seen(t, urgent) \/ t \in missed)
    BY <1>w, <1>p DEF Held
  <2>4. t \in O!Urgent /\ (O!Seen(t, urgent) \/ t \in missed) => Noticed(t)
    BY DEF Noticed
  <2> QED
    BY <2>1, <2>2, <2>3, <2>4, <2>k DEF x
<1> QED
  BY <1>1, <1>2, <1>3, <1>4, <1>5, <1>6 DEF OobInv

\* main() writes what it has in its hands.
LEMMA OobWrites ==
  ASSUME OobInv, O!Write
  PROVE  OobInv'
<1>t. OobTypes /\ OobFlags /\ OobSteps /\ OobWire /\ OobOrder /\ OobKept
  BY DEF OobInv
<1>u. /\ UNCHANGED <<cli, tries, sent, wire, stream, mark, missed, status, urgent, n, buf>>
      /\ handler = "none" /\ handler' = "none" /\ oob = "write" /\ oob' = "recv"
      /\ out' = (IF n = 1 THEN Append(out, buf) ELSE out)
      /\ errno' = (IF n = -1 THEN "EFAULT" ELSE errno)
  BY DEF O!Write, O!Go, O!client, O!kernel, O!taken
<1>v. UNCHANGED <<eof, pending, inline>>
  BY DEF O!Write, O!kernel, O!taken
<1>r. Received' = Received
  BY <1>u, <1>v DEF Received
<1> HIDE DEF Received
<1>h. ~Held' /\ (Held <=> n = 1)
  BY <1>u DEF Held
<1>b. /\ Held => buf \in Toks /\ O!Turn(buf) <= Received /\ \A i \in DOMAIN out : O!Turn(out[i]) < O!Turn(buf)
      /\ Held => \A i \in DOMAIN stream : O!Turn(buf) < O!Turn(stream[i])
  BY <1>t DEF OobOrder
<1>o. out \in Seq(Toks)
  BY <1>t DEF OobTypes
<1>c. /\ out' \in Seq(Toks) /\ DOMAIN out \subseteq DOMAIN out'
      /\ \A i \in DOMAIN out : out'[i] = out[i]
      /\ \A i \in DOMAIN out' : i \in DOMAIN out \/ (Held /\ out'[i] = buf /\ \A j \in DOMAIN out : j < i)
      /\ \A i, j \in DOMAIN out' : i < j => i \in DOMAIN out
      /\ Held => \E i \in DOMAIN out' : out'[i] = buf
  <2>1. CASE n = 1
    <3>1. /\ Len(out) \in Nat /\ DOMAIN out = 1..Len(out) /\ out' \in Seq(Toks)
          /\ DOMAIN out' = 1..(Len(out) + 1) /\ out'[Len(out) + 1] = buf
          /\ \A i \in DOMAIN out : out'[i] = out[i]
      BY <1>u, <1>h, <1>b, <1>o, <2>1
    <3>2. \A i \in DOMAIN out' : i \in DOMAIN out \/ i = Len(out) + 1
      BY <3>1
    <3> QED
      BY <1>h, <2>1, <3>1, <3>2
  <2>2. CASE n # 1
    <3>1. out' = out
      BY <1>u, <2>2
    <3> QED
      BY <1>h, <1>o, <2>2, <3>1
  <2> QED
    BY <2>1, <2>2
<1>1. OobTypes'
  BY <1>t, <1>u, <1>c DEF OobTypes
<1>2. OobFlags'
  BY <1>t, <1>u, <1>v DEF OobFlags, O!Seen
<1>3. OobSteps'
  <2>1. errno' \in {"0", "EFAULT"}
    BY <1>t, <1>u DEF OobSteps
  <2> QED
    BY <1>u, <2>1 DEF OobSteps
<1>4. OobWire'
  BY <1>t, <1>u, <1>v, <1>r DEF OobWire
<1>5. OobOrder'
  <2>1. /\ \A i \in DOMAIN out : out[i] \in Toks /\ O!Turn(out[i]) <= Received
        /\ \A i, j \in DOMAIN out : i < j => O!Turn(out[i]) < O!Turn(out[j])
        /\ \A i \in DOMAIN stream : /\ stream[i] \in Toks /\ O!Turn(stream[i]) \in i..Received
                                      /\ \A j \in DOMAIN out : O!Turn(out[j]) < O!Turn(stream[i])
        /\ \A i, j \in DOMAIN stream : i < j => O!Turn(stream[i]) < O!Turn(stream[j])
    BY <1>t DEF OobOrder
  <2>2. \A i \in DOMAIN out' : out'[i] \in Toks /\ O!Turn(out'[i]) <= Received
    BY <1>b, <1>c, <2>1
  <2>3. ASSUME NEW i \in DOMAIN out', NEW j \in DOMAIN out', i < j
        PROVE  O!Turn(out'[i]) < O!Turn(out'[j])
    <3>1. i \in DOMAIN out
      BY <1>c, <2>3
    <3>2. CASE j \in DOMAIN out
      BY <1>c, <2>1, <2>3, <3>1, <3>2
    <3>3. CASE j \notin DOMAIN out
      BY <1>b, <1>c, <3>1, <3>3
    <3> QED
      BY <3>2, <3>3
  <2>4. \A i \in DOMAIN stream : \A j \in DOMAIN out' : O!Turn(out'[j]) < O!Turn(stream[i])
    BY <1>b, <1>c, <2>1
  <2> QED
    BY <1>u, <1>r, <1>h, <2>1, <2>2, <2>3, <2>4 DEF OobOrder
<1>6. OobKept'
  <2> SUFFICES ASSUME NEW k \in 1..Received
               PROVE  LET x == O!Sends[k] IN
                      \/ O!Seen(x, out') \/ O!Seen(x, stream) \/ (Held' /\ buf' = x)
                      \/ Noticed(x)'
    BY <1>u, <1>r DEF OobKept
  <2> DEFINE x == O!Sends[k]
  <2>1. O!Seen(x, out) \/ O!Seen(x, stream) \/ (Held /\ buf = x) \/ Noticed(x)
    BY <1>t DEF OobKept
  <2> HIDE DEF x
  <2>3. Noticed(x) => Noticed(x)'
    BY <1>u, <1>v, <1>r DEF Noticed, LastTaken, O!Seen
  <2>2. O!Seen(x, out) \/ (Held /\ buf = x) => O!Seen(x, out')
    BY <1>c DEF O!Seen
  <2> QED
    BY <2>1, <2>2, <2>3 DEF x
<1> QED
  BY <1>1, <1>2, <1>3, <1>4, <1>5, <1>6 DEF OobInv

\* Every step of 16-oobdata keeps its invariant.
LEMMA OobStep == OobInv /\ O!OobNext => OobInv'
BY OobClients, OobReceives, OobMains, OobHandles, OobReads, OobWrites DEF O!OobNext, O!Server

\* The invariant of 16-oobdata says what the run checks.
LEMMA OobListed ==
  OobInv => O!OobTypeOK /\ O!StreamWritten /\ O!UrgentSeen /\ O!HandlerFindsUrgent
<1> SUFFICES ASSUME OobInv
             PROVE  O!OobTypeOK /\ O!StreamWritten /\ O!UrgentSeen /\ O!HandlerFindsUrgent
  OBVIOUS
<1>t. OobTypes /\ OobFlags /\ OobSteps /\ OobWire /\ OobOrder /\ OobKept
  BY DEF OobInv
<1>s. /\ Received \in 0..4 /\ Received <= sent /\ Len(stream) \in Nat /\ Len(stream) <= Received
      /\ sent \in 0..4
  BY <1>t, StreamShort DEF OobTypes
<1>e. eof => Received = sent /\ wire = <<>>
  BY <1>t DEF OobWire, Received
<1>c. oob = "closed" => Received = sent /\ stream = <<>> /\ ~Held
  BY <1>t, <1>e DEF OobSteps, Held
<1>w. Len(wire) \in Nat /\ Len(wire) + Received <= sent + 1
  <2>1. Len(wire) \in Nat
    BY <1>t DEF OobTypes
  <2>2. CASE eof
    <3>1. Len(wire) = 0
      BY <1>e, <2>2
    <3> HIDE DEF Received
    <3> QED
      BY <1>s, <1>e, <2>2, <3>1
  <2>3. CASE ~eof
    <3>1. Received = sent + 1 - Len(wire) \/ Received = sent - Len(wire)
      BY <2>3 DEF Received
    <3> HIDE DEF Received
    <3>2. wire \in Seq(Toks \cup {"FIN"})
      BY <1>t DEF OobTypes
    <3> QED
      BY <1>s, <2>1, <3>1, <3>2
  <2> QED
    BY <2>1, <2>2, <2>3
<1> HIDE DEF Received
<1>1. O!OobTypeOK
  <2>1. Len(wire) + Len(stream) <= Len(O!Sends) + 1
    BY <1>s, <1>w, Turns
  <2>2. mark.byte \in O!Urgent \cup {"none"} /\ Len(urgent) <= 1
    BY <1>t DEF OobTypes
  <2>3. errno \in {"0", "EINTR", "EFAULT", "EINVAL"}
    BY <1>t DEF OobSteps
  <2>4. n \in -1..1 /\ sent \in 0..Len(O!Sends)
    BY <1>t, Turns DEF OobTypes
  <2> QED
    BY <1>t, <2>1, <2>2, <2>3, <2>4 DEF OobTypes, O!OobTypeOK
<1>2. O!StreamWritten
  <2>1. \A i \in DOMAIN out : \E k \in 1..sent : out[i] = O!Sends[k]
    <3> SUFFICES ASSUME NEW i \in DOMAIN out PROVE \E k \in 1..sent : out[i] = O!Sends[k]
      OBVIOUS
    <3>1. out[i] \in Toks /\ O!Turn(out[i]) <= Received
      BY <1>t DEF OobOrder
    <3>2. O!Turn(out[i]) \in 1..4 /\ O!Sends[O!Turn(out[i])] = out[i]
      BY <3>1, Turns
    <3>3. O!Turn(out[i]) \in 1..sent
      BY <1>s, <3>1, <3>2
    <3> QED
      BY <3>2, <3>3
  <2>2. \A i, j \in DOMAIN out : i < j => O!Turn(out[i]) < O!Turn(out[j])
    BY <1>t DEF OobOrder
  <2>3. ASSUME NEW k \in 1..sent, O!Sends[k] \notin O!Urgent,
               oob = "closed" \/ \E i \in DOMAIN out : k < O!Turn(out[i])
        PROVE  O!Seen(O!Sends[k], out)
    <3>1. k \in 1..4 /\ O!Turn(O!Sends[k]) = k
      <4>1. k \in 1..4
        BY <1>s
      <4> QED
        BY <4>1, Turns
    <3>2. ASSUME NEW i \in DOMAIN out, k < O!Turn(out[i])
          PROVE  /\ k \in 1..Received /\ ~O!Seen(O!Sends[k], stream)
                 /\ ~(Held /\ buf = O!Sends[k])
      <4>1. out[i] \in Toks /\ O!Turn(out[i]) <= Received /\ O!Turn(out[i]) \in 1..4
        BY <1>t, Turns DEF OobOrder
      <4>2. k \in 1..Received
        BY <1>s, <3>1, <3>2, <4>1
      <4>3. \A j \in DOMAIN stream : O!Turn(out[i]) < O!Turn(stream[j]) /\ O!Turn(stream[j]) \in 1..4
        BY <1>t, Turns DEF OobOrder
      <4>4. ~O!Seen(O!Sends[k], stream)
        BY <3>1, <3>2, <4>1, <4>3 DEF O!Seen
      <4>5. Held => O!Turn(out[i]) < O!Turn(buf)
        BY <1>t DEF OobOrder
      <4>6. ~(Held /\ buf = O!Sends[k])
        BY <3>1, <3>2, <4>1, <4>5
      <4> QED
        BY <4>2, <4>4, <4>6
    <3>3. CASE oob = "closed"
      <4>1. k \in 1..Received /\ ~O!Seen(O!Sends[k], stream) /\ ~Held
        BY <1>c, <3>3 DEF O!Seen
      <4> QED
        BY <1>t, <2>3, <4>1 DEF OobKept, Noticed
    <3>4. CASE \E i \in DOMAIN out : k < O!Turn(out[i])
      <4>1. /\ k \in 1..Received /\ ~O!Seen(O!Sends[k], stream)
            /\ ~(Held /\ buf = O!Sends[k])
        BY <3>2, <3>4
      <4> QED
        BY <1>t, <2>3, <4>1 DEF OobKept, Noticed
    <3> QED
      BY <2>3, <3>3, <3>4
  <2> QED
    BY <2>1, <2>2, <2>3 DEF O!StreamWritten
<1>3. O!UrgentSeen
  <2> SUFFICES ASSUME oob = "closed", NEW k \in 1..sent
               PROVE  \/ O!Seen(O!Sends[k], out) \/ O!Seen(O!Sends[k], urgent) \/ O!Sends[k] \in missed
                      \/ \E j \in (k + 1)..sent : O!Seen(O!Sends[j], urgent)
    BY DEF O!UrgentSeen
  <2>1. k \in 1..Received /\ ~O!Seen(O!Sends[k], stream) /\ ~Held
    BY <1>c DEF O!Seen
  <2>2. O!Seen(O!Sends[k], out) \/ Noticed(O!Sends[k])
    BY <1>t, <2>1 DEF OobKept
  \* The first was discarded, and the handler has read the second, which is past.
  <2>3. ASSUME O!Sends[k] = "e", LastTaken PROVE \E j \in (k + 1)..sent : O!Seen(O!Sends[j], urgent)
    <3>1. k \in 1..4
      BY <1>s
    <3>2. k = 2
      BY <2>3, <3>1, Turns
    <3>3. 4 \in (k + 1)..sent
      BY <1>s, <2>3, <3>2 DEF LastTaken
    <3>4. mark.read
      BY <1>t, <1>c DEF OobFlags, O!Seen
    <3>5. O!Seen("E", urgent)
      BY <2>3, <3>4 DEF LastTaken
    <3>6. O!Sends[4] = "E"
      BY DEF O!Sends
    <3> QED
      BY <3>3, <3>5, <3>6
  <2> QED
    BY <2>2, <2>3 DEF Noticed
<1>4. O!HandlerFindsUrgent
  BY <1>t DEF OobSteps, O!HandlerFindsUrgent
<1> QED
  BY <1>1, <1>2, <1>3, <1>4

------------------------------------------------------------------------------
(* Port 9527 *)

\* What the socket of a run can be at each of its steps.
SockAt == [socket |-> {"none"}, bind |-> {"open"}, listen |-> {"bound"}, accept |-> {"listening"},
           asks |-> {"bound", "listening"}, exit0 |-> {"none"}, exit1 |-> {"none"},
           killed |-> {"none"}]

\* One socket listens, and only its queue is not empty.
PortSockets ==
  /\ \A r \in Runs : at[r] \in DOMAIN SockAt /\ sock[r] \in SockAt[at[r]]
  /\ \A r, s \in Runs : sock[r] = "listening" /\ sock[s] = "listening" => r = s
  /\ \A r \in Runs : backlog[r] # <<>> => sock[r] = "listening"

\* A caller is in a queue once, and is told nothing while it waits.
PortQueues ==
  \A r \in Runs : Once(backlog[r]) /\ \A c \in Among(backlog[r]) : ends[c] = "queued"

\* A caller that has not connected has no connection, and tries left.
PortCallers ==
  \A c \in Callers : at[c] \in {"socket", "connect"} => ends[c] = "none" /\ delay[c] <= 8

\* Only listenap.c accepts, and only its connections wait in TIME_WAIT.
PortKinds ==
  /\ \A r \in Runs : at[r] = "accept" \/ ends[r] \in Callers => kind[r] = "listenap"
  /\ \A r \in timewait : at[r] \in O!Ended /\ kind[r] = "listenap"

PortInv == /\ O!TcpTypeOK /\ PortSockets /\ PortQueues /\ PortCallers /\ PortKinds
           /\ O!ConnectionsKept

\* The words of the port are neither runs nor callers, and no run is a caller.
LEMMA PortNames ==
  /\ Runs \cap Callers = {} /\ "none" \notin Runs \cup Callers
  /\ "queued" \notin Runs \cup Callers /\ "reset" \notin Runs \cup Callers
BY NetworkAssumption

\* Port 9527 begins unbound.
LEMMA PortInit == O!TcpInit => PortInv
<1> SUFFICES ASSUME O!TcpInit PROVE PortInv
  OBVIOUS
<1> USE PortNames, EmptyOnce DEF O!TcpInit
<1>1. O!TcpTypeOK
  BY DEF O!TcpTypeOK
<1>2. PortSockets
  BY DEF PortSockets, SockAt
<1>3. PortQueues /\ PortCallers /\ PortKinds /\ O!ConnectionsKept
  BY DEF PortQueues, PortCallers, PortKinds, O!ConnectionsKept
<1> QED
  BY <1>1, <1>2, <1>3 DEF PortInv

\* exit() of a run, or its end by a signal.
LEMMA PortEnds ==
  ASSUME PortInv, NEW r \in Runs, at[r] \notin O!Ended, NEW how \in O!Ended, O!End(r, how)
  PROVE  PortInv'
<1> USE PortNames
<1>1. /\ at' = [at EXCEPT ![r] = how] /\ sock' = [sock EXCEPT ![r] = "none"]
      /\ backlog' = [backlog EXCEPT ![r] = <<>>] /\ UNCHANGED <<kind, delay>>
      /\ ends' = [p \in DOMAIN ends |-> IF p \in O!ToSet(backlog[r]) THEN "reset" ELSE ends[p]]
  BY DEF O!End
<1>2. timewait' \subseteq timewait \cup {r} /\ (r \in timewait' => r \in timewait \/ ends[r] \in Callers)
  BY DEF O!End
<1>3. O!ToSet(backlog[r]) = Among(backlog[r])
  BY DEF O!ToSet, Among
<1>4. \A s \in Runs : Among(backlog[s]) \subseteq Callers
  BY AmongIn DEF PortInv, O!TcpTypeOK
<1>5. DOMAIN ends' = Runs \cup Callers /\ 
      \A p \in Runs \cup Callers : ends'[p] = IF p \in Among(backlog[r]) THEN "reset" ELSE ends[p]
  BY <1>1, <1>3 DEF PortInv, O!TcpTypeOK
<1>6. /\ at'[r] = how /\ sock'[r] = "none" /\ backlog'[r] = <<>> /\ r \notin timewait
      /\ DOMAIN at' = Runs \cup Callers
      /\ \A p \in Runs \cup Callers : p # r => at'[p] = at[p]
      /\ \A s \in Runs : s # r => sock'[s] = sock[s] /\ backlog'[s] = backlog[s]
  BY <1>1 DEF PortInv, O!TcpTypeOK, PortKinds
<1>7. O!TcpTypeOK'
  BY <1>1, <1>2, <1>5, <1>6 DEF PortInv, O!TcpTypeOK
<1>8. PortSockets'
  BY <1>6 DEF PortInv, PortSockets, SockAt, O!Ended
<1>9. PortQueues'
  <2>1. ASSUME NEW s \in Runs, s # r PROVE Once(backlog'[s]) /\ \A c \in Among(backlog'[s]) : ends'[c] = "queued"
    <3>1. Once(backlog[s]) /\ \A c \in Among(backlog[s]) : ends[c] = "queued"
      BY DEF PortInv, PortQueues
    <3>2. \A c \in Among(backlog[s]) : c \notin Among(backlog[r])
      <4>1. backlog[s] # <<>> => backlog[r] = <<>>
        BY <2>1 DEF PortInv, PortSockets
      <4> QED
        BY <4>1, EmptyOnce
    <3> QED
      BY <1>4, <1>5, <1>6, <2>1, <3>1, <3>2
  <2> QED
    BY <1>6, <2>1, EmptyOnce DEF PortQueues
<1>10. PortCallers'
  BY <1>1, <1>5, <1>6 DEF PortInv, PortCallers, PortQueues
<1>11. PortKinds'
  BY <1>1, <1>2, <1>5, <1>6 DEF PortInv, PortKinds, O!Ended, O!TcpTypeOK
<1>12. O!ConnectionsKept'
  <2>1. ASSUME NEW s \in Runs, ends'[s] \in Callers PROVE ends'[ends'[s]] = s
    <3>1. ends'[s] = ends[s] /\ ends[ends[s]] = s
      BY <1>5, <2>1 DEF PortInv, O!ConnectionsKept
    <3>2. ends[s] \notin Among(backlog[r])
      BY <3>1 DEF PortInv, PortQueues
    <3> QED
      BY <1>5, <2>1, <3>1, <3>2
  <2>2. ASSUME NEW c \in Callers, ends'[c] = "queued"
        PROVE  \E s \in O!Listeners' : O!Contains(backlog'[s], c)
    <3>1. ends[c] = "queued" /\ c \notin Among(backlog[r])
      BY <1>5, <2>2
    <3>2. PICK s \in O!Listeners : O!Contains(backlog[s], c)
      BY <3>1 DEF PortInv, O!ConnectionsKept
    <3>3. s # r
      BY <3>1, <3>2 DEF Among, O!Contains
    <3> QED
      BY <1>6, <3>2, <3>3 DEF O!Listeners
  <2> QED
    BY <2>1, <2>2 DEF O!ConnectionsKept
<1> QED
  BY <1>7, <1>8, <1>9, <1>10, <1>11, <1>12 DEF PortInv

\* A step of a run that changes its socket and no connection.
LEMMA PortMoves ==
  ASSUME PortInv, NEW r \in Runs, NEW label \in DOMAIN SockAt, NEW s \in SockAt[label],
         O!Goto(r, label), sock' = [sock EXCEPT ![r] = s], backlog' = backlog,
         at[r] \notin O!Ended, sock[r] # "listening", s = "listening" => O!Listeners = {},
         label = "accept" => kind[r] = "listenap"
  PROVE  PortInv'
<1> USE PortNames
<1>1. /\ at' = [at EXCEPT ![r] = label] /\ sock' = [sock EXCEPT ![r] = s]
      /\ UNCHANGED <<kind, backlog, ends, timewait, delay>>
  BY DEF O!Goto
<1>2. /\ at'[r] = label /\ sock'[r] = s
      /\ DOMAIN at' = Runs \cup Callers /\ r \notin timewait
      /\ \A p \in Runs \cup Callers : p # r => at'[p] = at[p]
      /\ \A t \in Runs : t # r => sock'[t] = sock[t]
  BY <1>1 DEF PortInv, O!TcpTypeOK, PortKinds
<1>3. O!TcpTypeOK'
  <2>1. s \in {"none", "open", "bound", "listening"}
    BY DEF SockAt
  <2> QED
    BY <1>1, <1>2, <2>1 DEF PortInv, O!TcpTypeOK
<1>4. PortSockets'
  BY <1>1, <1>2 DEF PortInv, PortSockets, O!Listeners
<1>5. PortQueues' /\ PortCallers'
  BY <1>1, <1>2 DEF PortInv, PortQueues, PortCallers
<1>6. PortKinds'
  BY <1>1, <1>2 DEF PortInv, PortKinds, O!TcpTypeOK
<1>7. O!ConnectionsKept'
  <2>1. \A t \in O!Listeners : t \in O!Listeners'
    BY <1>2 DEF O!Listeners
  <2> QED
    BY <1>1, <2>1 DEF PortInv, O!ConnectionsKept
<1> QED
  BY <1>3, <1>4, <1>5, <1>6, <1>7 DEF PortInv

\* A step of connect.c that touches no connection.
LEMMA CallerMoves ==
  ASSUME PortInv, NEW c \in Callers, NEW label, O!CallerGoes(c, label), UNCHANGED <<backlog, ends>>,
         delay' \in [Callers -> {1, 2, 4, 8, 16}], \A d \in Callers : d # c => delay'[d] = delay[d],
         label = "connect" => ends[c] = "none" /\ delay'[c] <= 8, label # "socket"
  PROVE  PortInv'
<1> USE PortNames
<1>1. /\ at' = [at EXCEPT ![c] = label] /\ UNCHANGED <<kind, sock, timewait, backlog, ends>>
  BY DEF O!CallerGoes
<1>2. /\ DOMAIN at' = Runs \cup Callers /\ at'[c] = label
      /\ \A p \in Runs \cup Callers : p # c => at'[p] = at[p]
  BY <1>1 DEF PortInv, O!TcpTypeOK
<1>3. \A r \in Runs : at'[r] = at[r]
  BY <1>2
<1>4. O!TcpTypeOK'
  BY <1>1, <1>2 DEF PortInv, O!TcpTypeOK
<1>5. PortSockets' /\ PortQueues'
  BY <1>1, <1>3 DEF PortInv, PortSockets, PortQueues
<1>6. PortKinds' /\ O!ConnectionsKept'
  BY <1>1, <1>3 DEF PortInv, PortKinds, O!ConnectionsKept, O!TcpTypeOK, O!Listeners
<1>7. PortCallers'
  BY <1>1, <1>2 DEF PortInv, PortCallers
<1> QED
  BY <1>4, <1>5, <1>6, <1>7 DEF PortInv

\* accept() of listenap.c.
LEMMA PortAccepts == ASSUME PortInv, NEW r \in Runs, O!PortAccept(r) PROVE PortInv'
<1> USE PortNames
<1> DEFINE c == Head(backlog[r])
<1>1. /\ at[r] = "accept" /\ backlog[r] # <<>> /\ at' = [at EXCEPT ![r] = "asks"]
      /\ backlog' = [backlog EXCEPT ![r] = Tail(backlog[r])]
      /\ ends' = [ends EXCEPT ![r] = c, ![c] = r] /\ UNCHANGED <<kind, sock, timewait, delay>>
  BY DEF O!PortAccept
<1>2. /\ Tail(backlog[r]) \in Seq(Callers) /\ Once(Tail(backlog[r]))
      /\ Among(Tail(backlog[r])) = Among(backlog[r]) \ {c}
      /\ c \in Callers /\ c \in Among(backlog[r])
  BY <1>1, TailOnce DEF PortInv, O!TcpTypeOK, PortQueues
<1>3. ends[c] = "queued" /\ c # r
  BY <1>2 DEF PortInv, PortQueues
<1> HIDE DEF c
<1>4. /\ at'[r] = "asks" /\ backlog'[r] = Tail(backlog[r]) /\ r \notin timewait
      /\ DOMAIN at' = Runs \cup Callers /\ DOMAIN ends' = Runs \cup Callers
      /\ ends'[r] = c /\ ends'[c] = r
      /\ \A p \in Runs \cup Callers : p # r => at'[p] = at[p]
      /\ \A p \in Runs \cup Callers : p # r /\ p # c => ends'[p] = ends[p]
      /\ \A s \in Runs : s # r => backlog'[s] = backlog[s]
  BY <1>1, <1>2, <1>3 DEF PortInv, O!TcpTypeOK, PortKinds, O!Ended
<1>5. \A s \in Runs : s # r => backlog[s] = <<>>
  BY <1>1 DEF PortInv, PortSockets
<1>6. O!TcpTypeOK'
  BY <1>1, <1>2, <1>4 DEF PortInv, O!TcpTypeOK
<1>7. PortSockets'
  BY <1>1, <1>4, <1>5 DEF PortInv, PortSockets, SockAt
<1>8. PortQueues'
  <2>1. \A d \in Among(backlog[r]) : d # c => ends'[d] = "queued"
    <3>1. Among(backlog[r]) \subseteq Callers
      BY AmongIn DEF PortInv, O!TcpTypeOK
    <3> QED
      BY <1>4, <3>1 DEF PortInv, PortQueues
  <2> QED
    BY <1>2, <1>4, <1>5, <2>1, EmptyOnce DEF PortQueues
<1>9. PortCallers'
  BY <1>1, <1>2, <1>3, <1>4 DEF PortInv, PortCallers
<1>10. PortKinds'
  BY <1>1, <1>2, <1>4 DEF PortInv, PortKinds, O!TcpTypeOK
<1>11. O!ConnectionsKept'
  <2>1. ASSUME NEW s \in Runs, ends'[s] \in Callers PROVE ends'[ends'[s]] = s
    <3>1. CASE s = r
      BY <1>2, <1>4, <3>1
    <3>2. CASE s # r
      <4>1. ends'[s] = ends[s] /\ ends[ends[s]] = s
        BY <1>2, <1>4, <2>1, <3>2 DEF PortInv, O!ConnectionsKept
      <4> QED
        BY <1>3, <1>4, <2>1, <4>1
    <3> QED
      BY <3>1, <3>2
  <2>2. ASSUME NEW d \in Callers, ends'[d] = "queued"
        PROVE  \E s \in O!Listeners' : O!Contains(backlog'[s], d)
    <3>1. ends[d] = "queued" /\ d # c
      BY <1>4, <2>2
    <3>2. PICK s \in O!Listeners : O!Contains(backlog[s], d)
      BY <3>1 DEF PortInv, O!ConnectionsKept
    <3>3. s = r /\ d \in Among(backlog[r])
      BY <1>5, <3>2 DEF Among, O!Contains, O!Listeners
    <3>4. d \in Among(backlog'[r])
      BY <1>2, <1>4, <3>1, <3>3
    <3>5. O!Contains(backlog'[r], d)
      BY <1>2, <1>4, <3>4 DEF Among, O!Contains
    <3> QED
      BY <1>1, <3>2, <3>3, <3>5 DEF O!Listeners
  <2> QED
    BY <2>1, <2>2 DEF O!ConnectionsKept
<1> QED
  BY <1>6, <1>7, <1>8, <1>9, <1>10, <1>11 DEF PortInv

\* connect() of connect.c with room in the queue of a listener.
LEMMA PortQueued ==
  ASSUME PortInv, NEW c \in Callers, at[c] = "connect", NEW r \in O!Listeners,
         backlog' = [backlog EXCEPT ![r] = Append(@, c)], ends' = [ends EXCEPT ![c] = "queued"],
         O!CallerGoes(c, "getsockname"), UNCHANGED delay
  PROVE  PortInv'
<1> USE PortNames
<1>1. r \in Runs /\ sock[r] = "listening"
  BY DEF O!Listeners
<1>2. at' = [at EXCEPT ![c] = "getsockname"] /\ UNCHANGED <<kind, sock, timewait>>
  BY DEF O!CallerGoes
<1>3. ends[c] = "none" /\ c \notin Among(backlog[r])
  BY <1>1 DEF PortInv, PortCallers, PortQueues
<1>4. /\ Append(backlog[r], c) \in Seq(Callers) /\ Once(Append(backlog[r], c))
      /\ Among(Append(backlog[r], c)) = Among(backlog[r]) \cup {c}
  BY <1>1, <1>3, AppendOnce DEF PortInv, O!TcpTypeOK, PortQueues
<1>5. /\ backlog'[r] = Append(backlog[r], c)
      /\ DOMAIN at' = Runs \cup Callers /\ DOMAIN ends' = Runs \cup Callers
      /\ at'[c] = "getsockname" /\ ends'[c] = "queued"
      /\ \A p \in Runs \cup Callers : p # c => at'[p] = at[p] /\ ends'[p] = ends[p]
      /\ \A s \in Runs : s # r => backlog'[s] = backlog[s]
  BY <1>1, <1>2, <1>4 DEF PortInv, O!TcpTypeOK
<1>6. \A s \in Runs : at'[s] = at[s] /\ ends'[s] = ends[s]
  BY <1>5
<1>7. \A s \in Runs : s # r => backlog[s] = <<>>
  BY <1>1 DEF PortInv, PortSockets
<1>8. O!TcpTypeOK'
  BY <1>1, <1>2, <1>4, <1>5 DEF PortInv, O!TcpTypeOK
<1>9. PortSockets'
  BY <1>1, <1>2, <1>5, <1>6 DEF PortInv, PortSockets
<1>10. PortQueues'
  <2>1. \A d \in Among(backlog[r]) : ends'[d] = "queued"
    <3>1. Among(backlog[r]) \subseteq Callers
      BY <1>1, AmongIn DEF PortInv, O!TcpTypeOK
    <3> QED
      BY <1>1, <1>5, <3>1 DEF PortInv, PortQueues
  <2> QED
    BY <1>4, <1>5, <1>7, <2>1, EmptyOnce DEF PortQueues
<1>11. PortCallers'
  BY <1>5 DEF PortInv, PortCallers
<1>12. PortKinds'
  BY <1>2, <1>6 DEF PortInv, PortKinds, O!TcpTypeOK
<1>13. O!ConnectionsKept'
  <2>1. ASSUME NEW s \in Runs, ends'[s] \in Callers PROVE ends'[ends'[s]] = s
    <3>1. ends'[s] = ends[s] /\ ends[ends[s]] = s
      BY <1>6, <2>1 DEF PortInv, O!ConnectionsKept
    <3>2. ends[s] # c
      BY <1>3, <3>1
    <3> QED
      BY <1>5, <2>1, <3>1, <3>2
  <2>2. ASSUME NEW d \in Callers, ends'[d] = "queued"
        PROVE  \E s \in O!Listeners' : O!Contains(backlog'[s], d)
    <3>1. d \in Among(backlog'[r])
      <4>1. CASE d = c
        BY <1>4, <1>5, <4>1
      <4>2. CASE d # c
        <5>1. ends[d] = "queued"
          BY <1>5, <2>2, <4>2
        <5>2. PICK s \in O!Listeners : O!Contains(backlog[s], d)
          BY <5>1 DEF PortInv, O!ConnectionsKept
        <5>3. d \in Among(backlog[r])
          BY <1>7, <5>2 DEF Among, O!Contains, O!Listeners
        <5> QED
          BY <1>4, <1>5, <5>3
      <4> QED
        BY <4>1, <4>2
    <3>2. O!Contains(backlog'[r], d)
      BY <1>4, <1>5, <3>1 DEF Among, O!Contains
    <3> QED
      BY <1>1, <1>2, <3>2 DEF O!Listeners
  <2> QED
    BY <2>1, <2>2 DEF O!ConnectionsKept
<1> QED
  BY <1>8, <1>9, <1>10, <1>11, <1>12, <1>13 DEF PortInv

\* Every step on the port keeps its invariant.
LEMMA PortStep == PortInv /\ O!TcpNext => PortInv'
<1> SUFFICES ASSUME PortInv, O!TcpNext PROVE PortInv'
  OBVIOUS
<1> USE PortNames
<1>1. ASSUME NEW r \in Runs, O!Serve(r) PROVE PortInv'
  <2>0. /\ at[r] \in DOMAIN SockAt /\ sock[r] \in SockAt[at[r]] /\ kind[r] \in O!Programs
        /\ O!Ended = {"exit0", "exit1", "killed"}
    BY DEF PortInv, PortSockets, O!TcpTypeOK, O!Ended
  <2>1. CASE O!Socket(r)
    <3>1. CASE O!End(r, "exit1")
      BY <2>0, <2>1, <3>1, PortEnds DEF O!Socket
    <3>2. CASE O!Goto(r, "bind") /\ sock' = [sock EXCEPT ![r] = "open"] /\ UNCHANGED backlog
      <4>1. at[r] = "socket" /\ sock[r] = "none" /\ "bind" \in DOMAIN SockAt /\ "open" \in SockAt["bind"]
        BY <2>0, <2>1 DEF O!Socket, SockAt
      <4> QED
        BY <2>0, <3>2, <4>1, PortMoves
    <3> QED
      BY <2>1, <3>1, <3>2 DEF O!Socket
  <2>2. CASE O!Bind(r)
    <3>0. at[r] = "bind" /\ sock[r] = "open"
      BY <2>0, <2>2 DEF O!Bind, SockAt
    <3>1. CASE O!End(r, "exit1")
      BY <2>0, <3>0, <3>1, PortEnds
    <3>2. CASE /\ O!Goto(r, IF kind[r] = "bind" THEN "asks" ELSE "listen")
               /\ sock' = [sock EXCEPT ![r] = "bound"] /\ UNCHANGED backlog
      <4>1. \A l \in {"asks", "listen"} : l \in DOMAIN SockAt /\ "bound" \in SockAt[l]
        BY DEF SockAt
      <4>2. PICK l \in {"asks", "listen"} : O!Goto(r, l)
        BY <3>2
      <4> QED
        BY <2>0, <3>0, <3>2, <4>1, <4>2, PortMoves
    <3> QED
      BY <2>2, <3>1, <3>2 DEF O!Bind
  <2>3. CASE O!PortListen(r)
    <3>0. at[r] = "listen" /\ sock[r] = "bound"
      BY <2>0, <2>3 DEF O!PortListen, SockAt
    <3>1. CASE O!End(r, "exit1")
      BY <2>0, <3>0, <3>1, PortEnds
    <3>2. CASE /\ O!Listeners = {}
               /\ O!Goto(r, IF kind[r] = "listenap" THEN "accept" ELSE "asks")
               /\ sock' = [sock EXCEPT ![r] = "listening"] /\ UNCHANGED backlog
      <4>1. \A l \in {"accept", "asks"} : l \in DOMAIN SockAt /\ "listening" \in SockAt[l]
        BY DEF SockAt
      <4>2. PICK l \in {"accept", "asks"} : O!Goto(r, l) /\ (l = "accept" => kind[r] = "listenap")
        BY <3>2
      <4> QED
        BY <2>0, <3>0, <3>2, <4>1, <4>2, PortMoves
    <3> QED
      BY <2>3, <3>1, <3>2 DEF O!PortListen
  <2>4. CASE O!PortAccept(r)
    BY <2>4, PortAccepts
  <2>5. CASE O!Asks(r)
    BY <2>0, <2>5, PortEnds DEF O!Asks, O!Getsockopts, O!BoundName, O!PeerName
  <2> QED
    BY <1>1, <2>1, <2>2, <2>3, <2>4, <2>5 DEF O!Serve
<1>2. ASSUME NEW r \in Runs, O!Killed(r) PROVE PortInv'
  BY <1>2, PortEnds DEF O!Killed, O!Ended
<1>3. ASSUME NEW c \in Callers, O!Caller(c) PROVE PortInv'
  <2>0. delay \in [Callers -> {1, 2, 4, 8, 16}]
    BY DEF PortInv, O!TcpTypeOK
  <2>1. CASE O!Call(c)
    <3>1. ends[c] = "none"
      BY <2>1 DEF O!Call, PortInv, PortCallers
    <3>2. UNCHANGED <<backlog, ends, delay>> /\ \E label \in {"connect", "exit1"} : O!CallerGoes(c, label)
      BY <2>1 DEF O!Call
    <3>3. PICK label \in {"connect", "exit1"} : O!CallerGoes(c, label)
      BY <3>2
    <3>4. delay[c] <= 8
      BY <2>1 DEF O!Call, PortInv, PortCallers
    <3> QED
      BY <2>0, <3>1, <3>2, <3>3, <3>4, CallerMoves
  <2>2. CASE O!PortConnect(c)
    <3>0. at[c] = "connect" /\ ends[c] = "none" /\ delay[c] \in {1, 2, 4, 8}
      BY <2>0, <2>2 DEF O!PortConnect, PortInv, PortCallers
    <3>1. CASE \E r \in O!Listeners :
                  /\ backlog' = [backlog EXCEPT ![r] = Append(@, c)]
                  /\ ends' = [ends EXCEPT ![c] = "queued"]
                  /\ O!CallerGoes(c, "getsockname") /\ UNCHANGED delay
      BY <3>0, <3>1, PortQueued
    <3>2. CASE /\ delay' = [delay EXCEPT ![c] = 2 * @]
               /\ O!CallerGoes(c, IF 2 * delay[c] > O!MaxSleep THEN "exit1" ELSE "connect")
               /\ UNCHANGED <<backlog, ends>>
      <4>1. /\ delay' \in [Callers -> {1, 2, 4, 8, 16}] /\ delay'[c] = 2 * delay[c]
            /\ \A d \in Callers : d # c => delay'[d] = delay[d]
        BY <2>0, <3>0, <3>2
      <4>2. PICK label \in {"exit1", "connect"} :
              O!CallerGoes(c, label) /\ (label = "connect" => delay'[c] <= 8)
        BY <3>0, <3>2, <4>1 DEF O!MaxSleep
      <4> QED
        BY <3>0, <3>2, <4>1, <4>2, CallerMoves
    <3> QED
      BY <2>2, <3>1, <3>2 DEF O!PortConnect
  <2>3. CASE O!Getsockname(c)
    BY <2>0, <2>3, CallerMoves DEF O!Getsockname
  <2>4. CASE O!Getpeername(c)
    <3>1. PICK label \in {"exit0", "exit1"} : O!CallerGoes(c, label)
      BY <2>4 DEF O!Getpeername
    <3> QED
      BY <2>0, <2>4, <3>1, CallerMoves DEF O!Getpeername
  <2> QED
    BY <1>3, <2>1, <2>2, <2>3, <2>4 DEF O!Caller
<1>4. CASE O!Forget
  <2>1. timewait' \subseteq timewait /\ UNCHANGED <<kind, at, sock, backlog, ends, delay>>
    BY <1>4 DEF O!Forget
  <2>2. O!TcpTypeOK'
    BY <2>1 DEF PortInv, O!TcpTypeOK
  <2>3. PortSockets' /\ PortQueues' /\ PortCallers' /\ PortKinds'
    BY <2>1 DEF PortInv, PortSockets, PortQueues, PortCallers, PortKinds
  <2>4. O!ConnectionsKept'
    BY <2>1 DEF PortInv, O!ConnectionsKept, O!Listeners
  <2> QED
    BY <2>2, <2>3, <2>4 DEF PortInv
<1> QED
  BY <1>1, <1>2, <1>3, <1>4 DEF O!TcpNext

\* What a step that ends a run in exit1 has met.
LEMMA PortRefuses == PortInv /\ O!TcpNext => O!RefusedForCause
<1> SUFFICES ASSUME PortInv, O!TcpNext, NEW r \in Runs, at[r] \in {"bind", "listen"}, at'[r] = "exit1"
             PROVE  \/ \E o \in Runs \ {r} : sock[o] \in {"bound", "listening"}
                    \/ \E o \in timewait : at[o] \in O!Ended /\ kind[o] = "listenap"
  BY DEF O!RefusedForCause
<1> USE PortNames
<1>0. DOMAIN at = Runs \cup Callers /\ sock[r] \in {"open", "bound"}
  BY DEF PortInv, PortSockets, SockAt, O!TcpTypeOK
<1>1. O!Serve(r) \/ O!Killed(r)
  <2>1. ASSUME NEW s \in Runs, O!Serve(s) \/ O!Killed(s) PROVE s = r
    <3>1. \E label : at' = [at EXCEPT ![s] = label]
      BY <2>1 DEF O!Serve, O!Killed, O!Socket, O!Bind, O!PortListen, O!PortAccept, O!Asks,
                  O!Getsockopts, O!BoundName, O!PeerName, O!End, O!Goto
    <3> QED
      BY <1>0, <3>1
  <2>2. ASSUME NEW c \in Callers, O!Caller(c) PROVE FALSE
    <3>1. \E label : at' = [at EXCEPT ![c] = label]
      BY <2>2 DEF O!Caller, O!Call, O!PortConnect, O!Getsockname, O!Getpeername, O!CallerGoes
    <3> QED
      BY <1>0, <3>1
  <2>3. ~O!Forget
    BY DEF O!Forget
  <2> QED
    BY <2>1, <2>2, <2>3 DEF O!TcpNext
<1>2. ~O!Killed(r)
  BY <1>0 DEF O!Killed, O!End
<1>3. O!Bind(r) \/ O!PortListen(r)
  BY <1>1, <1>2 DEF O!Serve, O!Socket, O!PortAccept, O!Asks
<1>4. CASE O!Bind(r)
  <2>1. O!InTheWay(r) # {} \/ timewait # {}
    BY <1>0, <1>4 DEF O!Bind, O!Goto
  <2> QED
    BY <2>1 DEF O!InTheWay, PortInv, PortKinds
<1>5. CASE O!PortListen(r)
  <2>1. O!Listeners # {}
    BY <1>0, <1>5 DEF O!PortListen, O!Goto
  <2> QED
    BY <1>0, <2>1, <1>5 DEF O!Listeners
<1> QED
  BY <1>3, <1>4, <1>5

\* A caller fails after its last try, or when nobody has accepted it.
LEMMA CallersFail == PortInv /\ O!TcpNext => O!FailsForCause
<1> SUFFICES ASSUME PortInv, O!TcpNext, NEW c \in Callers, at[c] # "exit1", at'[c] = "exit1"
             PROVE  \/ at[c] = "socket"
                    \/ at[c] = "connect" /\ delay[c] = 8
                    \/ at[c] = "getpeername" /\ \A r \in Runs : ends[r] # c
  BY DEF O!FailsForCause
<1> USE PortNames
<1>0. DOMAIN at = Runs \cup Callers /\ delay \in [Callers -> {1, 2, 4, 8, 16}]
  BY DEF PortInv, O!TcpTypeOK
<1>1. O!Caller(c)
  <2>1. ASSUME NEW s \in Runs, O!Serve(s) \/ O!Killed(s) PROVE FALSE
    <3>1. \E label : at' = [at EXCEPT ![s] = label]
      BY <2>1 DEF O!Serve, O!Killed, O!Socket, O!Bind, O!PortListen, O!PortAccept, O!Asks,
                  O!Getsockopts, O!BoundName, O!PeerName, O!End, O!Goto
    <3> QED
      BY <1>0, <3>1
  <2>2. ASSUME NEW d \in Callers, O!Caller(d) PROVE d = c
    <3>1. \E label : at' = [at EXCEPT ![d] = label]
      BY <2>2 DEF O!Caller, O!Call, O!PortConnect, O!Getsockname, O!Getpeername, O!CallerGoes
    <3> QED
      BY <1>0, <3>1
  <2>3. ~O!Forget
    BY DEF O!Forget
  <2> QED
    BY <2>1, <2>2, <2>3 DEF O!TcpNext
<1>2. CASE O!Call(c)
  BY <1>2 DEF O!Call
<1>3. CASE O!PortConnect(c)
  <2>1. at[c] = "connect" /\ delay[c] \in {1, 2, 4, 8}
    BY <1>0, <1>3 DEF O!PortConnect, PortInv, PortCallers
  <2>2. 2 * delay[c] > 8
    BY <1>0, <1>3 DEF O!PortConnect, O!CallerGoes, O!MaxSleep
  <2> QED
    BY <2>1, <2>2
<1>4. CASE O!Getsockname(c)
  BY <1>0, <1>4 DEF O!Getsockname, O!CallerGoes
<1>5. CASE O!Getpeername(c)
  <2>1. at[c] = "getpeername" /\ ends[c] = "reset"
    BY <1>0, <1>5 DEF O!Getpeername, O!CallerGoes
  <2> QED
    BY <2>1 DEF PortInv, O!ConnectionsKept
<1> QED
  BY <1>1, <1>2, <1>3, <1>4, <1>5 DEF O!Caller

\* The invariant of the port says what the run checks.
LEMMA PortListed == PortInv => O!TcpTypeOK /\ O!ConnectionsKept /\ O!OneListener
<1> SUFFICES ASSUME PortInv PROVE O!TcpTypeOK /\ O!ConnectionsKept /\ O!OneListener
  OBVIOUS
<1>1. O!Listeners = {} \/ \E r \in Runs : O!Listeners = {r}
  BY DEF PortInv, PortSockets, O!Listeners
<1>2. Cardinality(O!Listeners) <= 1
  <2>1. CASE O!Listeners = {}
    BY <2>1, FS_EmptySet
  <2>2. ASSUME NEW r \in Runs, O!Listeners = {r} PROVE Cardinality(O!Listeners) <= 1
    <3>1. Cardinality({r}) = 1
      BY FS_Singleton
    <3> QED
      BY <2>2, <3>1
  <2> QED
    BY <1>1, <2>1, <2>2
<1>3. O!Cardinality(O!Listeners) = Cardinality(O!Listeners)
  BY DEF O!Cardinality, Cardinality
<1> QED
  BY <1>2, <1>3 DEF PortInv, O!OneListener

------------------------------------------------------------------------------
(* nameing.c *)

\* A run that has bound the name and not removed it is the one that made it.
NameInv == /\ name \in Runs \cup {"free"} /\ DOMAIN names = Runs
           /\ O!NameOfOwner
           /\ \A r \in Runs : names[r] \in {"open", "unlink"} => name = r

\* nameing.c begins with no name.
LEMMA NameInit == O!NameInit => NameInv
BY DEF O!NameInit, NameInv, O!NameOfOwner

\* Every step of nameing.c keeps its invariant, and is refused or unlinks for cause.
LEMMA NameStep == NameInv /\ O!NameNext => NameInv' /\ O!UnlinksOwn /\ O!NameRefusedForCause
<1> SUFFICES ASSUME NameInv, O!NameNext
             PROVE  NameInv' /\ O!UnlinksOwn /\ O!NameRefusedForCause
  OBVIOUS
<1> USE DEF NameInv, O!NameOfOwner, O!UnlinksOwn, O!NameRefusedForCause, O!NameGoes
<1>1. PICK r \in Runs : O!NameStep(r) \/ O!NameKilled(r)
  BY DEF O!NameNext
<1>2. "free" \notin Runs
  BY NetworkAssumption
<1>3. CASE O!NameSocket(r)
  BY <1>2, <1>3 DEF O!NameSocket
<1>4. CASE O!NameBind(r)
  BY <1>2, <1>4 DEF O!NameBind
<1>5. CASE O!NameOpen(r)
  BY <1>2, <1>5 DEF O!NameOpen
<1>6. CASE O!NameUnlink(r)
  BY <1>2, <1>6 DEF O!NameUnlink
<1>7. CASE O!NameKilled(r)
  BY <1>2, <1>7 DEF O!NameKilled, O!Ended
<1> QED
  BY <1>1, <1>3, <1>4, <1>5, <1>6, <1>7 DEF O!NameStep

\* The invariant of nameing.c says what the run checks.
LEMMA NameListed == NameInv => O!NameTypeOK /\ O!NameOfOwner
BY DEF NameInv, O!NameTypeOK

------------------------------------------------------------------------------
(* 4-passing *)

\* Receivers that were sent the two bytes.
Told == {c \in Receivers : inbox[c] = "bytes"}
\* Those that wait are connected, have been told nothing and are not the one that
\* is served.
PassInv ==
  /\ O!PassTypeOK
  /\ DOMAIN rcv = Receivers
  /\ \A c \in Among(waiting) : rcv[c] = "recvmsg" /\ inbox[c] = "empty" /\ c # served
  /\ Once(waiting)
  /\ \A c \in Receivers : rcv[c] \in {"socket", "connect"} => inbox[c] = "empty" /\ served # c
  /\ \A c \in Receivers : rcv[c] \in {"recvmsg", "exit0"} => fd[c] = "open"
  /\ server \in {"open", "send_fd"} => served # "none"
  /\ \A c \in Receivers : newfd[c] = "undefined" => inbox[c] = "bytes"
\* A start serves one receiver.
PassCount ==
  /\ IsFiniteSet(Told)
  /\ Cardinality(Told)
     + (IF server \in {"addrinfo", "initserver", "accept", "open", "send_fd"} THEN 1 ELSE 0) <= serves

\* 4-passing begins with nobody served.
LEMMA PassInit == O!PassInit => PassInv /\ PassCount
<1> SUFFICES ASSUME O!PassInit PROVE PassInv /\ PassCount
  OBVIOUS
<1> USE NetworkAssumption DEF O!PassInit
<1>1. Told = {}
  BY DEF Told
<1>2. PassCount
  BY <1>1, FS_EmptySet DEF PassCount
<1>3. PassInv
  BY EmptyOnce DEF PassInv, O!PassTypeOK
<1> QED
  BY <1>2, <1>3

\* PassServerEnds.
LEMMA PassEnds ==
  ASSUME PassInv, PassCount, NEW how, how \in O!ServerEnded, O!PassServerEnds(how), UNCHANGED <<rcv, try, fd, newfd>>
  PROVE  PassInv' /\ PassCount'
<1> USE DEF PassInv, O!PassTypeOK, O!PassServerEnds, O!ServerEnded
<1>1. waiting' = <<>> /\ Among(waiting') = {} /\ Once(waiting')
  BY EmptyOnce
<1>2. ASSUME NEW c \in Receivers, rcv[c] \in {"socket", "connect"}
      PROVE  inbox'[c] = inbox[c]
  <2>1. c \notin Among(waiting) /\ c # served
    BY <1>2
  <2>2. ~O!Contains(waiting, c)
    BY <2>1 DEF O!Contains, Among
  <2> QED
    BY <2>1, <2>2
<1>3. ASSUME NEW c \in Receivers PROVE inbox[c] = "bytes" <=> inbox'[c] = "bytes"
  <2>1. O!Contains(waiting, c) => c \in Among(waiting)
    BY DEF O!Contains, Among
  <2> QED
    BY <2>1
<1>4. Told' = Told
  BY <1>3 DEF Told
<1>5. PassCount'
  <2>1. /\ Cardinality(Told) \in Nat /\ serves \in Nat /\ serves' = serves
        /\ server' \in {"down", "exit0", "exit1", "killed"}
    BY FS_CardinalityType, NetworkAssumption DEF PassCount
  <2>2. Cardinality(Told) <= serves
    BY <2>1 DEF PassCount
  <2> QED
    BY <1>4, <2>1, <2>2 DEF PassCount
<1>6. PassInv'
  BY <1>1, <1>2, <1>3
<1> QED
  BY <1>5, <1>6

\* Every step of 4-passing keeps its invariant.
LEMMA PassStep == PassInv /\ PassCount /\ O!PassNext => PassInv' /\ PassCount'
<1> SUFFICES ASSUME PassInv, PassCount, O!PassNext PROVE PassInv' /\ PassCount'
  OBVIOUS
<1>0. /\ Cardinality(Told) \in Nat /\ serves \in Nat /\ MaxServes \in Nat /\ Addresses \in Nat
      /\ "none" \notin Receivers
  BY FS_CardinalityType, NetworkAssumption DEF PassCount, PassInv, O!PassTypeOK
<1>1. CASE O!Start
  <2>1. PassInv'
    <3>1. Among(waiting) \subseteq Receivers
      BY AmongIn DEF PassInv, O!PassTypeOK
    <3> QED
      BY <1>0, <1>1, <3>1 DEF O!Start, O!ServerEnded, O!receiveVars, PassInv, O!PassTypeOK
  <2>2. Told' = Told /\ serves' = serves + 1 /\ server \in O!ServerEnded
    BY <1>1 DEF O!Start, Told
  <2>3. PassCount'
    BY <1>0, <2>2 DEF PassCount, O!ServerEnded
  <2> QED
    BY <2>1, <2>3
<1>2. CASE O!SendServer
  <2>0. UNCHANGED O!receiveVars
    BY <1>2 DEF O!SendServer
  <2>1. CASE O!AddrInfo
    <3>1. CASE O!PassServerEnds("exit1")
      BY <2>0, <3>1, PassEnds DEF O!receiveVars, O!ServerEnded
    <3>2. CASE O!ServerGoes("initserver") /\ UNCHANGED <<address, served>>
      BY <1>0, <2>0, <2>1, <3>2
      DEF O!AddrInfo, O!ServerGoes, O!receiveVars, PassInv, PassCount, Told, O!PassTypeOK
    <3> QED
      BY <2>1, <3>1, <3>2 DEF O!AddrInfo
  <2>2. CASE O!InitServer
    <3>1. /\ UNCHANGED <<waiting, inbox, serves, served, rcv, try, fd, newfd>>
          /\ server = "initserver" /\ server' \in {"accept", "exit0", "initserver"}
      BY <2>0, <2>2 DEF O!InitServer, O!ServerGoes, O!receiveVars
    <3>2. address' \in 1..Addresses
      BY <1>0, <2>2 DEF O!InitServer, PassInv, O!PassTypeOK
    <3>3. PassInv'
      BY <3>1, <3>2 DEF PassInv, O!PassTypeOK
    <3>4. Told' = Told
      BY <3>1 DEF Told
    <3> QED
      BY <1>0, <3>1, <3>3, <3>4 DEF PassCount
  <2>3. CASE O!ServeAccept
    <3>1. /\ server = "accept" /\ waiting # <<>> /\ server' = "open" /\ served' = Head(waiting)
          /\ waiting' = Tail(waiting) /\ UNCHANGED <<address, serves, inbox, rcv, try, fd, newfd>>
      BY <2>0, <2>3 DEF O!ServeAccept, O!receiveVars
    <3>2. /\ waiting' \in Seq(Receivers) /\ Once(waiting')
          /\ Among(waiting') = Among(waiting) \ {served'}
          /\ served' \in Receivers /\ served' \in Among(waiting)
      BY <3>1, TailOnce DEF PassInv, O!PassTypeOK
    <3>3. PassInv'
      BY <1>0, <3>1, <3>2 DEF PassInv, O!PassTypeOK
    <3>4. Told' = Told
      BY <3>1 DEF Told
    <3> QED
      BY <1>0, <3>1, <3>3, <3>4 DEF PassCount
  <2>4. CASE O!OpenFile
    <3>1. CASE O!PassServerEnds("exit1")
      BY <2>0, <3>1, PassEnds DEF O!receiveVars, O!ServerEnded
    <3>2. CASE O!ServerGoes("send_fd") /\ UNCHANGED <<address, served>>
      BY <1>0, <2>0, <2>4, <3>2
      DEF O!OpenFile, O!ServerGoes, O!receiveVars, PassInv, PassCount, Told, O!PassTypeOK
    <3> QED
      BY <2>4, <3>1, <3>2 DEF O!OpenFile
  <2>5. CASE O!SendFd
    <3>1. CASE O!PassServerEnds("exit0")
      BY <2>0, <3>1, PassEnds DEF O!receiveVars, O!ServerEnded
    <3>2. CASE /\ inbox' = [inbox EXCEPT ![served] = "bytes"] /\ server' = "return"
               /\ UNCHANGED <<waiting, address, served, serves>>
      <4>1. served \in Receivers /\ server = "send_fd"
        BY <2>5 DEF O!SendFd, PassInv, O!PassTypeOK
      <4>2. Told' \subseteq Told \cup {served}
        BY <3>2 DEF Told, PassInv, O!PassTypeOK
      <4>3. IsFiniteSet(Told') /\ Cardinality(Told') \in Nat /\ Cardinality(Told') <= Cardinality(Told) + 1
        BY <4>2, OneMore DEF PassCount
      <4>4. PassCount'
        BY <1>0, <3>2, <4>1, <4>3 DEF PassCount
      <4>5. PassInv'
        BY <2>0, <3>2, <4>1 DEF O!receiveVars, PassInv, O!PassTypeOK
      <4> QED
        BY <4>4, <4>5
    <3> QED
      BY <2>5, <3>1, <3>2 DEF O!SendFd
  <2>6. CASE O!Return
    BY <2>0, <2>6, PassEnds DEF O!Return, O!receiveVars, O!ServerEnded
  <2> QED
    BY <1>2, <2>1, <2>2, <2>3, <2>4, <2>5, <2>6 DEF O!SendServer
<1>3. CASE O!ServerKilled /\ UNCHANGED O!receiveVars
  BY <1>3, PassEnds DEF O!ServerKilled, O!receiveVars, O!ServerEnded
<1>4. ASSUME NEW c \in Receivers, O!PassReceive(c) PROVE PassInv' /\ PassCount'
  <2>0. UNCHANGED O!serverVars
    BY <1>4 DEF O!PassReceive
  <2>c. PassInv' => PassInv' /\ PassCount'
    <3>1. inbox' = inbox /\ UNCHANGED <<server, serves>>
      BY <1>4 DEF O!PassReceive, O!NewSocket, O!ConnectRetry, O!Recvmsg, O!serverVars
    <3>2. Told' = Told
      BY <3>1 DEF Told
    <3> QED
      BY <3>1, <3>2 DEF PassCount
  <2>1. CASE O!NewSocket(c)
    <3>1. PassInv'
      BY <2>0, <2>1 DEF O!NewSocket, O!serverVars, PassInv, O!PassTypeOK
    <3> QED
      BY <2>c, <3>1
  <2>2. CASE O!ConnectRetry(c)
    <3>0. rcv[c] = "connect" /\ UNCHANGED <<fd, newfd, inbox, server, address, served, serves>>
      BY <2>0, <2>2 DEF O!ConnectRetry, O!serverVars
    <3>1. c \notin Among(waiting) /\ inbox[c] = "empty" /\ served # c
      BY <3>0 DEF PassInv
    <3>2. CASE fd[c] = "open" /\ rcv' = [rcv EXCEPT ![c] = "recvmsg"] /\ waiting' = Append(waiting, c)
      <4>1. /\ waiting' \in Seq(Receivers) /\ Once(waiting')
            /\ Among(waiting') = Among(waiting) \cup {c}
        BY <3>1, <3>2, AppendOnce DEF PassInv, O!PassTypeOK
      <4>2. PassInv'
        BY <3>0, <3>1, <3>2, <4>1 DEF PassInv, O!PassTypeOK
      <4> QED
        BY <2>c, <4>2
    <3>3. CASE waiting' = waiting /\ (rcv' = rcv \/ O!NextAddress(c))
      <4>0. \/ rcv' = rcv
            \/ \E w \in {"exit1", "socket"} : rcv' = [rcv EXCEPT ![c] = w]
        BY <3>3 DEF O!NextAddress
      <4>1. PassInv'
        <5>1. CASE rcv' = rcv
          BY <3>0, <3>3, <5>1 DEF PassInv, O!PassTypeOK
        <5>2. ASSUME NEW w \in {"exit1", "socket"}, rcv' = [rcv EXCEPT ![c] = w] PROVE PassInv'
          <6>1. DOMAIN rcv' = Receivers /\ rcv'[c] = w /\ \A d \in Receivers \ {c} : rcv'[d] = rcv[d]
            BY <5>2 DEF PassInv
          <6>2. Among(waiting) \subseteq Receivers
            BY AmongIn DEF PassInv, O!PassTypeOK
          <6> QED
            BY <3>0, <3>1, <3>3, <6>1, <6>2 DEF PassInv, O!PassTypeOK
        <5> QED
          BY <4>0, <5>1, <5>2
      <4> QED
        BY <2>c, <4>1
    <3> QED
      BY <2>2, <3>2, <3>3 DEF O!ConnectRetry
  <2>3. CASE O!Recvmsg(c)
    <3>1. PassInv'
      BY <2>0, <2>3 DEF O!Recvmsg, O!serverVars, PassInv, O!PassTypeOK
    <3> QED
      BY <2>c, <3>1
  <2> QED
    BY <1>4, <2>1, <2>2, <2>3 DEF O!PassReceive
<1> QED
  BY <1>1, <1>2, <1>3, <1>4 DEF O!PassNext

\* The invariant of 4-passing says what the run checks.
LEMMA PassListed == PassInv /\ PassCount => O!PassTypeOK /\ O!TakenFromMessage /\ O!ServesOne
<1> SUFFICES ASSUME PassInv, PassCount PROVE O!PassTypeOK /\ O!TakenFromMessage /\ O!ServesOne
  OBVIOUS
<1>1. O!ServesOne
  <2>1. Cardinality(Told) \in Nat /\ serves \in Nat
    BY FS_CardinalityType DEF PassCount, PassInv, O!PassTypeOK
  <2>2. Cardinality(Told) <= serves
    BY <2>1 DEF PassCount
  <2>3. \A X : O!Cardinality(X) = Cardinality(X)
    BY DEF O!Cardinality, Cardinality
  <2> QED
    BY <2>2, <2>3 DEF O!ServesOne, Told
<1> QED
  BY <1>1 DEF PassInv, O!TakenFromMessage

------------------------------------------------------------------------------
(* All of them *)

\* The invariant of the program that runs.
IInv ==
  /\ prog \in {"sendrecv", "othersrv", "connless", "oobdata", "port", "nameing", "passing"}
  /\ prog = "sendrecv" => ServerInv /\ ServerCount
  /\ prog = "othersrv" => ForkInv
  /\ prog = "connless" => DatagramInv /\ DatagramCount
  /\ prog = "oobdata" => OobInv
  /\ prog = "port" => PortInv
  /\ prog = "nameing" => NameInv
  /\ prog = "passing" => PassInv /\ PassCount

\* The invariants say what the runs check of each program.
LEMMA Listed == IInv => TypeOK /\ AnswersReachClients /\ NothingLeftOver
<1> SUFFICES ASSUME IInv PROVE TypeOK /\ AnswersReachClients /\ NothingLeftOver
  OBVIOUS
<1> USE ServerListed, ForkListed, DatagramListed, OobListed, PortListed, NameListed, PassListed
<1>1. prog = "sendrecv" => S!TypeOK /\ S!WholeAnswer /\ S!OneAnswerPerStart
  BY DEF IInv
<1>2. prog = "othersrv" => F!TypeOK /\ F!OneConnection /\ F!ZombiesAwaited
  BY DEF IInv
<1>3. prog = "connless" =>
        D!TypeOK /\ D!AnsweredRequesters /\ D!OneClientPerStart /\ D!NoStrayAlarm
  BY DEF IInv
<1>4. prog = "oobdata" =>
        O!OobTypeOK /\ O!StreamWritten /\ O!UrgentSeen /\ O!HandlerFindsUrgent
  BY DEF IInv
<1>5. prog = "port" => O!TcpTypeOK /\ O!ConnectionsKept /\ O!OneListener
  BY DEF IInv
<1>6. prog = "nameing" => O!NameTypeOK /\ O!NameOfOwner
  BY DEF IInv
<1>7. prog = "passing" => O!PassTypeOK /\ O!TakenFromMessage /\ O!ServesOne
  BY DEF IInv
<1>8. prog \in {"sendrecv", "othersrv", "connless", "oobdata", "port", "nameing", "passing"}
  BY DEF IInv
<1>9. TypeOK
  BY <1>1, <1>2, <1>3, <1>4, <1>5, <1>6, <1>7, <1>8 DEF TypeOK
<1>10. AnswersReachClients /\ NothingLeftOver
  BY <1>1, <1>2, <1>3, <1>4, <1>5, <1>6, <1>7 DEF AnswersReachClients, NothingLeftOver
<1> QED
  BY <1>9, <1>10

\* Each program begins where its invariant holds, and the others do not run.
LEMMA Initially == Init => IInv
<1> SUFFICES ASSUME Init PROVE IInv
  OBVIOUS
<1> USE ServerInit, ForkInit, DatagramInit, OobInitial, PortInit, NameInit, PassInit
<1>1. OobInv /\ NameInv /\ PassInv /\ PassCount
  BY DEF Init
<1>2. prog \in {"sendrecv", "othersrv", "connless", "oobdata", "port", "nameing", "passing"}
  BY DEF Init
<1>3. prog = "port" => PortInv
  BY DEF Init
<1>4. prog = "sendrecv" => ServerInv /\ ServerCount
  BY DEF Init
<1>5. prog = "othersrv" => ForkInv
  BY DEF Init
<1>6. prog = "connless" => DatagramInv /\ DatagramCount
  BY DEF Init
<1> QED
  BY <1>1, <1>2, <1>3, <1>4, <1>5, <1>6 DEF IInv

\* A step is one of the program that runs, and keeps its invariant.
LEMMA Inductive == IInv /\ [Next]_vars => IInv'
<1> SUFFICES ASSUME IInv, [Next]_vars PROVE IInv'
  OBVIOUS
<1>1. CASE InServer(S!Next)
  BY <1>1, ServerStep DEF IInv, InServer, InUptime
<1>2. CASE InFork(F!Next)
  BY <1>2, ForkStep DEF IInv, InFork, InUptime
<1>3. CASE InDatagram(D!Next)
  BY <1>3, DatagramStep DEF IInv, InDatagram, InUptime
<1>4. CASE InOob(O!OobNext)
  BY <1>4, OobStep DEF IInv, InOob
<1>5. CASE InPort(O!TcpNext)
  BY <1>5, PortStep DEF IInv, InPort
<1>6. CASE InName(O!NameNext)
  BY <1>6, NameStep DEF IInv, InName
<1>7. CASE InPass(O!PassNext)
  BY <1>7, PassStep DEF IInv, InPass
<1>8. CASE UNCHANGED vars
  <2> USE <1>8 DEF vars
  <2>1. ServerInv => ServerInv'
    BY DEF uptimeVars, tcpVars, ServerInv, ServerConns, S!TypeOK, S!ClientTypeOK, S!WholeAnswer, S!At
  <2>2. ServerCount => ServerCount'
    <3>1. Answered' = Answered
      BY DEF uptimeVars, tcpVars, Answered
    <3> QED
      BY <3>1 DEF uptimeVars, ServerCount
  <2>3. ForkInv => ForkInv'
    BY DEF uptimeVars, tcpVars, forkVars, ForkInv, ForkProcs, ForkConns, F!TypeOK,
           F!ClientTypeOK, F!Alive, F!ZombiesAwaited
  <2>4. DatagramInv => DatagramInv'
    BY DEF uptimeVars, udpVars, DatagramInv, D!TypeOK
  <2>5. DatagramCount => DatagramCount'
    <3>1. DServed' = DServed
      BY DEF uptimeVars, udpVars, DServed
    <3> QED
      BY <3>1 DEF uptimeVars, DatagramCount
  <2>6. OobInv => OobInv'
    <3>1. Received' = Received
      BY DEF oobVars, Received
    <3> HIDE DEF Received
    <3>2. OobTypes => OobTypes'
      BY DEF oobVars, OobTypes
    <3>3. (OobFlags => OobFlags') /\ (OobSteps => OobSteps')
      BY DEF oobVars, OobFlags, OobSteps, O!Seen
    <3>4. OobWire => OobWire'
      BY <3>1 DEF oobVars, OobWire
    <3>5. OobOrder => OobOrder'
      BY <3>1 DEF oobVars, OobOrder, Held
    <3>6. LastTaken' <=> LastTaken
      BY <3>1 DEF oobVars, LastTaken, O!Seen
    <3>7. OobKept => OobKept'
      BY <3>1, <3>6 DEF oobVars, OobKept, Noticed, Held, O!Seen
    <3> QED
      BY <3>2, <3>3, <3>4, <3>5, <3>7 DEF OobInv
  <2>7. PortInv => PortInv'
    BY DEF portVars, PortInv, PortSockets, PortQueues, PortCallers, PortKinds, O!TcpTypeOK,
           O!ConnectionsKept, O!Listeners
  <2>8. NameInv => NameInv'
    BY DEF nameVars, NameInv, O!NameOfOwner
  <2>9. PassInv /\ PassCount => PassInv' /\ PassCount'
    <3>1. Told' = Told
      BY DEF passVars, Told
    <3>2. PassInv => PassInv'
      BY DEF passVars, PassInv, O!PassTypeOK
    <3> QED
      BY <3>1, <3>2 DEF passVars, PassCount
  <2> QED
    BY <2>1, <2>2, <2>3, <2>4, <2>5, <2>6, <2>7, <2>8, <2>9 DEF IInv
<1> QED
  BY <1>1, <1>2, <1>3, <1>4, <1>5, <1>6, <1>7, <1>8 DEF Next

\* Who is turned away, and who fails, has a reason.
Causes == /\ prog = "port" => O!RefusedForCause /\ O!FailsForCause
          /\ prog = "nameing" => O!UnlinksOwn /\ O!NameRefusedForCause

\* A step of the port or of nameing.c has its cause.
LEMMA StepsForCause == IInv /\ [Next]_vars => [Causes]_vars
<1> SUFFICES ASSUME IInv, Next PROVE Causes
  OBVIOUS
<1>1. ASSUME prog = "port" PROVE O!RefusedForCause /\ O!FailsForCause
  <2>1. O!TcpNext
    BY <1>1 DEF Next, InServer, InFork, InDatagram, InOob, InPort, InName, InPass
  <2> QED
    BY <1>1, <2>1, PortRefuses, CallersFail DEF IInv
<1>2. ASSUME prog = "nameing" PROVE O!UnlinksOwn /\ O!NameRefusedForCause
  <2>1. O!NameNext
    BY <1>2 DEF Next, InServer, InFork, InDatagram, InOob, InPort, InName, InPass
  <2> QED
    BY <1>2, <2>1, NameStep DEF IInv
<1> QED
  BY <1>1, <1>2 DEF Causes

\* Whichever program runs, its invariant holds in every state it reaches.
THEOREM Invariance == Spec => []IInv
BY Initially, Inductive, PTL DEF Spec

\* Every variable of the program that runs keeps its type.
THEOREM TypeCorrect == Spec => []TypeOK
BY Invariance, Listed, PTL

\* 12-sendrecv, 14-connless, 16-oobdata, listenap.c and recv_fd.c: whoever succeeds has the
\* whole answer, the requester its own, the stream its order and a connection its end.
THEOREM AnswersAlways == Spec => []AnswersReachClients
BY Invariance, Listed, PTL

\* Each server: one client is answered by a start, no connection, zombie, alarm or name
\* outlives its use, and one socket listens on the port.
THEOREM NothingLeftAlways == Spec => []NothingLeftOver
BY Invariance, Listed, PTL

\* initserver.c, connect.c and nameing.c: nobody is turned away, and nobody fails, without
\* the cause that the code names.
THEOREM RefusedAlways == Spec => RefusedForCause
<1>1. [Causes]_vars => [/\ prog = "port" => O!RefusedForCause /\ O!FailsForCause
                        /\ prog = "nameing" => O!UnlinksOwn /\ O!NameRefusedForCause]_vars
  BY DEF Causes
<1> QED
  BY <1>1, Invariance, StepsForCause, PTL DEF Spec, RefusedForCause
==============================================================================
