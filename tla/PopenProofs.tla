------------------------------ MODULE PopenProofs ------------------------------
(***************************************************************************)
(* Proofs about Popen for tables of any size, any number of calls and any  *)
(* set of standard descriptors that the program starts with.               *)
(***************************************************************************)
EXTENDS Popen, TLAPS

\* The ends that a failed popen_l() has left open in the parent for good.
Leaked(c) == result[c] \in {"noforks", "nostream"}

\* Every end of a pipe that the parent has open is there for a reason: it is
\* the stream of its own childpid[] entry, it was leaked, or the call that is
\* under way is about to close it.
EndsAccounted ==
  \A d \in Fd, c \in Calls, x \in Types : fdt[d] = <<c, x>> =>
    \/ result[c] = "open" /\ <<c, x>> = StreamEnd(c) /\ childpid[d] = c
    \/ Leaked(c)
    \/ c = cur /\ pc \in {"piped", "forked"}
    \/ c = cur /\ pc = "fclose" /\ <<c, x>> = StreamEnd(c)

\* No end is open twice in table t.
OneEach(t) == \A d, e \in Fd : t[d] \in End /\ t[d] = t[e] => d = e

\* What the call that is under way has.
CallUnderWay ==
  /\ cur <= ncalls
  /\ pc \in {"piped", "forked"} => /\ Holds(fdt, StreamEnd(cur)) /\ Holds(fdt, CommandEnd(cur))
                                   /\ result[cur] = "none"
  /\ pc = "piped"  => kid[cur].st = "none"
  /\ pc = "forked" => kid[cur].st # "none"
  /\ pc \in {"fclose", "waitpid"} => result[cur] = "closing" /\ kid[cur].st # "none"
  /\ pc = "fclose" => Holds(fdt, StreamEnd(cur))

\* What the result of a call says about its child.
ResultTellsChild ==
  \A c \in Calls :
    /\ result[c] = "none" => c > ncalls \/ (c = cur /\ pc \in {"piped", "forked"})
    /\ c > ncalls => result[c] = "none" /\ kid[c].st = "none"
    /\ result[c] = "noforks" => kid[c].st = "none"
    /\ result[c] = "closing" => c = cur /\ pc \in {"fclose", "waitpid"}
    /\ result[c] \in {"status", "ECHILD"} => kid[c].st = "reaped"

\* Nobody closes the standard descriptors the program has started with.
StdKept == \A d \in StdOpen : fdt[d] = File

\* Between fork() and execl() the child holds both ends of its pipe, then its
\* own on the standard descriptor; any other is in its copy of childpid[], for
\* the loop to close, or leaked.
TableOf(c) ==
  /\ kid[c].st = "forked" =>
       /\ OneEach(kid[c].fds)
       /\ Holds(kid[c].fds, StreamEnd(c)) /\ Holds(kid[c].fds, CommandEnd(c))
  /\ kid[c].st \in {"forked", "plumbed"} =>
       /\ \A d \in StdOpen : kid[c].pids[d] = 0
       /\ \A d \in Fd, b \in Calls, x \in Types : kid[c].fds[d] = <<b, x>> =>
            \/ b = c
            \/ kid[c].pids[d] > 0
            \/ Leaked(b)
  /\ kid[c].st = "plumbed" =>
       /\ kid[c].fds[StdFd(c)] = CommandEnd(c)
       /\ \A d \in Fd, x \in Types : kid[c].fds[d] = <<c, x>> =>
            d = StdFd(c) /\ <<c, x>> = CommandEnd(c)

\* NoInheritedStream, for one command.
CleanOf(c) ==
  kid[c].st = "running" =>
    \A d \in Fd, b \in Calls, x \in Types : kid[c].fds[d] = <<b, x>> =>
      \/ b = c /\ d = StdFd(c) /\ <<b, x>> = CommandEnd(c)
      \/ Leaked(b)

ChildInv == \A c \in Calls : TableOf(c) /\ CleanOf(c)

ParentInv == EndsAccounted /\ OneEach(fdt) /\ CallUnderWay /\ ResultTellsChild /\ StdKept

IInv == TypeOK /\ ParentInv /\ ChildrenTracked /\ ChildInv

------------------------------------------------------------------------------
(* Descriptor tables *)

LEMMA FdOfHeld ==
  ASSUME NEW t, NEW e, Holds(t, e)
  PROVE  FdOf(t, e) \in Fd /\ t[FdOf(t, e)] = e
BY DEF Holds, FdOf

LEMMA RefForm ==
  ASSUME NEW r \in Refs
  PROVE  \/ r = Free /\ r \notin End
         \/ r = File /\ r \notin End
         \/ r \in End /\ \E c \in Calls, x \in Types : r = <<c, x>>
BY PopenAssumption DEF Refs, End, Free, File, Calls, Types

LEMMA EndForm ==
  ASSUME NEW c \in Calls, NEW x \in Types
  PROVE  <<c, x>> \in End /\ <<c, x>> \in Refs /\ <<c, x>> # Free /\ <<c, x>> # File
BY PopenAssumption DEF Refs, End, Free, File, Calls, Types

\* The two ends of a pipe are different, and are the stream's and the command's.
LEMMA TwoEnds ==
  ASSUME TypeOK, NEW c \in Calls
  PROVE  /\ type[c] \in Types
         /\ StreamEnd(c) = <<c, type[c]>> /\ CommandEnd(c) = <<c, Other(type[c])>>
         /\ Other(type[c]) \in Types /\ Other(type[c]) # type[c]
         /\ StreamEnd(c) \in End /\ CommandEnd(c) \in End
         /\ StreamEnd(c) # CommandEnd(c)
         /\ \A x \in Types : <<c, x>> \in {StreamEnd(c), CommandEnd(c)}
BY DEF TypeOK, Types, StreamEnd, CommandEnd, Other, End

LEMMA StdForm ==
  ASSUME NEW c \in Calls
  PROVE  StdFd(c) \in Fd /\ StdFd(c) \in {0, 1}
BY PopenAssumption DEF StdFd, Fd

LEMMA TableExcept ==
  ASSUME NEW t \in Tables, NEW d \in Fd, NEW r \in Refs
  PROVE  /\ [t EXCEPT ![d] = r] \in Tables
         /\ \A e \in Fd : [t EXCEPT ![d] = r][e] = IF e = d THEN r ELSE t[e]
BY DEF Tables

LEMMA ClosedTable ==
  ASSUME NEW t \in Tables, NEW d \in Fd
  PROVE  /\ Closed(t, d) \in Tables
         /\ \A e \in Fd : Closed(t, d)[e] = IF e = d THEN Free ELSE t[e]
BY TableExcept DEF Closed, Refs

------------------------------------------------------------------------------
(* The initial state *)

LEMMA InitIInv == Init => IInv
<1> SUFFICES ASSUME Init PROVE IInv
  OBVIOUS
<1>1. TypeOK
  <2>1. fdt \in Tables
    BY DEF Init, Tables, Refs
  <2>2. NoTable \in Tables /\ NoPids \in [Fd -> 0..MaxCalls]
    BY PopenAssumption DEF NoTable, NoPids, Tables, Refs
  <2>3. NoKid \in [st : KidPC, fds : Tables, pids : [Fd -> 0..MaxCalls]]
    BY <2>2 DEF NoKid, KidPC
  <2>4. childpid \in [Fd -> 0..MaxCalls] /\ type \in [Calls -> Types] /\ result \in [Calls -> Results]
    BY <2>2 DEF Init, Types, Results
  <2>5. kid \in [Calls -> [st : KidPC, fds : Tables, pids : [Fd -> 0..MaxCalls]]]
    BY <2>3 DEF Init
  <2>6. ncalls \in 0..MaxCalls /\ cur \in 0..MaxCalls /\ interrupts \in 0..MaxInterrupts
    BY PopenAssumption DEF Init
  <2>7. allocated \in BOOLEAN /\ pc \in PC /\ pc = "idle"
    BY DEF Init, PC
  <2> QED
    BY <2>1, <2>4, <2>5, <2>6, <2>7 DEF TypeOK
<1>2. \A d \in Fd : fdt[d] \notin End /\ childpid[d] = 0
  BY PopenAssumption DEF Init, NoPids, End, Calls, File, Free
<1>3. \A c \in Calls : kid[c].st = "none" /\ result[c] = "none" /\ c > ncalls
  BY DEF Init, NoKid, Calls
<1>4. StdOpen \subseteq Fd
  BY PopenAssumption DEF Fd
<1>5. ParentInv
  <2>1. cur <= ncalls
    BY DEF Init
  <2> QED
    BY <1>2, <1>3, <1>4, <2>1, EndForm
     DEF Init, ParentInv, EndsAccounted, OneEach, CallUnderWay, ResultTellsChild, StdKept
<1>6. ChildrenTracked
  BY <1>2, <1>3 DEF ChildrenTracked, StreamsTracked, NoForgottenChild
<1>7. ChildInv
  BY <1>3 DEF ChildInv, TableOf, CleanOf
<1> QED
  BY <1>1, <1>5, <1>6, <1>7 DEF IInv

------------------------------------------------------------------------------
(* Steps that leave the parent, or the children, as they are *)

LEMMA ParentRests ==
  ASSUME IInv, UNCHANGED <<fdt, childpid, type, ncalls, pc, cur, result>>,
         \A c \in Calls : /\ kid[c].st = "none" <=> kid'[c].st = "none"
                          /\ kid[c].st = "reaped" => kid'[c].st = "reaped"
  PROVE  ParentInv' /\ ChildrenTracked'
<1>1. cur \in Calls \/ pc = "idle"
  BY DEF IInv, TypeOK
<1>2. EndsAccounted' /\ OneEach(fdt)' /\ StdKept'
  BY DEF IInv, ParentInv, EndsAccounted, OneEach, StdKept, Leaked, StreamEnd
<1>3. CallUnderWay'
  BY <1>1 DEF IInv, ParentInv, CallUnderWay, Holds, StreamEnd, CommandEnd
<1>4. ResultTellsChild'
  BY DEF IInv, ParentInv, ResultTellsChild
<1>5. ChildrenTracked'
  <2>1. \A d \in Fd : childpid[d] # 0 => childpid[d] \in Calls
    BY DEF IInv, TypeOK, Calls
  <2> QED
    BY <2>1 DEF IInv, ChildrenTracked, StreamsTracked, NoForgottenChild, StreamEnd
<1> QED
  BY <1>2, <1>3, <1>4, <1>5 DEF ParentInv

\* A child that does not move stays as it should be.
LEMMA ChildRests ==
  ASSUME IInv, NEW c \in Calls, kid'[c] = kid[c],
         \A b \in Calls : Leaked(b) => Leaked(b)',
         kid[c].st # "none" => type'[c] = type[c]
  PROVE  TableOf(c)' /\ CleanOf(c)'
<1>1. CASE kid[c].st = "none"
  BY <1>1 DEF TableOf, CleanOf
<1>2. CASE kid[c].st # "none"
  <2>1. /\ StreamEnd(c)' = StreamEnd(c) /\ CommandEnd(c)' = CommandEnd(c)
        /\ StdFd(c)' = StdFd(c)
    BY <1>2 DEF StreamEnd, CommandEnd, StdFd
  <2> QED
    BY <2>1 DEF IInv, ChildInv, TableOf, CleanOf, OneEach, Holds
<1> QED
  BY <1>1, <1>2

LEMMA ChildrenRest ==
  ASSUME IInv, UNCHANGED kid,
         \A c \in Calls : /\ Leaked(c) => Leaked(c)'
                          /\ kid[c].st # "none" => type'[c] = type[c]
  PROVE  ChildInv'
BY ChildRests DEF ChildInv

------------------------------------------------------------------------------
(* The steps of the children *)

LEMMA SetKidEffect ==
  ASSUME TypeOK, NEW c \in Calls, NEW st \in KidPC, NEW t \in Tables, SetKid(c, st, t)
  PROVE  /\ kid' \in [Calls -> [st : KidPC, fds : Tables, pids : [Fd -> 0..MaxCalls]]]
         /\ kid'[c].st = st /\ kid'[c].fds = t /\ kid'[c].pids = kid[c].pids
         /\ \A b \in Calls \ {c} : kid'[b] = kid[b]
BY DEF TypeOK, SetKid

\* What is left to show of a step of child c from which the parent rests.
LEMMA ChildStep ==
  ASSUME IInv, NEW c \in Calls, NEW st \in KidPC \ {"none"}, NEW t \in Tables,
         kid[c].st \notin {"none", "reaped"}, SetKid(c, st, t),
         UNCHANGED <<fdt, childpid, allocated, type, ncalls, pc, cur, result, interrupts>>,
         TableOf(c)', CleanOf(c)'
  PROVE  IInv'
<1>1. /\ kid' \in [Calls -> [st : KidPC, fds : Tables, pids : [Fd -> 0..MaxCalls]]]
      /\ kid'[c].st = st
      /\ \A b \in Calls \ {c} : kid'[b] = kid[b]
  <2>1. st \in KidPC /\ TypeOK
    BY DEF IInv
  <2>2. /\ kid' \in [Calls -> [st : KidPC, fds : Tables, pids : [Fd -> 0..MaxCalls]]]
        /\ kid'[c].st = st /\ kid'[c].fds = t /\ kid'[c].pids = kid[c].pids
        /\ \A b \in Calls \ {c} : kid'[b] = kid[b]
    BY <2>1, SetKidEffect
  <2> QED
    BY <2>2
<1>2. TypeOK'
  BY <1>1 DEF IInv, TypeOK
<1>3. ParentInv' /\ ChildrenTracked'
  BY <1>1, ParentRests
<1>4. ChildInv'
  BY <1>1, ChildRests DEF ChildInv, Leaked
<1> QED
  BY <1>2, <1>3, <1>4 DEF IInv

\* The child's end is on the standard descriptor, the caller's is closed.
LEMMA PlumbInv ==
  ASSUME IInv, NEW c \in Calls, ChildPlumb(c)
  PROVE  IInv'
<1> DEFINE t  == kid[c].fds
           fs == FdOf(t, StreamEnd(c))
           fc == FdOf(t, CommandEnd(c))
           n  == Plumbed(t, c)
<1>1. /\ t \in Tables /\ OneEach(t) /\ kid[c].pids \in [Fd -> 0..MaxCalls]
      /\ Holds(t, StreamEnd(c)) /\ Holds(t, CommandEnd(c))
      /\ kid[c].st = "forked" /\ TableOf(c)
  BY DEF ChildPlumb, IInv, TypeOK, ChildInv, TableOf
<1>2. /\ fs \in Fd /\ t[fs] = StreamEnd(c) /\ fc \in Fd /\ t[fc] = CommandEnd(c)
      /\ fs # fc /\ StdFd(c) \in Fd /\ CommandEnd(c) \in Refs
  BY <1>1, FdOfHeld, TwoEnds, StdForm DEF IInv, Refs
<1>3. /\ n \in Tables
      /\ \A d \in Fd : n[d] = IF d = StdFd(c) THEN CommandEnd(c)
                              ELSE IF d \in {fs, fc} THEN Free ELSE t[d]
  <2>1. /\ Closed(t, fs) \in Tables
        /\ \A d \in Fd : Closed(t, fs)[d] = IF d = fs THEN Free ELSE t[d]
    BY <1>1, <1>2, ClosedTable
  <2>2. CASE fc = StdFd(c)
    BY <1>2, <2>1, <2>2 DEF Plumbed
  <2>3. CASE fc # StdFd(c)
    <3> DEFINE u == Dup2(Closed(t, fs), fc, StdFd(c))
    <3>1. /\ u \in Tables
          /\ \A d \in Fd : u[d] = IF d = StdFd(c) THEN CommandEnd(c) ELSE Closed(t, fs)[d]
      BY <1>2, <2>1, TableExcept DEF Dup2
    <3>2. n = Closed(u, fc)
      BY <1>2, <2>3 DEF Plumbed
    <3> HIDE DEF n, u
    <3>3. n \in Tables /\ \A d \in Fd : n[d] = IF d = fc THEN Free ELSE u[d]
      BY <1>2, <3>1, <3>2, ClosedTable
    <3> QED
      BY <1>2, <2>1, <2>3, <3>1, <3>3
  <2> QED
    BY <2>2, <2>3
<1>4. SetKid(c, "plumbed", n)
  BY DEF ChildPlumb
<1>5. kid'[c].st = "plumbed" /\ kid'[c].fds = n /\ kid'[c].pids = kid[c].pids
  BY <1>3, <1>4, SetKidEffect DEF IInv, KidPC
<1>6. /\ StdFd(c)' = StdFd(c) /\ CommandEnd(c)' = CommandEnd(c)
      /\ \A b \in Calls : Leaked(b)' <=> Leaked(b)
  BY DEF ChildPlumb, StdFd, CommandEnd, Leaked
<1>7. ASSUME NEW d \in Fd, NEW b \in Calls, NEW x \in Types, n[d] = <<b, x>>
      PROVE  /\ b = c => d = StdFd(c) /\ <<b, x>> = CommandEnd(c)
             /\ b = c \/ kid[c].pids[d] > 0 \/ Leaked(b)
  <2>1. CASE d = StdFd(c)
    BY <1>3, <1>7, <2>1, TwoEnds DEF IInv
  <2>2. CASE d # StdFd(c)
    <3>1. d \notin {fs, fc} /\ t[d] = <<b, x>>
      BY <1>3, <1>7, <2>2, EndForm
    <3>2. b # c
      <4> SUFFICES ASSUME b = c PROVE FALSE
        OBVIOUS
      <4>1. t[d] \in {t[fs], t[fc]} /\ t[d] \in End
        BY <1>2, <3>1, TwoEnds, EndForm DEF IInv
      <4> QED
        BY <1>1, <1>2, <3>1, <4>1 DEF OneEach
    <3> QED
      BY <1>1, <3>1, <3>2 DEF TableOf
  <2> QED
    BY <2>1, <2>2
<1>8. TableOf(c)' /\ CleanOf(c)'
  BY <1>1, <1>2, <1>3, <1>5, <1>6, <1>7 DEF TableOf, CleanOf
<1> QED
  BY <1>1, <1>3, <1>4, <1>8, ChildStep DEF ChildPlumb, KidPC

LEMMA CloseStreamsInv ==
  ASSUME IInv, NEW c \in Calls, ChildCloseStreams(c)
  PROVE  IInv'
<1> DEFINE t == kid[c].fds
           n == WithoutStreams(t, kid[c].pids)
<1>1. t \in Tables /\ kid[c].st = "plumbed" /\ TableOf(c) /\ kid[c].pids \in [Fd -> 0..MaxCalls]
  BY DEF ChildCloseStreams, IInv, TypeOK, ChildInv
<1>2. n \in Tables /\ \A d \in Fd : n[d] = IF kid[c].pids[d] > 0 THEN Free ELSE t[d]
  BY <1>1 DEF WithoutStreams, Tables, Refs
<1>3. SetKid(c, "running", n)
  BY DEF ChildCloseStreams
<1>4. kid'[c].st = "running" /\ kid'[c].fds = n /\ kid'[c].pids = kid[c].pids
  BY <1>2, <1>3, SetKidEffect DEF IInv, KidPC
<1>5. /\ StdFd(c)' = StdFd(c) /\ CommandEnd(c)' = CommandEnd(c)
      /\ \A b \in Calls : Leaked(b)' <=> Leaked(b)
  BY DEF ChildCloseStreams, StdFd, CommandEnd, Leaked
<1>6. ASSUME NEW d \in Fd, NEW b \in Calls, NEW x \in Types, n[d] = <<b, x>>
      PROVE  (b = c /\ d = StdFd(c) /\ <<b, x>> = CommandEnd(c)) \/ Leaked(b)
  <2>1. ~(kid[c].pids[d] > 0) /\ t[d] = <<b, x>>
    BY <1>2, <1>6, EndForm
  <2> QED
    BY <1>1, <2>1 DEF TableOf
<1>7. TableOf(c)' /\ CleanOf(c)'
  BY <1>4, <1>5, <1>6 DEF TableOf, CleanOf
<1> QED
  BY <1>1, <1>2, <1>3, <1>7, ChildStep DEF ChildCloseStreams, KidPC

LEMMA ClosesEndInv ==
  ASSUME IInv, NEW c \in Calls, CommandClosesEnd(c)
  PROVE  IInv'
<1> DEFINE t == kid[c].fds
           n == Closed(t, StdFd(c))
<1>1. t \in Tables /\ kid[c].st = "running" /\ CleanOf(c)
  BY DEF CommandClosesEnd, IInv, TypeOK, ChildInv
<1>2. n \in Tables /\ \A d \in Fd : n[d] = IF d = StdFd(c) THEN Free ELSE t[d]
  BY <1>1, StdForm, ClosedTable
<1>3. SetKid(c, "running", n)
  BY DEF CommandClosesEnd
<1>4. kid'[c].st = "running" /\ kid'[c].fds = n /\ kid'[c].pids = kid[c].pids
  BY <1>2, <1>3, SetKidEffect DEF IInv, KidPC
<1>5. /\ StdFd(c)' = StdFd(c) /\ CommandEnd(c)' = CommandEnd(c)
      /\ \A b \in Calls : Leaked(b)' <=> Leaked(b)
  BY DEF CommandClosesEnd, StdFd, CommandEnd, Leaked
<1>6. \A d \in Fd, b \in Calls, x \in Types : n[d] = <<b, x>> => t[d] = <<b, x>>
  BY <1>2, EndForm
<1>7. TableOf(c)' /\ CleanOf(c)'
  BY <1>1, <1>4, <1>5, <1>6 DEF TableOf, CleanOf
<1> QED
  BY <1>1, <1>2, <1>3, <1>7, ChildStep DEF CommandClosesEnd, KidPC

LEMMA ExitInv ==
  ASSUME IInv, NEW c \in Calls, CommandExit(c)
  PROVE  IInv'
<1>1. SetKid(c, "zombie", NoTable) /\ NoTable \in Tables /\ kid[c].st = "running"
  BY DEF CommandExit, NoTable, Tables, Refs
<1>2. kid'[c].st = "zombie" /\ kid'[c].fds = NoTable /\ kid'[c].pids = kid[c].pids
  BY <1>1, SetKidEffect DEF IInv, KidPC
<1>3. TableOf(c)' /\ CleanOf(c)'
  BY <1>2 DEF TableOf, CleanOf
<1> QED
  BY <1>1, <1>3, ChildStep DEF CommandExit, KidPC

\* Being waited for changes nothing of a child but its state.
LEMMA ReapEffect ==
  ASSUME TypeOK, NEW c \in Calls, kid' = [kid EXCEPT ![c].st = "reaped"]
  PROVE  /\ kid' \in [Calls -> [st : KidPC, fds : Tables, pids : [Fd -> 0..MaxCalls]]]
         /\ kid'[c].st = "reaped"
         /\ \A b \in Calls \ {c} : kid'[b] = kid[b]
BY DEF TypeOK, KidPC

LEMMA AppWaitInv ==
  ASSUME IInv, NEW c \in Calls, AppWait(c)
  PROVE  IInv'
<1>1. /\ kid' \in [Calls -> [st : KidPC, fds : Tables, pids : [Fd -> 0..MaxCalls]]]
      /\ kid'[c].st = "reaped" /\ kid[c].st = "zombie"
      /\ \A b \in Calls \ {c} : kid'[b] = kid[b]
  BY ReapEffect DEF AppWait, IInv
<1>2. TypeOK'
  BY <1>1 DEF IInv, TypeOK, AppWait
<1>3. ParentInv' /\ ChildrenTracked'
  BY <1>1, ParentRests DEF AppWait
<1>4. TableOf(c)' /\ CleanOf(c)'
  BY <1>1 DEF TableOf, CleanOf
<1>5. ChildInv'
  BY <1>1, <1>4, ChildRests DEF ChildInv, Leaked, AppWait
<1> QED
  BY <1>2, <1>3, <1>5 DEF IInv

------------------------------------------------------------------------------
(* The steps of popen_l() in the parent *)

\* What IInv says of the entries of childpid[], of streams and of Fd.
LEMMA ParentFacts ==
  ASSUME IInv
  PROVE  /\ TypeOK /\ EndsAccounted /\ OneEach(fdt) /\ CallUnderWay /\ ResultTellsChild
         /\ StdKept /\ StreamsTracked /\ NoForgottenChild /\ ChildInv
         /\ \A d \in Fd : childpid[d] # 0 => childpid[d] \in Calls
         /\ StdOpen \subseteq Fd
         /\ 0 \notin Calls
BY PopenAssumption DEF IInv, ParentInv, ChildrenTracked, TypeOK, Calls, Fd

LEMMA PopenPipeInv ==
  ASSUME IInv, NEW ty \in Types, PopenPipe(ty)
  PROVE  IInv'
<1> USE ParentFacts
<1>0. PICK n \in Calls : n = ncalls + 1 /\ n > ncalls /\ ncalls \in Nat /\ n \in Nat
  BY PopenAssumption DEF PopenPipe, TypeOK, Calls
<1>1. PICK r \in Fd, w \in Fd :
        /\ IsLowest(r, FreeFds(fdt)) /\ IsLowest(w, FreeFds(fdt) \ {r})
        /\ fdt' = [fdt EXCEPT ![r] = <<n, "r">>, ![w] = <<n, "w">>]
  BY <1>0 DEF PopenPipe
<1>2. r # w /\ fdt[r] = Free /\ fdt[w] = Free
  BY <1>1 DEF IsLowest, FreeFds
<1>3. /\ n \in Calls /\ pc = "idle" /\ pc' = "piped" /\ cur' = n /\ ncalls' = n
      /\ ncalls \in Nat
      /\ UNCHANGED <<childpid, kid, result, interrupts>> /\ allocated' = TRUE
      /\ type' = [type EXCEPT ![n] = ty]
  BY <1>0 DEF PopenPipe, TypeOK
<1>4. /\ <<n, "r">> \in Refs /\ <<n, "w">> \in Refs /\ <<n, "r">> \in End /\ <<n, "w">> \in End
      /\ Free \notin End /\ Free # File
  BY <1>3, EndForm, PopenAssumption DEF Types, End, Free, File, Calls
<1>5. /\ fdt' \in Tables
      /\ \A d \in Fd : fdt'[d] = IF d = r THEN <<n, "r">> ELSE IF d = w THEN <<n, "w">> ELSE fdt[d]
  BY <1>1, <1>2, <1>4 DEF TypeOK, Tables
<1>6. type' \in [Calls -> Types] /\ \A c \in Calls : type'[c] = IF c = n THEN ty ELSE type[c]
  BY <1>3 DEF TypeOK
<1>7. TypeOK'
  BY <1>3, <1>5, <1>6 DEF TypeOK, PC, Calls
<1>8. result[n] = "none" /\ kid[n].st = "none"
  BY <1>0 DEF ResultTellsChild
<1>9. \A d \in Fd, c \in Calls, x \in Types : fdt[d] = <<c, x>> =>
         c # n /\ ((result[c] = "open" /\ <<c, x>> = StreamEnd(c) /\ childpid[d] = c) \/ Leaked(c))
  BY <1>3, <1>8 DEF EndsAccounted, Leaked
<1>10. \A c \in Calls : c # n => StreamEnd(c)' = StreamEnd(c)
  BY <1>6 DEF StreamEnd
<1>11. EndsAccounted'
  BY <1>3, <1>5, <1>9, <1>10 DEF EndsAccounted, Leaked
<1>12. OneEach(fdt)'
  <2> SUFFICES ASSUME NEW d \in Fd, NEW e \in Fd, fdt'[d] \in End, fdt'[d] = fdt'[e], d # e
               PROVE  FALSE
    BY DEF OneEach
  <2>1. PICK c \in Calls, x \in Types : fdt'[d] = <<c, x>>
    BY DEF End
  <2>2. CASE d \notin {r, w} /\ e \notin {r, w}
    BY <1>5, <2>2 DEF OneEach
  <2>3. CASE d \in {r, w} \/ e \in {r, w}
    <3>1. ASSUME NEW y \in Types, NEW f \in Fd, fdt'[f] = <<n, y>>
          PROVE  f = IF y = "r" THEN r ELSE w
      BY <1>2, <1>5, <1>9, <3>1 DEF Types
    <3>2. \E y \in Types : fdt'[d] = <<n, y>>
      BY <1>2, <1>5, <2>3 DEF Types
    <3> QED
      BY <3>1, <3>2
  <2> QED
    BY <2>2, <2>3
<1>13. CallUnderWay'
  <2>1. \A x \in Types : Holds(fdt, <<n, x>>)'
    BY <1>2, <1>5 DEF Holds, Types
  <2>2. StreamEnd(n)' = <<n, ty>> /\ CommandEnd(n)' = <<n, Other(ty)>> /\ Other(ty) \in Types
    BY <1>3, <1>6 DEF StreamEnd, CommandEnd, Other, Types
  <2> QED
    BY <1>0, <1>3, <1>8, <2>1, <2>2 DEF CallUnderWay
<1>14. ResultTellsChild'
  <2>1. \A c \in Calls : c > n => c > ncalls
    BY <1>0 DEF Calls
  <2>2. \A c \in Calls : c > ncalls => c > n \/ c = n
    BY <1>0 DEF Calls
  <2> QED
    BY <1>3, <1>8, <2>1, <2>2 DEF ResultTellsChild
<1>15. StdKept'
  BY <1>2, <1>4, <1>5 DEF StdKept
<1>16. ChildrenTracked'
  <2>1. \A d \in Fd : childpid[d] # 0 => childpid[d] # n /\ d \notin {r, w}
    BY <1>2, <1>4, <1>8, TwoEnds DEF StreamsTracked
  <2>2. StreamsTracked'
    BY <1>3, <1>5, <1>10, <2>1 DEF StreamsTracked
  <2>3. NoForgottenChild'
    BY <1>3 DEF NoForgottenChild
  <2> QED
    BY <2>2, <2>3 DEF ChildrenTracked
<1>17. ChildInv'
  BY <1>3, <1>6, <1>8, ChildrenRest DEF Leaked
<1> QED
  BY <1>7, <1>11, <1>12, <1>13, <1>14, <1>15, <1>16, <1>17 DEF IInv, ParentInv

LEMMA PopenForkInv ==
  ASSUME IInv, PopenFork
  PROVE  IInv'
<1> USE ParentFacts
<1>1. /\ cur \in Calls /\ pc = "piped" /\ pc' = "forked"
      /\ kid' = [kid EXCEPT ![cur] = [st |-> "forked", fds |-> fdt, pids |-> childpid]]
      /\ UNCHANGED <<fdt, childpid, allocated, type, ncalls, cur, result, interrupts>>
  BY DEF PopenFork, TypeOK
<1>2. /\ kid' \in [Calls -> [st : KidPC, fds : Tables, pids : [Fd -> 0..MaxCalls]]]
      /\ kid'[cur].st = "forked" /\ kid'[cur].fds = fdt /\ kid'[cur].pids = childpid
      /\ \A b \in Calls \ {cur} : kid'[b] = kid[b]
  BY <1>1 DEF TypeOK, KidPC
<1>3. TypeOK'
  BY <1>1, <1>2 DEF TypeOK, PC
<1>4. \A c \in Calls : StreamEnd(c)' = StreamEnd(c) /\ CommandEnd(c)' = CommandEnd(c)
  BY <1>1 DEF StreamEnd, CommandEnd
<1>5. EndsAccounted' /\ OneEach(fdt)' /\ StdKept'
  BY <1>1, <1>4 DEF EndsAccounted, OneEach, StdKept, Leaked
<1>6. CallUnderWay'
  BY <1>1, <1>2, <1>4 DEF CallUnderWay, Holds
<1>7. ResultTellsChild'
  BY <1>1, <1>2 DEF CallUnderWay, ResultTellsChild, TypeOK, Calls
<1>8. StreamsTracked'
  BY <1>1, <1>2, <1>4 DEF StreamsTracked
<1>9. NoForgottenChild'
  BY <1>1, <1>2 DEF NoForgottenChild
<1>10. TableOf(cur)' /\ CleanOf(cur)'
  <2>1. \A d \in StdOpen : childpid[d] = 0
    <3> SUFFICES ASSUME NEW d \in StdOpen, childpid[d] # 0 PROVE FALSE
      OBVIOUS
    <3>1. fdt[d] = File /\ fdt[d] = StreamEnd(childpid[d]) /\ childpid[d] \in Calls
      BY DEF StdKept, StreamsTracked
    <3> QED
      BY <3>1, TwoEnds, EndForm
  <2>2. \A d \in Fd, b \in Calls, x \in Types : fdt[d] = <<b, x>> =>
           b = cur \/ childpid[d] > 0 \/ Leaked(b)
    BY <1>1 DEF EndsAccounted, Calls
  <2>3. OneEach(fdt) /\ Holds(fdt, StreamEnd(cur)) /\ Holds(fdt, CommandEnd(cur))
    BY <1>1 DEF CallUnderWay
  <2> QED
    BY <1>1, <1>2, <1>4, <2>1, <2>2, <2>3 DEF TableOf, CleanOf, OneEach, Holds, Leaked
<1>11. ChildInv'
  BY <1>1, <1>2, <1>10, ChildRests DEF ChildInv, Leaked
<1> QED
  BY <1>3, <1>5, <1>6, <1>7, <1>8, <1>9, <1>11 DEF IInv, ParentInv, ChildrenTracked

LEMMA PopenNoForkInv ==
  ASSUME IInv, PopenNoFork
  PROVE  IInv'
<1> USE ParentFacts
<1>1. /\ cur \in Calls /\ pc = "piped" /\ pc' = "idle"
      /\ UNCHANGED <<fdt, childpid, allocated, type, ncalls, kid, cur, interrupts>>
      /\ \A c \in Calls : result'[c] = IF c = cur THEN "noforks" ELSE result[c]
      /\ result' \in [Calls -> Results]
  BY DEF PopenNoFork, TypeOK, Results
<1>2. TypeOK'
  BY <1>1 DEF TypeOK, PC
<1>3. \A c \in Calls : StreamEnd(c)' = StreamEnd(c) /\ CommandEnd(c)' = CommandEnd(c)
  BY <1>1 DEF StreamEnd, CommandEnd
<1>4. result[cur] = "none" /\ kid[cur].st = "none"
  BY <1>1 DEF CallUnderWay
<1>5. EndsAccounted' /\ OneEach(fdt)' /\ StdKept' /\ CallUnderWay'
  BY <1>1, <1>3 DEF EndsAccounted, OneEach, StdKept, Leaked, CallUnderWay
<1>6. ResultTellsChild'
  BY <1>1, <1>4 DEF CallUnderWay, ResultTellsChild, TypeOK, Calls
<1>7. StreamsTracked'
  BY <1>1, <1>3, <1>4 DEF StreamsTracked
<1>8. NoForgottenChild'
  BY <1>1, <1>4 DEF NoForgottenChild
<1>9. ChildInv'
  BY <1>1, ChildrenRest DEF Leaked
<1> QED
  BY <1>2, <1>5, <1>6, <1>7, <1>8, <1>9 DEF IInv, ParentInv, ChildrenTracked

\* What the two ends of popen_l() after fork() have in common: the parent's
\* table without the command's end.
LEMMA CommandEndClosed ==
  ASSUME IInv, pc = "forked", fdt' = Closed(fdt, FdOf(fdt, CommandEnd(cur)))
  PROVE  /\ cur \in Calls /\ result[cur] = "none" /\ kid[cur].st # "none"
         /\ FdOf(fdt, StreamEnd(cur)) \in Fd
         /\ fdt' \in Tables /\ OneEach(fdt)' /\ StdKept'
         /\ fdt'[FdOf(fdt, StreamEnd(cur))] = StreamEnd(cur)
         /\ \A d \in Fd : /\ fdt'[d] \in {Free, fdt[d]}
                          /\ fdt[d] # CommandEnd(cur) => fdt'[d] = fdt[d]
                          /\ fdt'[d] # CommandEnd(cur)
<1> DEFINE fp == FdOf(fdt, StreamEnd(cur))
           fc == FdOf(fdt, CommandEnd(cur))
<1> USE ParentFacts
<1>1. cur \in Calls /\ result[cur] = "none" /\ kid[cur].st # "none"
  BY DEF TypeOK, CallUnderWay
<1>2. /\ fp \in Fd /\ fdt[fp] = StreamEnd(cur) /\ fc \in Fd /\ fdt[fc] = CommandEnd(cur)
      /\ StreamEnd(cur) # CommandEnd(cur)
      /\ StreamEnd(cur) \in End /\ CommandEnd(cur) \in End
  BY <1>1, FdOfHeld, TwoEnds DEF CallUnderWay
<1>3. Free \notin End /\ File \notin End /\ Free # File
  BY PopenAssumption DEF End, Free, File, Calls
<1>4. fdt' \in Tables /\ \A d \in Fd : fdt'[d] = IF d = fc THEN Free ELSE fdt[d]
  BY <1>2, ClosedTable DEF TypeOK
<1>5. \A d \in Fd : fdt[d] = CommandEnd(cur) => d = fc
  BY <1>2 DEF OneEach
<1>6. OneEach(fdt)'
  BY <1>3, <1>4 DEF OneEach
<1>7. StdKept'
  BY <1>2, <1>3, <1>4 DEF StdKept
<1> QED
  BY <1>1, <1>2, <1>3, <1>4, <1>5, <1>6, <1>7

LEMMA PopenParentInv ==
  ASSUME IInv, PopenParent
  PROVE  IInv'
<1> DEFINE fp == FdOf(fdt, StreamEnd(cur))
<1> USE ParentFacts
<1>1. /\ pc = "forked" /\ pc' = "idle"
      /\ UNCHANGED <<allocated, type, ncalls, kid, cur, interrupts>>
      /\ fdt' = Closed(fdt, FdOf(fdt, CommandEnd(cur)))
  BY DEF PopenParent
<1>2. /\ cur \in Calls /\ result[cur] = "none" /\ kid[cur].st # "none"
      /\ fp \in Fd
      /\ fdt' \in Tables /\ OneEach(fdt)' /\ StdKept'
      /\ fdt'[fp] = StreamEnd(cur)
      /\ \A d \in Fd : /\ fdt'[d] \in {Free, fdt[d]}
                       /\ fdt[d] # CommandEnd(cur) => fdt'[d] = fdt[d]
                       /\ fdt'[d] # CommandEnd(cur)
  BY <1>1, CommandEndClosed
<1> HIDE DEF fp
<1>3. /\ \A c \in Calls : result'[c] = IF c = cur THEN "open" ELSE result[c]
      /\ result' \in [Calls -> Results]
  BY <1>2 DEF PopenParent, TypeOK, Results
<1>4. /\ \A d \in Fd : childpid'[d] = IF d = fp THEN cur ELSE childpid[d]
      /\ childpid' \in [Fd -> 0..MaxCalls]
  BY <1>2 DEF PopenParent, TypeOK, fp
<1>5. TypeOK'
  BY <1>1, <1>2, <1>3, <1>4 DEF TypeOK, PC
<1>6. \A c \in Calls : StreamEnd(c)' = StreamEnd(c) /\ CommandEnd(c)' = CommandEnd(c)
  BY <1>1 DEF StreamEnd, CommandEnd
<1>7. /\ StreamEnd(cur) \in End /\ Free \notin End
      /\ \A c \in Calls : StreamEnd(c) = StreamEnd(cur) => c = cur
      /\ \A c \in Calls : StreamEnd(c) = CommandEnd(cur) => c = cur
      /\ \A c \in Calls, x \in Types : <<c, x>> \in End
      /\ \A x \in Types : <<cur, x>> \in {StreamEnd(cur), CommandEnd(cur)}
  BY <1>2, TwoEnds, EndForm, PopenAssumption DEF End, Free, Calls, StreamEnd, CommandEnd
<1>8. fdt[fp] = StreamEnd(cur)
  BY <1>2, <1>7
<1>9. \A d \in Fd : childpid[d] # 0 => /\ childpid[d] # cur /\ d # fp
                                       /\ fdt'[d] = fdt[d]
  BY <1>2, <1>7, <1>8 DEF StreamsTracked
<1>10. EndsAccounted'
  <2> SUFFICES ASSUME NEW d \in Fd, NEW c \in Calls, NEW x \in Types, fdt'[d] = <<c, x>>
               PROVE  \/ result'[c] = "open" /\ <<c, x>> = StreamEnd(c)' /\ childpid'[d] = c
                      \/ Leaked(c)'
    BY DEF EndsAccounted
  <2>1. fdt[d] = <<c, x>>
    BY <1>2, <1>7
  <2>2. CASE c = cur
    <3>1. <<c, x>> = StreamEnd(cur)
      BY <1>2, <1>7, <2>2
    <3>2. d = fp
      BY <1>2, <1>7, <1>8, <2>1, <3>1 DEF OneEach
    <3> QED
      BY <1>3, <1>4, <1>6, <2>2, <3>1, <3>2
  <2>3. CASE c # cur
    <3>1. (result[c] = "open" /\ <<c, x>> = StreamEnd(c) /\ childpid[d] = c) \/ Leaked(c)
      BY <2>1, <2>3 DEF EndsAccounted
    <3>2. CASE Leaked(c)
      BY <1>3, <2>3, <3>2 DEF Leaked
    <3>3. CASE result[c] = "open" /\ <<c, x>> = StreamEnd(c) /\ childpid[d] = c
      <4>1. childpid'[d] = c
        BY <1>4, <1>9, <3>3
      <4> QED
        BY <1>3, <1>6, <2>3, <3>3, <4>1
    <3> QED
      BY <3>1, <3>2, <3>3
  <2> QED
    BY <2>2, <2>3
<1>11. CallUnderWay'
  BY <1>1 DEF CallUnderWay
<1>12. ResultTellsChild'
  BY <1>1, <1>2, <1>3 DEF ResultTellsChild
<1>13. StreamsTracked'
  <2>1. \A d \in Fd : childpid'[d] # 0 =>
          /\ fdt'[d] = <<childpid'[d], type'[childpid'[d]]>>
          /\ result'[childpid'[d]] = "open"
          /\ kid'[childpid'[d]].st # "none"
    BY <1>1, <1>2, <1>3, <1>4, <1>9 DEF StreamsTracked, StreamEnd
  <2>2. \A c \in Calls : result'[c] = "open" => \E d \in Fd : childpid'[d] = c
    BY <1>2, <1>3, <1>4, <1>9 DEF StreamsTracked
  <2>3. \A d, e \in Fd : childpid'[d] # 0 /\ childpid'[d] = childpid'[e] => d = e
    BY <1>2, <1>4, <1>9 DEF StreamsTracked
  <2> QED
    BY <2>1, <2>2, <2>3 DEF StreamsTracked, StreamEnd
<1>14. NoForgottenChild'
  BY <1>1, <1>2, <1>3, <1>4, <1>9 DEF NoForgottenChild
<1>15. ChildInv'
  BY <1>1, <1>2, <1>3, ChildrenRest DEF Leaked
<1> QED
  BY <1>2, <1>5, <1>10, <1>11, <1>12, <1>13, <1>14, <1>15 DEF IInv, ParentInv, ChildrenTracked

LEMMA PopenNoStreamInv ==
  ASSUME IInv, PopenNoStream
  PROVE  IInv'
<1> USE ParentFacts
<1>1. /\ pc = "forked" /\ pc' = "idle"
      /\ UNCHANGED <<childpid, allocated, type, ncalls, kid, cur, interrupts>>
      /\ fdt' = Closed(fdt, FdOf(fdt, CommandEnd(cur)))
  BY DEF PopenNoStream
<1>2. /\ cur \in Calls /\ result[cur] = "none" /\ kid[cur].st # "none"
      /\ fdt' \in Tables /\ OneEach(fdt)' /\ StdKept'
      /\ \A d \in Fd : /\ fdt'[d] \in {Free, fdt[d]}
                       /\ fdt[d] # CommandEnd(cur) => fdt'[d] = fdt[d]
  BY <1>1, CommandEndClosed
<1>3. /\ \A c \in Calls : result'[c] = IF c = cur THEN "nostream" ELSE result[c]
      /\ result' \in [Calls -> Results]
  BY <1>2 DEF PopenNoStream, TypeOK, Results
<1>4. TypeOK'
  BY <1>1, <1>2, <1>3 DEF TypeOK, PC
<1>5. \A c \in Calls : StreamEnd(c)' = StreamEnd(c)
  BY <1>1 DEF StreamEnd
<1>6. \A c \in Calls, x \in Types : <<c, x>> # Free
  BY EndForm
<1>7. EndsAccounted'
  BY <1>1, <1>2, <1>3, <1>5, <1>6 DEF EndsAccounted, Leaked
<1>8. CallUnderWay' /\ ResultTellsChild'
  BY <1>1, <1>2, <1>3 DEF CallUnderWay, ResultTellsChild
<1>9. \A d \in Fd : childpid[d] # 0 => childpid[d] # cur /\ fdt'[d] = fdt[d]
  <2> SUFFICES ASSUME NEW d \in Fd, childpid[d] # 0
               PROVE  childpid[d] # cur /\ fdt'[d] = fdt[d]
    OBVIOUS
  <2>1. childpid[d] \in Calls /\ result[childpid[d]] = "open" /\ fdt[d] = StreamEnd(childpid[d])
    BY DEF StreamsTracked
  <2>2. StreamEnd(childpid[d]) = CommandEnd(cur) => childpid[d] = cur
    BY DEF StreamEnd, CommandEnd
  <2> QED
    BY <1>2, <2>1, <2>2
<1>10. StreamsTracked'
  <2>1. \A d \in Fd : childpid'[d] # 0 =>
          /\ fdt'[d] = <<childpid'[d], type'[childpid'[d]]>>
          /\ result'[childpid'[d]] = "open"
          /\ kid'[childpid'[d]].st # "none"
    BY <1>1, <1>3, <1>9 DEF StreamsTracked, StreamEnd
  <2> QED
    BY <1>1, <1>3, <2>1 DEF StreamsTracked, StreamEnd
<1>11. NoForgottenChild'
  BY <1>1, <1>3 DEF NoForgottenChild
<1>12. ChildInv'
  BY <1>1, <1>2, <1>3, ChildrenRest DEF Leaked
<1> QED
  BY <1>2, <1>4, <1>7, <1>8, <1>10, <1>11, <1>12 DEF IInv, ParentInv, ChildrenTracked

\* A pipe() that fails changes nothing that the invariant speaks of.
LEMMA PopenNoPipeInv ==
  ASSUME IInv, PopenNoPipe
  PROVE  IInv'
<1> USE ParentFacts
<1>1. UNCHANGED <<fdt, childpid, type, ncalls, kid, pc, cur, result, interrupts>> /\ allocated' = TRUE
  BY DEF PopenNoPipe
<1>2. TypeOK'
  BY <1>1 DEF TypeOK
<1>3. ParentInv' /\ ChildrenTracked'
  BY <1>1, ParentRests
<1>4. ChildInv'
  BY <1>1, ChildrenRest DEF Leaked
<1> QED
  BY <1>2, <1>3, <1>4 DEF IInv

------------------------------------------------------------------------------
(* The steps of pclose_l() *)

LEMMA PcloseBeginInv ==
  ASSUME IInv, NEW d \in Fd, PcloseBegin(d)
  PROVE  IInv'
<1> USE ParentFacts
<1>1. PICK c \in Calls : c = childpid[d]
  BY DEF PcloseBegin
<1>2. /\ pc = "idle" /\ pc' = "fclose" /\ cur' = c
      /\ UNCHANGED <<fdt, allocated, type, ncalls, kid, interrupts>>
      /\ \A e \in Fd : childpid'[e] = IF e = d THEN 0 ELSE childpid[e]
      /\ childpid' \in [Fd -> 0..MaxCalls]
      /\ \A b \in Calls : result'[b] = IF b = c THEN "closing" ELSE result[b]
      /\ result' \in [Calls -> Results]
  BY <1>1, PopenAssumption DEF PcloseBegin, TypeOK, Results
<1>3. /\ childpid[d] # 0 /\ fdt[d] = StreamEnd(c) /\ result[c] = "open" /\ kid[c].st # "none"
      /\ c <= ncalls
  BY <1>1 DEF PcloseBegin, StreamsTracked, ResultTellsChild, TypeOK, Calls
<1>4. TypeOK'
  BY <1>2 DEF TypeOK, PC, Calls
<1>5. \A b \in Calls : StreamEnd(b)' = StreamEnd(b)
  BY <1>2 DEF StreamEnd
<1>6. \A e \in Fd : e # d /\ childpid[e] # 0 => childpid[e] # c
  BY <1>1, <1>3 DEF StreamsTracked
<1>7. EndsAccounted'
  <2> SUFFICES ASSUME NEW e \in Fd, NEW b \in Calls, NEW x \in Types, fdt[e] = <<b, x>>
               PROVE  \/ result'[b] = "open" /\ <<b, x>> = StreamEnd(b) /\ childpid'[e] = b
                      \/ Leaked(b)'
                      \/ b = c /\ <<b, x>> = StreamEnd(b)
    BY <1>2, <1>5 DEF EndsAccounted
  <2>1. (result[b] = "open" /\ <<b, x>> = StreamEnd(b) /\ childpid[e] = b) \/ Leaked(b)
    BY <1>2 DEF EndsAccounted
  <2>2. CASE b = c
    BY <1>3, <2>1, <2>2 DEF Leaked
  <2>3. CASE b # c
    BY <1>1, <1>2, <2>1, <2>3 DEF Leaked
  <2> QED
    BY <2>2, <2>3
<1>8. OneEach(fdt)' /\ StdKept'
  BY <1>2 DEF OneEach, StdKept
<1>9. CallUnderWay'
  <2>1. Holds(fdt, StreamEnd(c))'
    BY <1>2, <1>3, <1>5 DEF Holds
  <2>2. StreamEnd(cur)' = StreamEnd(c)'
    BY <1>2 DEF StreamEnd
  <2> QED
    BY <1>2, <1>3, <2>1, <2>2 DEF CallUnderWay, Holds
<1>10. ResultTellsChild'
  BY <1>2, <1>3 DEF ResultTellsChild
<1>11. StreamsTracked'
  <2>1. \A e \in Fd : childpid'[e] # 0 =>
          /\ fdt'[e] = <<childpid'[e], type'[childpid'[e]]>>
          /\ result'[childpid'[e]] = "open"
          /\ kid'[childpid'[e]].st # "none"
    BY <1>2, <1>6 DEF StreamsTracked, StreamEnd
  <2>2. \A b \in Calls : result'[b] = "open" => \E e \in Fd : childpid'[e] = b
    BY <1>1, <1>2 DEF StreamsTracked
  <2>3. \A e, f \in Fd : childpid'[e] # 0 /\ childpid'[e] = childpid'[f] => e = f
    BY <1>2 DEF StreamsTracked
  <2> QED
    BY <2>1, <2>2, <2>3 DEF StreamsTracked, StreamEnd
<1>12. NoForgottenChild'
  BY <1>1, <1>2, <1>3 DEF NoForgottenChild
<1>13. ChildInv'
  BY <1>2, <1>3, ChildrenRest DEF Leaked
<1> QED
  BY <1>4, <1>7, <1>8, <1>9, <1>10, <1>11, <1>12, <1>13 DEF IInv, ParentInv, ChildrenTracked

\* fclose() takes the stream's end out of the parent's table, whatever it returns.
LEMMA StreamClosed ==
  ASSUME IInv, pc = "fclose", fdt' = Closed(fdt, FdOf(fdt, StreamEnd(cur)))
  PROVE  /\ cur \in Calls /\ result[cur] = "closing" /\ kid[cur].st # "none" /\ cur <= ncalls
         /\ fdt' \in Tables /\ OneEach(fdt)' /\ StdKept'
         /\ \A d \in Fd : /\ fdt'[d] \in {Free, fdt[d]}
                          /\ fdt'[d] # StreamEnd(cur)
                          /\ childpid[d] # 0 => childpid[d] # cur /\ fdt'[d] = fdt[d]
         /\ \A d \in Fd, c \in Calls, x \in Types : fdt'[d] = <<c, x>> =>
              \/ c # cur /\ result[c] = "open" /\ <<c, x>> = StreamEnd(c) /\ childpid[d] = c
              \/ c # cur /\ Leaked(c)
<1> DEFINE fs == FdOf(fdt, StreamEnd(cur))
<1> USE ParentFacts
<1>1. cur \in Calls /\ result[cur] = "closing" /\ kid[cur].st # "none" /\ cur <= ncalls
  BY DEF TypeOK, CallUnderWay
<1>2. fs \in Fd /\ fdt[fs] = StreamEnd(cur) /\ StreamEnd(cur) \in End
  BY <1>1, FdOfHeld, TwoEnds DEF CallUnderWay
<1>3. Free \notin End /\ File \notin End /\ Free # File
  BY PopenAssumption DEF End, Free, File, Calls
<1>4. fdt' \in Tables /\ \A d \in Fd : fdt'[d] = IF d = fs THEN Free ELSE fdt[d]
  BY <1>2, ClosedTable DEF TypeOK
<1>5. \A d \in Fd : fdt[d] = StreamEnd(cur) => d = fs
  BY <1>2 DEF OneEach
<1>6. OneEach(fdt)'
  BY <1>3, <1>4 DEF OneEach
<1>7. StdKept'
  BY <1>2, <1>3, <1>4 DEF StdKept
<1>8. ASSUME NEW d \in Fd, childpid[d] # 0
      PROVE  childpid[d] # cur /\ fdt'[d] = fdt[d]
  <2>1. /\ childpid[d] \in Calls /\ result[childpid[d]] = "open"
        /\ fdt[d] = StreamEnd(childpid[d])
    BY <1>8 DEF StreamsTracked
  <2>2. StreamEnd(childpid[d]) = StreamEnd(cur) => childpid[d] = cur
    BY DEF StreamEnd
  <2> QED
    BY <1>1, <1>2, <1>4, <2>1, <2>2
<1>9. ASSUME NEW d \in Fd, NEW c \in Calls, NEW x \in Types, fdt'[d] = <<c, x>>
      PROVE  \/ c # cur /\ result[c] = "open" /\ <<c, x>> = StreamEnd(c) /\ childpid[d] = c
             \/ c # cur /\ Leaked(c)
  <2>1. d # fs /\ fdt[d] = <<c, x>>
    BY <1>4, <1>9, EndForm
  <2> QED
    BY <1>1, <1>5, <2>1 DEF EndsAccounted, Leaked
<1> QED
  BY <1>1, <1>2, <1>3, <1>4, <1>5, <1>6, <1>7, <1>8, <1>9

LEMMA PcloseFcloseInv ==
  ASSUME IInv, PcloseFclose
  PROVE  IInv'
<1> USE ParentFacts
<1>1. /\ pc = "fclose" /\ pc' = "waitpid" /\ fdt' = Closed(fdt, FdOf(fdt, StreamEnd(cur)))
      /\ UNCHANGED <<childpid, allocated, type, ncalls, kid, cur, result, interrupts>>
  BY DEF PcloseFclose
<1>2. /\ cur \in Calls /\ result[cur] = "closing" /\ kid[cur].st # "none" /\ cur <= ncalls
      /\ fdt' \in Tables /\ OneEach(fdt)' /\ StdKept'
      /\ \A d \in Fd : childpid[d] # 0 => fdt'[d] = fdt[d]
      /\ \A d \in Fd, c \in Calls, x \in Types : fdt'[d] = <<c, x>> =>
           \/ c # cur /\ result[c] = "open" /\ <<c, x>> = StreamEnd(c) /\ childpid[d] = c
           \/ c # cur /\ Leaked(c)
  BY <1>1, StreamClosed
<1>3. TypeOK'
  BY <1>1, <1>2 DEF TypeOK, PC
<1>4. \A c \in Calls : StreamEnd(c)' = StreamEnd(c)
  BY <1>1 DEF StreamEnd
<1>5. EndsAccounted' /\ CallUnderWay' /\ ResultTellsChild'
  BY <1>1, <1>2, <1>4 DEF EndsAccounted, CallUnderWay, ResultTellsChild, Leaked
<1>6. StreamsTracked' /\ NoForgottenChild'
  BY <1>1, <1>2, <1>4 DEF StreamsTracked, NoForgottenChild
<1>7. ChildInv'
  BY <1>1, ChildrenRest DEF Leaked
<1> QED
  BY <1>2, <1>3, <1>5, <1>6, <1>7 DEF IInv, ParentInv, ChildrenTracked

LEMMA PcloseFlushFailsInv ==
  ASSUME IInv, PcloseFlushFails
  PROVE  IInv'
<1> USE ParentFacts
<1>1. /\ pc = "fclose" /\ pc' = "idle" /\ fdt' = Closed(fdt, FdOf(fdt, StreamEnd(cur)))
      /\ UNCHANGED <<childpid, allocated, type, ncalls, kid, cur, interrupts>>
  BY DEF PcloseFlushFails
<1>2. /\ cur \in Calls /\ result[cur] = "closing" /\ kid[cur].st # "none" /\ cur <= ncalls
      /\ fdt' \in Tables /\ OneEach(fdt)' /\ StdKept'
      /\ \A d \in Fd : childpid[d] # 0 => childpid[d] # cur /\ fdt'[d] = fdt[d]
      /\ \A d \in Fd, c \in Calls, x \in Types : fdt'[d] = <<c, x>> =>
           \/ c # cur /\ result[c] = "open" /\ <<c, x>> = StreamEnd(c) /\ childpid[d] = c
           \/ c # cur /\ Leaked(c)
  BY <1>1, StreamClosed
<1>3. /\ \A c \in Calls : result'[c] = IF c = cur THEN "EPIPE" ELSE result[c]
      /\ result' \in [Calls -> Results]
  BY <1>2 DEF PcloseFlushFails, TypeOK, Results
<1>4. TypeOK'
  BY <1>1, <1>2, <1>3 DEF TypeOK, PC
<1>5. \A c \in Calls : StreamEnd(c)' = StreamEnd(c)
  BY <1>1 DEF StreamEnd
<1>6. EndsAccounted' /\ CallUnderWay' /\ ResultTellsChild'
  BY <1>1, <1>2, <1>3, <1>5 DEF EndsAccounted, CallUnderWay, ResultTellsChild, Leaked
<1>7. StreamsTracked'
  BY <1>1, <1>2, <1>3, <1>5 DEF StreamsTracked
<1>8. NoForgottenChild'
  BY <1>1, <1>3 DEF NoForgottenChild
<1>9. ChildInv'
  BY <1>1, <1>2, <1>3, ChildrenRest DEF Leaked
<1> QED
  BY <1>2, <1>4, <1>6, <1>7, <1>8, <1>9 DEF IInv, ParentInv, ChildrenTracked

\* The end of a waitpid() that found its child, or found it taken.
LEMMA PcloseReturns1 ==
  ASSUME IInv, pc = "waitpid", pc' = "idle", NEW how \in {"status", "ECHILD"},
         result' = [result EXCEPT ![cur] = how],
         kid' \in [Calls -> [st : KidPC, fds : Tables, pids : [Fd -> 0..MaxCalls]]],
         kid'[cur].st = "reaped", \A b \in Calls \ {cur} : kid'[b] = kid[b],
         UNCHANGED <<fdt, childpid, allocated, type, ncalls, cur, interrupts>>
  PROVE  IInv'
<1> USE ParentFacts
<1>1. cur \in Calls /\ result[cur] = "closing" /\ kid[cur].st # "none" /\ cur <= ncalls
  BY DEF TypeOK, CallUnderWay
<1>2. /\ \A c \in Calls : result'[c] = IF c = cur THEN how ELSE result[c]
      /\ result' \in [Calls -> Results]
  BY <1>1 DEF TypeOK, Results
<1>3. TypeOK'
  BY <1>1, <1>2 DEF TypeOK, PC
<1>4. \A c \in Calls : StreamEnd(c)' = StreamEnd(c)
  BY DEF StreamEnd
<1>5. EndsAccounted' /\ CallUnderWay' /\ ResultTellsChild' /\ OneEach(fdt)' /\ StdKept'
  <2>1. EndsAccounted'
    BY <1>1, <1>2, <1>4 DEF EndsAccounted, Leaked
  <2>2. CallUnderWay'
    BY <1>1 DEF CallUnderWay
  <2>3. ResultTellsChild'
    BY <1>1, <1>2 DEF ResultTellsChild
  <2>4. OneEach(fdt)' /\ StdKept'
    BY DEF OneEach, StdKept
  <2> QED
    BY <2>1, <2>2, <2>3, <2>4
<1>6. StreamsTracked'
  BY <1>1, <1>2, <1>4 DEF StreamsTracked
<1>7. NoForgottenChild'
  BY <1>1, <1>2 DEF NoForgottenChild
<1>8. ChildInv'
  <2>1. TableOf(cur)' /\ CleanOf(cur)'
    BY DEF TableOf, CleanOf
  <2> QED
    BY <1>1, <1>2, <2>1, ChildRests DEF ChildInv, Leaked
<1> QED
  BY <1>3, <1>5, <1>6, <1>7, <1>8 DEF IInv, ParentInv, ChildrenTracked

LEMMA PcloseReapInv ==
  ASSUME IInv, PcloseReap
  PROVE  IInv'
<1>1. cur \in Calls /\ TypeOK
  BY DEF PcloseReap, IInv, TypeOK
<1> QED
  BY <1>1, ReapEffect, PcloseReturns1 DEF PcloseReap

LEMMA PcloseNoChildInv ==
  ASSUME IInv, PcloseNoChild
  PROVE  IInv'
<1>1. kid \in [Calls -> [st : KidPC, fds : Tables, pids : [Fd -> 0..MaxCalls]]]
  BY DEF IInv, TypeOK
<1> QED
  BY <1>1, PcloseReturns1 DEF PcloseNoChild

LEMMA PcloseInterruptedInv ==
  ASSUME IInv, PcloseInterrupted
  PROVE  IInv'
<1> USE ParentFacts
<1>1. /\ UNCHANGED <<fdt, childpid, allocated, type, ncalls, kid, pc, cur, result>>
      /\ interrupts' \in 0..MaxInterrupts
  BY PopenAssumption DEF PcloseInterrupted, TypeOK
<1>2. TypeOK'
  BY <1>1 DEF TypeOK
<1>3. ParentInv' /\ ChildrenTracked'
  BY <1>1, ParentRests
<1>4. ChildInv'
  BY <1>1, ChildrenRest DEF Leaked
<1> QED
  BY <1>2, <1>3, <1>4 DEF IInv

------------------------------------------------------------------------------
(* The steps of the application *)

\* A file that is opened or closed takes no end of a pipe with it.
LEMMA AppStep ==
  ASSUME IInv, pc = "idle", NEW d \in Fd, NEW r \in {Free, File}, fdt[d] \in {Free, File},
         d \in StdOpen => r = File, fdt' = [fdt EXCEPT ![d] = r],
         UNCHANGED <<childpid, allocated, type, ncalls, kid, pc, cur, result, interrupts>>
  PROVE  IInv'
<1> USE ParentFacts
<1>1. fdt' \in Tables /\ \A e \in Fd : fdt'[e] = IF e = d THEN r ELSE fdt[e]
  <2>1. r \in Refs /\ fdt \in Tables
    BY DEF TypeOK, Refs
  <2> QED
    BY <2>1 DEF Tables
<1>2. TypeOK'
  BY <1>1 DEF TypeOK
<1>3. Free \notin End /\ File \notin End
  BY PopenAssumption DEF End, Free, File, Calls
<1>4. \A c \in Calls, x \in Types : <<c, x>> \in End
  BY EndForm
<1>5. \A c \in Calls : StreamEnd(c)' = StreamEnd(c) /\ StreamEnd(c) \in End
  BY TwoEnds DEF StreamEnd
<1>6. EndsAccounted' /\ OneEach(fdt)' /\ StdKept' /\ CallUnderWay' /\ ResultTellsChild'
  <2>1. EndsAccounted'
    BY <1>1, <1>3, <1>4, <1>5 DEF EndsAccounted, Leaked
  <2>2. OneEach(fdt)' /\ StdKept'
    BY <1>1, <1>3 DEF OneEach, StdKept
  <2> QED
    BY <2>1, <2>2 DEF CallUnderWay, ResultTellsChild
<1>7. StreamsTracked'
  <2>1. \A e \in Fd : childpid[e] # 0 => fdt'[e] = fdt[e]
    BY <1>1, <1>3, <1>5 DEF StreamsTracked
  <2> QED
    BY <1>5, <2>1 DEF StreamsTracked
<1>8. NoForgottenChild'
  BY DEF NoForgottenChild
<1>9. ChildInv'
  BY ChildrenRest DEF Leaked
<1> QED
  BY <1>2, <1>6, <1>7, <1>8, <1>9 DEF IInv, ParentInv, ChildrenTracked

LEMMA AppOpenInv ==
  ASSUME IInv, AppOpen
  PROVE  IInv'
<1>1. PICK d \in Fd : fdt[d] = Free /\ fdt' = [fdt EXCEPT ![d] = File]
  BY DEF AppOpen, IsLowest, FreeFds
<1> QED
  BY <1>1, AppStep DEF AppOpen

LEMMA AppCloseInv ==
  ASSUME IInv, NEW d \in Fd, AppClose(d)
  PROVE  IInv'
BY AppStep DEF AppClose, Closed

------------------------------------------------------------------------------
(* The invariant and what follows from it *)

LEMMA StepIInv == IInv /\ [Next]_vars => IInv'
<1> SUFFICES ASSUME IInv, [Next]_vars PROVE IInv'
  OBVIOUS
<1>1. CASE Parent
  BY <1>1, PopenPipeInv, PopenNoPipeInv, PopenForkInv, PopenNoForkInv, PopenParentInv,
     PopenNoStreamInv, PcloseBeginInv, PcloseFcloseInv, PcloseFlushFailsInv, PcloseReapInv,
     PcloseInterruptedInv, PcloseNoChildInv DEF Parent
<1>2. CASE Child
  BY <1>2, PlumbInv, CloseStreamsInv, ClosesEndInv, ExitInv DEF Child
<1>3. CASE App
  BY <1>3, AppWaitInv, AppOpenInv, AppCloseInv DEF App
<1>4. CASE UNCHANGED vars
  <2> USE ParentFacts
  <2>1. UNCHANGED <<fdt, childpid, allocated, type, ncalls, kid, pc, cur, result, interrupts>>
    BY <1>4 DEF vars
  <2>2. ParentInv' /\ ChildrenTracked'
    BY <2>1, ParentRests
  <2>3. ChildInv'
    BY <2>1, ChildrenRest DEF Leaked
  <2> QED
    BY <2>1, <2>2, <2>3 DEF IInv, TypeOK
<1> QED
  BY <1>1, <1>2, <1>3, <1>4 DEF Next

\* All of it holds in every state that popen_l() and pclose_l() reach.
THEOREM Invariance == Spec => []IInv
BY InitIInv, StepIInv, PTL DEF Spec

\* Descriptors, childpid[] and the states of the children keep their types.
THEOREM TypeCorrect == Spec => []TypeOK
<1>1. IInv => TypeOK
  BY DEF IInv
<1> QED
  BY <1>1, Invariance, PTL

\* childpid[] names every child and every stream of popen_l() that is there,
\* and nothing else (lines 112-125 and 143-178).
THEOREM Tracked == Spec => []ChildrenTracked
<1>1. IInv => ChildrenTracked
  BY DEF IInv
<1> QED
  BY <1>1, Invariance, PTL

\* A command has no end of a pipe but its own and leaked ones (lines 101-109).
THEOREM NotInherited == Spec => []NoInheritedStream
<1>1. ASSUME IInv PROVE NoInheritedStream
  <2> SUFFICES ASSUME NEW c \in Calls, kid[c].st = "running",
                      NEW d \in Fd, kid[c].fds[d] \in End
               PROVE  \/ kid[c].fds[d] = CommandEnd(c) /\ d = StdFd(c)
                      \/ result[kid[c].fds[d][1]] \in {"noforks", "nostream"}
    BY DEF NoInheritedStream
  <2>1. PICK b \in Calls, x \in Types : kid[c].fds[d] = <<b, x>>
    BY DEF End
  <2> QED
    BY <1>1, <2>1 DEF IInv, ChildInv, CleanOf, Leaked
<1> QED
  BY <1>1, Invariance, PTL

\* The loop that closes the streams of earlier calls leaves the command its end
\* (lines 75-109), provided the program has 0 and 1 open when it starts.
THEOREM OnPipe ==
  ASSUME {0, 1} \subseteq StdOpen
  PROVE  Spec => CommandOnPipe
<1>1. ASSUME IInv, [Next]_vars, NEW c \in Calls, kid[c].st = "plumbed", kid'[c].st = "running"
      PROVE  kid'[c].fds[StdFd(c)] = CommandEnd(c)
  <2>1. kid[c].fds[StdFd(c)] = CommandEnd(c) /\ kid[c].pids[StdFd(c)] = 0 /\ StdFd(c) \in Fd
    BY <1>1, StdForm DEF IInv, ChildInv, TableOf
  <2>2. kid \in [Calls -> [st : KidPC, fds : Tables, pids : [Fd -> 0..MaxCalls]]]
    BY <1>1 DEF IInv, TypeOK
  <2>3. ChildCloseStreams(c)
    <3>1. ~(\E b \in Calls : ChildPlumb(b) \/ CommandClosesEnd(b) \/ CommandExit(b) \/ AppWait(b))
      BY <1>1, <2>2 DEF ChildPlumb, CommandClosesEnd, CommandExit, AppWait, SetKid
    <3>2. \A b \in Calls : ChildCloseStreams(b) => b = c
      BY <1>1, <2>2 DEF ChildCloseStreams, SetKid
    <3>3. ~PopenFork /\ ~PcloseReap
      BY <1>1, <2>2 DEF PopenFork, PcloseReap, IInv, TypeOK
    <3>4. kid' # kid
      BY <1>1
    <3> QED
      BY <1>1, <3>1, <3>2, <3>3, <3>4
         DEF Next, Parent, Child, App, vars, PopenPipe, PopenNoPipe, PopenNoFork, PopenParent,
             PopenNoStream, PcloseBegin, PcloseFclose, PcloseFlushFails, PcloseInterrupted,
             PcloseNoChild, AppOpen, AppClose
  <2>4. kid'[c].fds = WithoutStreams(kid[c].fds, kid[c].pids)
    BY <2>2, <2>3 DEF ChildCloseStreams, SetKid
  <2> QED
    BY <2>1, <2>4 DEF WithoutStreams
<1>2. IInv /\ [Next]_vars =>
        [\A c \in Calls : kid[c].st = "plumbed" /\ kid'[c].st = "running" =>
           kid'[c].fds[StdFd(c)] = CommandEnd(c)]_vars
  BY <1>1
<1> QED
  BY <1>2, Invariance, PTL DEF Spec, CommandOnPipe


\* What holds of the comment at lines 140-142: a pclose_l() that has waited, and
\* is told a status or that there is none, leaves no child that has not ended.
THEOREM WaitedFor ==
  Spec => [](\A c \in Calls : result[c] \in {"status", "ECHILD"} => kid[c].st = "reaped")
<1>1. IInv => \A c \in Calls : result[c] \in {"status", "ECHILD"} => kid[c].st = "reaped"
  BY DEF IInv, ParentInv, ResultTellsChild
<1> QED
  BY <1>1, Invariance, PTL

------------------------------------------------------------------------------
(* Popen implements PopenSpec *)

\* A step after which the caller and the command of every call but c are as
\* before, and what is promised of c has changed to s and m.
LEMMA AbstractStep ==
  ASSUME NEW c \in Calls, NEW s, NEW m, StreamOf(c)' = s, CommandOf(c)' = m,
         \A b \in Calls \ {c} : StreamOf(b)' = StreamOf(b) /\ CommandOf(b)' = CommandOf(b)
  PROVE  /\ [b \in Calls |-> StreamOf(b)]' = [[b \in Calls |-> StreamOf(b)] EXCEPT ![c] = s]
         /\ [b \in Calls |-> CommandOf(b)]' = [[b \in Calls |-> CommandOf(b)] EXCEPT ![c] = m]
OBVIOUS

\* A step that changes nothing a caller was promised.
LEMMA AbstractStutter ==
  ASSUME \A b \in Calls : StreamOf(b)' = StreamOf(b) /\ CommandOf(b)' = CommandOf(b)
  PROVE  UNCHANGED Abstract!vars
BY DEF Abstract!vars

\* The results and the states that the promises do not tell apart.
LEMMA PromiseOf ==
  ASSUME NEW c \in Calls
  PROVE  /\ result[c] \in {"none", "open", "closing"} => StreamOf(c) = result[c]
         /\ result[c] = "status" => StreamOf(c) = "closed"
         /\ result[c] = "ECHILD" => StreamOf(c) = "unavailable"
         /\ result[c] \in {"nostream", "EPIPE"} => StreamOf(c) = "lost"
         /\ result[c] = "noforks" => StreamOf(c) = "none"
         /\ kid[c].st = "none" => CommandOf(c) = "none"
         /\ kid[c].st = "zombie" => CommandOf(c) = "exited"
         /\ kid[c].st = "reaped" => CommandOf(c) = "collected"
         /\ kid[c].st \in {"forked", "plumbed", "running"} => CommandOf(c) = "running"
BY DEF StreamOf, CommandOf

\* What each step does to the results and to the states of the children; the
\* steps of a child and of the application that no promise is about come last.
LEMMA StepEffect ==
  ASSUME IInv, Next
  PROVE  \/ /\ pc = "piped" /\ kid[cur].st = "none" /\ result[cur] = "none"
            /\ result' = result /\ kid'[cur].st = "forked"
            /\ \A b \in Calls \ {cur} : kid'[b] = kid[b]
         \/ /\ pc = "piped" /\ result[cur] = "none" /\ kid' = kid
            /\ result' = [result EXCEPT ![cur] = "noforks"]
         \/ /\ pc = "forked" /\ result[cur] = "none" /\ kid[cur].st # "none" /\ kid' = kid
            /\ \E how \in {"open", "nostream"} : result' = [result EXCEPT ![cur] = how]
         \/ /\ kid' = kid
            /\ \E c \in Calls : result[c] = "open" /\ result' = [result EXCEPT ![c] = "closing"]
         \/ /\ pc = "fclose" /\ result[cur] = "closing" /\ kid[cur].st # "none" /\ kid' = kid
            /\ result' = [result EXCEPT ![cur] = "EPIPE"]
         \/ /\ pc = "waitpid" /\ result[cur] = "closing" /\ kid[cur].st = "zombie"
            /\ result' = [result EXCEPT ![cur] = "status"] /\ kid'[cur].st = "reaped"
            /\ \A b \in Calls \ {cur} : kid'[b] = kid[b]
         \/ /\ pc = "waitpid" /\ result[cur] = "closing" /\ kid[cur].st = "reaped"
            /\ result' = [result EXCEPT ![cur] = "ECHILD"] /\ kid' = kid
         \/ /\ result' = result
            /\ \E c \in Calls :
                 /\ \/ kid[c].st = "running" /\ kid'[c].st = "zombie"
                    \/ kid[c].st = "zombie" /\ kid'[c].st = "reaped"
                    \/ /\ kid[c].st \in {"forked", "plumbed", "running"}
                       /\ kid'[c].st \in {"forked", "plumbed", "running"}
                 /\ \A b \in Calls \ {c} : kid'[b] = kid[b]
         \/ UNCHANGED <<result, kid>>
<1>1. /\ TypeOK /\ CallUnderWay /\ StreamsTracked
      /\ kid \in [Calls -> [st : KidPC, fds : Tables, pids : [Fd -> 0..MaxCalls]]]
      /\ pc # "idle" => cur \in Calls
      /\ \A d \in Fd : childpid[d] # 0 => childpid[d] \in Calls
  BY DEF IInv, ParentInv, ChildrenTracked, TypeOK, Calls
<1>2. CASE Parent
  <2>1. CASE PopenFork
    BY <1>1, <2>1 DEF PopenFork, CallUnderWay
  <2>2. CASE PopenNoFork
    BY <1>1, <2>2 DEF PopenNoFork, CallUnderWay
  <2>3. CASE PopenParent
    BY <1>1, <2>3 DEF PopenParent, CallUnderWay
  <2>4. CASE PopenNoStream
    BY <1>1, <2>4 DEF PopenNoStream, CallUnderWay
  <2>5. CASE \E d \in Fd : PcloseBegin(d)
    BY <1>1, <2>5 DEF PcloseBegin, StreamsTracked
  <2>6. CASE PcloseFlushFails
    BY <1>1, <2>6 DEF PcloseFlushFails, CallUnderWay
  <2>7. CASE PcloseReap
    BY <1>1, <2>7 DEF PcloseReap, CallUnderWay
  <2>8. CASE PcloseNoChild
    BY <1>1, <2>8 DEF PcloseNoChild, CallUnderWay
  <2>9. CASE (\E ty \in Types : PopenPipe(ty)) \/ PopenNoPipe \/ PcloseFclose \/ PcloseInterrupted
    BY <2>9 DEF PopenPipe, PopenNoPipe, PcloseFclose, PcloseInterrupted
  <2> QED
    BY <1>2, <2>1, <2>2, <2>3, <2>4, <2>5, <2>6, <2>7, <2>8, <2>9 DEF Parent
<1>3. CASE Child
  <2>1. PICK c \in Calls : ChildPlumb(c) \/ ChildCloseStreams(c) \/ CommandClosesEnd(c) \/ CommandExit(c)
    BY <1>3 DEF Child
  <2>2. /\ result' = result
        /\ \A b \in Calls \ {c} : kid'[b] = kid[b]
        /\ \/ kid[c].st = "running" /\ kid'[c].st = "zombie"
           \/ /\ kid[c].st \in {"forked", "plumbed", "running"}
              /\ kid'[c].st \in {"forked", "plumbed", "running"}
    BY <1>1, <2>1 DEF ChildPlumb, ChildCloseStreams, CommandClosesEnd, CommandExit, SetKid
  <2> QED
    BY <2>2
<1>4. CASE App
  <2>1. CASE \E c \in Calls : AppWait(c)
    BY <1>1, <2>1 DEF AppWait
  <2>2. CASE AppOpen \/ \E d \in Fd : AppClose(d)
    BY <2>2 DEF AppOpen, AppClose
  <2> QED
    BY <1>4, <2>1, <2>2 DEF App
<1> QED
  BY <1>2, <1>3, <1>4 DEF Next

\* The promise of call c after a step, given the fields it depends on.
LEMMA PromiseAfter ==
  ASSUME NEW c \in Calls
  PROVE  /\ result'[c] \in {"none", "open", "closing"} => StreamOf(c)' = result'[c]
         /\ result'[c] = "status" => StreamOf(c)' = "closed"
         /\ result'[c] = "ECHILD" => StreamOf(c)' = "unavailable"
         /\ result'[c] \in {"nostream", "EPIPE"} => StreamOf(c)' = "lost"
         /\ result'[c] = "noforks" => StreamOf(c)' = "none"
         /\ kid'[c].st = "none" => CommandOf(c)' = "none"
         /\ kid'[c].st = "zombie" => CommandOf(c)' = "exited"
         /\ kid'[c].st = "reaped" => CommandOf(c)' = "collected"
         /\ kid'[c].st \in {"forked", "plumbed", "running"} => CommandOf(c)' = "running"
         /\ result'[c] = result[c] => StreamOf(c)' = StreamOf(c)
         /\ kid'[c].st = kid[c].st => CommandOf(c)' = CommandOf(c)
BY DEF StreamOf, CommandOf

LEMMA StepSimulated ==
  ASSUME IInv, Next
  PROVE  Abstract!Next \/ UNCHANGED Abstract!vars
<1> DEFINE S == [b \in Calls |-> StreamOf(b)]
           C == [b \in Calls |-> CommandOf(b)]
<1>1. /\ result \in [Calls -> Results]
      /\ kid \in [Calls -> [st : KidPC, fds : Tables, pids : [Fd -> 0..MaxCalls]]]
      /\ pc # "idle" => cur \in Calls
  BY DEF IInv, TypeOK
<1>2. ASSUME NEW c \in Calls, \A b \in Calls \ {c} : kid'[b] = kid[b] /\ result'[b] = result[b]
      PROVE  /\ S' = [S EXCEPT ![c] = StreamOf(c)']
             /\ C' = [C EXCEPT ![c] = CommandOf(c)']
  <2>1. \A b \in Calls \ {c} : StreamOf(b)' = StreamOf(b) /\ CommandOf(b)' = CommandOf(b)
    BY <1>2, PromiseAfter
  <2> QED
    BY <2>1
<1>3. ASSUME UNCHANGED <<result, kid>> PROVE UNCHANGED Abstract!vars
  BY <1>3 DEF Abstract!vars, StreamOf, CommandOf
<1>4. ASSUME NEW c \in Calls, result[c] = "none", kid[c].st = "none", result' = result,
             kid'[c].st = "forked", \A b \in Calls \ {c} : kid'[b] = kid[b]
      PROVE  Abstract!Start(c)
  <2>1. StreamOf(c) = "none" /\ CommandOf(c) = "none" /\ StreamOf(c)' = StreamOf(c) /\ CommandOf(c)' = "running"
    BY <1>4, PromiseOf, PromiseAfter
  <2> QED
    BY <1>2, <1>4, <2>1 DEF Abstract!Start
<1>5. ASSUME NEW c \in Calls, result[c] = "none", kid' = kid,
             result' = [result EXCEPT ![c] = "noforks"]
      PROVE  UNCHANGED Abstract!vars
  <2>1. \A b \in Calls : StreamOf(b)' = StreamOf(b) /\ CommandOf(b)' = CommandOf(b)
    BY <1>1, <1>5, PromiseOf, PromiseAfter
  <2> QED
    BY <2>1, AbstractStutter
<1>6. ASSUME NEW c \in Calls, result[c] = "none", kid[c].st # "none", kid' = kid,
             NEW how \in {"open", "nostream"}, result' = [result EXCEPT ![c] = how]
      PROVE  Abstract!Open(c) \/ Abstract!Lose(c)
  <2>1. /\ StreamOf(c) = "none" /\ CommandOf(c) # "none" /\ CommandOf(c)' = CommandOf(c)
        /\ StreamOf(c)' = IF how = "open" THEN "open" ELSE "lost"
    <3>1. result'[c] = how
      BY <1>1, <1>6
    <3>2. kid[c].st \in KidPC
      BY <1>1
    <3> QED
      BY <1>6, <3>1, <3>2, PromiseOf, PromiseAfter DEF KidPC
  <2> QED
    BY <1>1, <1>2, <1>6, <2>1 DEF Abstract!Open, Abstract!Lose
<1>7. ASSUME NEW c \in Calls, result[c] = "open", kid' = kid,
             result' = [result EXCEPT ![c] = "closing"]
      PROVE  Abstract!Close(c)
  <2>1. StreamOf(c) = "open" /\ StreamOf(c)' = "closing" /\ CommandOf(c)' = CommandOf(c)
    BY <1>1, <1>7, PromiseOf, PromiseAfter
  <2> QED
    BY <1>1, <1>2, <1>7, <2>1 DEF Abstract!Close
<1>8. ASSUME NEW c \in Calls, result[c] = "closing", kid[c].st # "none", kid' = kid,
             result' = [result EXCEPT ![c] = "EPIPE"]
      PROVE  Abstract!Lose(c)
  <2>1. /\ StreamOf(c) = "closing" /\ StreamOf(c)' = "lost"
        /\ CommandOf(c) # "none" /\ CommandOf(c)' = CommandOf(c)
    <3>1. kid[c].st \in KidPC
      BY <1>1
    <3> QED
      BY <1>1, <1>8, <3>1, PromiseOf, PromiseAfter DEF KidPC
  <2> QED
    BY <1>1, <1>2, <1>8, <2>1 DEF Abstract!Lose
<1>9. ASSUME NEW c \in Calls, result[c] = "closing", kid[c].st = "zombie",
             result' = [result EXCEPT ![c] = "status"], kid'[c].st = "reaped",
             \A b \in Calls \ {c} : kid'[b] = kid[b]
      PROVE  Abstract!Collect(c)
  <2>1. /\ StreamOf(c) = "closing" /\ StreamOf(c)' = "closed"
        /\ CommandOf(c) = "exited" /\ CommandOf(c)' = "collected"
    BY <1>1, <1>9, PromiseOf, PromiseAfter
  <2> QED
    BY <1>1, <1>2, <1>9, <2>1 DEF Abstract!Collect
<1>10. ASSUME NEW c \in Calls, result[c] = "closing", kid[c].st = "reaped", kid' = kid,
              result' = [result EXCEPT ![c] = "ECHILD"]
       PROVE  Abstract!Unavailable(c)
  <2>1. /\ StreamOf(c) = "closing" /\ StreamOf(c)' = "unavailable"
        /\ CommandOf(c) = "collected" /\ CommandOf(c)' = CommandOf(c)
    BY <1>1, <1>10, PromiseOf, PromiseAfter
  <2> QED
    BY <1>1, <1>2, <1>10, <2>1 DEF Abstract!Unavailable
<1>11. ASSUME NEW c \in Calls, result' = result, \A b \in Calls \ {c} : kid'[b] = kid[b],
              \/ kid[c].st = "running" /\ kid'[c].st = "zombie"
              \/ kid[c].st = "zombie" /\ kid'[c].st = "reaped"
       PROVE  Abstract!Exit(c) \/ Abstract!Steal(c)
  <2>1. /\ StreamOf(c)' = StreamOf(c)
        /\ \/ CommandOf(c) = "running" /\ CommandOf(c)' = "exited"
           \/ CommandOf(c) = "exited" /\ CommandOf(c)' = "collected"
    BY <1>11, PromiseOf, PromiseAfter
  <2> QED
    BY <1>2, <1>11, <2>1 DEF Abstract!Exit, Abstract!Steal
<1>12. ASSUME NEW c \in Calls, result' = result, \A b \in Calls \ {c} : kid'[b] = kid[b],
              kid[c].st \in {"forked", "plumbed", "running"},
              kid'[c].st \in {"forked", "plumbed", "running"}
       PROVE  UNCHANGED Abstract!vars
  <2>1. \A b \in Calls : StreamOf(b)' = StreamOf(b) /\ CommandOf(b)' = CommandOf(b)
    BY <1>12, PromiseOf, PromiseAfter
  <2> QED
    BY <2>1, AbstractStutter
<1> HIDE DEF S, C
<1>13. \/ \E c \in Calls : \/ Abstract!Start(c) \/ Abstract!Open(c) \/ Abstract!Lose(c)
                           \/ Abstract!Exit(c) \/ Abstract!Steal(c) \/ Abstract!Close(c)
                           \/ Abstract!Collect(c) \/ Abstract!Unavailable(c)
       \/ UNCHANGED Abstract!vars
  BY StepEffect, <1>1, <1>3, <1>4, <1>5, <1>6, <1>7, <1>8, <1>9, <1>10, <1>11, <1>12
<1> QED
  BY <1>13 DEF Abstract!Next

\* popen_l() and pclose_l() keep what PopenSpec promises of every stream and
\* command (lines 37-178).
THEOREM Refinement == Spec => ImplementsPopenSpec
<1>1. Init => Abstract!Init
  BY DEF Init, Abstract!Init, StreamOf, CommandOf, NoKid
<1>2. IInv /\ [Next]_vars => [Abstract!Next]_(Abstract!vars)
  <2>1. ASSUME IInv, Next PROVE Abstract!Next \/ UNCHANGED Abstract!vars
    BY <2>1, StepSimulated
  <2>2. ASSUME UNCHANGED vars PROVE UNCHANGED Abstract!vars
    BY <2>2 DEF vars, Abstract!vars, StreamOf, CommandOf
  <2> QED
    BY <2>1, <2>2
<1> QED
  BY <1>1, <1>2, Invariance, PTL DEF Spec, ImplementsPopenSpec, Abstract!Spec
==============================================================================
