----------------------------- MODULE SharedFile -----------------------------
(***************************************************************************)
(* 3-fileio/8-sharing and 3-fileio/9-atomic: the programs a.c and b.c of   *)
(* each directory write three records to the same file.  In 8-sharing each *)
(* writes at its own offset, in 9-atomic at the end of the file (O_APPEND). *)
(* The second half of 8-sharing/a.c does the same with two descriptors of  *)
(* one process, which it uses in turn.                                     *)
(***************************************************************************)
EXTENDS Integers, Sequences, FiniteSets

CONSTANTS Appends,  \* O_APPEND is set
          InTurn,   \* one process has both descriptors
          Size,     \* bytes of the record each of them writes
          Times     \* records each of them writes

Writers == {"a", "b"} \* descriptors, each opened for itself

VARIABLES content, \* the bytes of the file
          offset,  \* of each descriptor
          count,   \* records written so far
          at,      \* "open", "write", "closed", or "failed"
          length0  \* size of the file before

vars == <<content, offset, count, at, length0>>

\* A byte is known by its writer and its place in the record.
Record(w) == [i \in 1..Size[w] |-> <<w, i>>]
Old(n)    == [i \in 1..n |-> <<"old", i>>]

Init == /\ length0 \in {0, 3} /\ content = Old(length0)
        /\ offset = [w \in Writers |-> 0]
        /\ count = [w \in Writers |-> 0]
        /\ at = [w \in Writers |-> "open"]

\* Mutant: O_TRUNC.
Open_Truncates(w) == /\ at[w] = "open" /\ at' = [at EXCEPT ![w] = "write"]
                     /\ content' = <<>>
                     /\ UNCHANGED <<offset, count, length0>>

\* open() with O_CREAT: what is there stays.
Open(w) == /\ at[w] = "open" /\ at' = [at EXCEPT ![w] = "write"]
           /\ UNCHANGED <<content, offset, count, length0>>

\* Mutant: a program keeps account of the end of the file itself.
Position_Seek(w) == IF Appends /\ count[w] = 0 THEN Len(content) ELSE offset[w]

\* Where write() puts the next byte.
Position(w) == IF Appends THEN Len(content) ELSE offset[w]

\* The file after n bytes of w's record have been written there.
Written(w, n) ==
  LET p == Position(w)
      length == IF p + n > Len(content) THEN p + n ELSE Len(content)
  IN  [i \in 1..length |-> IF i \in p + 1..p + n THEN <<w, i - p>> ELSE content[i]]

\* Mutant: the descriptors are made by dup().
Advance_Shared(w, n) == [v \in Writers |-> Position(w) + n]

\* write() moves the offset of its own descriptor only.
Advance(w, n) == [offset EXCEPT ![w] = Position(w) + n]

\* a.c, lines 57-65: ui1, ui2, ui1, ...
Turn(w) == InTurn => /\ \A v \in Writers : at[v] = "write"
                     /\ count["a"] = IF w = "a" THEN count["b"] ELSE count["b"] + 1

\* A program ends when its file, or one of its two, cannot be opened.
OpenFails(w) == /\ at[w] = "open" /\ at' = [at EXCEPT ![w] = "failed"]
                /\ UNCHANGED <<content, offset, count, length0>>

Write(w) == /\ at[w] = "write" /\ count[w] < Times /\ Turn(w)
            /\ content' = Written(w, Size[w])
            /\ offset' = Advance(w, Size[w])
            /\ count' = [count EXCEPT ![w] = @ + 1]
            /\ UNCHANGED <<at, length0>>

\* The disk is full: fewer bytes than asked for, and the program ends.
ShortWrite(w) == /\ at[w] = "write" /\ count[w] < Times /\ Turn(w)
                 /\ \E n \in 0..Size[w] - 1 :
                      content' = Written(w, n) /\ offset' = Advance(w, n)
                 /\ at' = [at EXCEPT ![w] = "failed"]
                 /\ UNCHANGED <<count, length0>>

Close(w) == /\ at[w] = "write" /\ count[w] = Times
            /\ InTurn => \A v \in Writers : count[v] = Times
            /\ at' = [at EXCEPT ![w] = "closed"]
            /\ UNCHANGED <<content, offset, count, length0>>

Next == \E w \in Writers : Open(w) \/ OpenFails(w) \/ Write(w) \/ ShortWrite(w) \/ Close(w)

Spec == Init /\ [][Next]_vars

------------------------------------------------------------------------------
(* What must hold *)

Bytes == ({"old"} \X {1, 2, 3}) \cup UNION {{w} \X (1..Size[w]) : w \in Writers}

TypeOK == /\ content \in Seq(Bytes) /\ length0 \in {0, 3}
          /\ offset \in [Writers -> Nat] /\ count \in [Writers -> 0..Times]
          /\ \A w \in Writers : offset[w] <= Len(content)
          /\ at \in [Writers -> {"open", "write", "closed", "failed"}]

\* 8-sharing/a.c, lines 7-18 and 45-50: each descriptor has an offset of its
\* own.  A byte is what one of those who have been past it has put there, at its
\* place in that one's records; beyond all offsets it is as it was.
EachAtItsOffset ==
  ~Appends => \A p \in DOMAIN content :
    LET past == {w \in Writers : offset[w] >= p}
    IN  IF past = {} THEN p <= length0 /\ content[p] = <<"old", p>>
        ELSE \E w \in past : content[p] = <<w, ((p - 1) % Size[w]) + 1>>

\* 9-atomic: what was there is still there, and so is each record written.
NothingOverwritten ==
  Appends =>
    /\ length0 <= Len(content) /\ \A p \in 1..length0 : content[p] = <<"old", p>>
    /\ \A w \in Writers : at[w] # "failed" =>
         \A i \in 1..Size[w] :
           Cardinality({p \in DOMAIN content : content[p] = <<w, i>>}) = count[w]

\* A record that was cut short counts as far as it was written.
Prefixes(w) == {SubSeq(Record(w), 1, n) : n \in 0..Size[w]}

Log == INSTANCE AppendLog WITH Records <- UNION {Prefixes(w) : w \in Writers},
                               Start <- {Old(0), Old(3)}, log <- content

\* The file of 9-atomic is an append-only log: "move to the end and write" is
\* one step, whoever else writes (a.c, lines 11-16).
ImplementsAppendLog == /\ Appends => Log!Init
                       /\ [][Appends => Log!AppendRecord]_content
==============================================================================
