----------------------------- MODULE FileProofs -----------------------------
(***************************************************************************)
(* The invariants of the programs of FilePrograms, each with an inductive  *)
(* invariant of its own, for any number of runs.                           *)
(***************************************************************************)
EXTENDS FilePrograms, FiniteSetTheorems, SequenceTheorems, WellFoundedInduction, TLAPS

Procs == Launches \X {"parent", "child"}

LEMMA ProcForm ==
  /\ \A l \in Launches : /\ <<l, "parent">> \in Procs /\ <<l, "child">> \in Procs
                         /\ <<l, "parent">> # <<l, "child">>
  /\ \A p \in Procs : p[1] \in Launches /\ (p = <<p[1], "parent">> \/ p = <<p[1], "child">>)
BY DEF Procs

------------------------------------------------------------------------------
(* Record locks on the bytes of a file *)

Kinds == {"none", "read", "write"}

\* A byte that one process has for writing is nobody else's.
Locked(bytes) ==
  /\ locks \in [Procs -> [bytes -> Kinds]] /\ waits \in [Procs -> Procs \cup {NoOne}]
  /\ \A p, q \in Procs : \A b \in bytes :
       p # q /\ locks[p][b] = "write" => locks[q][b] = "none"

\* What a process asks for or gives back.
Change(bytes, p, type, region) ==
  locks' = [locks EXCEPT ![p] = [b \in bytes |-> IF b \in region THEN type ELSE @[b]]]

\* Nobody is in the way.
Clear(p, type, region) ==
  \A q \in Procs \ {p} : \A b \in region :
    locks[q][b] # "write" /\ (type = "write" => locks[q][b] # "read")

LEMMA ChangeLocks ==
  ASSUME NEW bytes, Locked(bytes), NEW p \in Procs, NEW type \in Kinds, NEW region,
         Change(bytes, p, type, region)
  PROVE  /\ locks' \in [Procs -> [bytes -> Kinds]]
         /\ \A q \in Procs \ {p} : locks'[q] = locks[q]
         /\ \A b \in bytes : locks'[p][b] = IF b \in region THEN type ELSE locks[p][b]
BY DEF Change, Locked

LEMMA GrantLocks ==
  ASSUME NEW bytes, Locked(bytes), NEW p \in Procs, NEW type \in Kinds, NEW region,
         region \subseteq bytes, Change(bytes, p, type, region), Clear(p, type, region) \/ type = "none",
         waits' \in [Procs -> Procs \cup {NoOne}]
  PROVE  Locked(bytes)'
<1>1. /\ locks' \in [Procs -> [bytes -> Kinds]]
      /\ \A q \in Procs \ {p} : locks'[q] = locks[q]
      /\ \A b \in bytes : locks'[p][b] = IF b \in region THEN type ELSE locks[p][b]
  BY ChangeLocks
<1>2. ASSUME NEW q \in Procs, NEW r \in Procs, NEW b \in bytes, q # r, locks'[q][b] = "write"
      PROVE  locks'[r][b] = "none"
  <2>1. locks[q] \in [bytes -> Kinds] /\ locks[r] \in [bytes -> Kinds]
    BY DEF Locked
  <2>2. CASE q # p /\ r # p
    BY <1>1, <1>2, <2>2 DEF Locked
  <2>3. CASE q = p
    BY <1>1, <1>2, <2>1, <2>3 DEF Locked, Clear, Kinds
  <2>4. CASE r = p /\ q # p
    BY <1>1, <1>2, <2>1, <2>4 DEF Locked, Clear, Kinds
  <2> QED
    BY <2>2, <2>3, <2>4
<1> QED
  BY <1>1, <1>2 DEF Locked

\* A process ends, or closes the file.
LEMMA DropLocks ==
  ASSUME NEW bytes, Locked(bytes), NEW p \in Procs,
         locks' = [locks EXCEPT ![p] = [b \in bytes |-> "none"]],
         waits' \in [Procs -> Procs \cup {NoOne}]
  PROVE  /\ Locked(bytes)' /\ \A q \in Procs \ {p} : locks'[q] = locks[q]
         /\ \A b \in bytes : locks'[p][b] = "none"
<1>1. /\ locks' \in [Procs -> [bytes -> Kinds]]
      /\ \A q \in Procs \ {p} : locks'[q] = locks[q]
      /\ \A b \in bytes : locks'[p][b] = "none"
  BY DEF Locked, Kinds
<1> QED
  BY <1>1 DEF Locked

LEMMA WakeTypes ==
  ASSUME waits \in [Procs -> Procs \cup {NoOne}], NEW p,
         waits' = [q \in Procs |-> IF q = p \/ waits[q] = p THEN NoOne ELSE waits[q]]
  PROVE  waits' \in [Procs -> Procs \cup {NoOne}]
OBVIOUS

LEMMA WaitTypes ==
  ASSUME waits \in [Procs -> Procs \cup {NoOne}], NEW p \in Procs, NEW q \in Procs \cup {NoOne},
         waits' = [waits EXCEPT ![p] = q]
  PROVE  /\ waits' \in [Procs -> Procs \cup {NoOne}] /\ waits'[p] = q
         /\ \A r \in Procs \ {p} : waits'[r] = waits[r]
OBVIOUS

------------------------------------------------------------------------------
(* filelock.c *)

FileLabels == {"first", "second", "return", "done", "deadlock", "killed", "fork", "nofork", "unborn"}

First(p)  == IF p[2] = "child" THEN 0 ELSE 1
Second(p) == IF p[2] = "child" THEN 1 ELSE 0

\* The byte that lockabyte() tries next.
Wanted(p) == IF pc[p] = "first" THEN First(p) ELSE Second(p)

\* A process has what it has asked for, and sleeps only for a byte of another one.
FileLockInv ==
  /\ pc \in [Procs -> FileLabels] /\ Locked({0, 1})
  /\ \A l \in Launches : /\ pc[<<l, "parent">>] # "unborn"
                         /\ pc[<<l, "child">>] \notin {"fork", "nofork"}
                         /\ pc[<<l, "parent">>] = "fork" => pc[<<l, "child">>] = "unborn"
  /\ \A p \in Procs : \A b \in {0, 1} : locks[p][b] # "read"
  /\ \A p \in Procs :
       /\ pc[p] \in {"second", "return"} => locks[p][First(p)] = "write"
       /\ pc[p] = "return" => locks[p][Second(p)] = "write"
       /\ waits[p] # NoOne => /\ pc[p] \in {"first", "second"} /\ waits[p] # p
                              /\ locks[waits[p]][Wanted(p)] = "write"

LEMMA WantedByte ==
  ASSUME NEW p \in Procs
  PROVE  R!ByteOf(p) = Wanted(p) /\ Wanted(p) \in {0, 1} /\ First(p) # Second(p)
                                 /\ First(p) \in {0, 1} /\ Second(p) \in {0, 1}
<1>1. CASE pc[p] = "first"
  <2>1. (pc[p] = "first") = (p[2] = "child") <=> p[2] = "child"
    BY <1>1, Zenon
  <2> QED
    BY <1>1, <2>1 DEF R!ByteOf, Wanted, First, Second
<1>2. CASE pc[p] # "first"
  <2>1. (pc[p] = "first") = (p[2] = "child") <=> ~(p[2] = "child")
    BY <1>2, Zenon
  <2> QED
    BY <1>2, <2>1 DEF R!ByteOf, Wanted, First, Second
<1> QED
  BY <1>1, <1>2

LEMMA FileLockStarts ==
  ASSUME R!FileLockInit PROVE FileLockInv
<1>1. /\ pc = [p \in Procs |-> IF p[2] = "parent" THEN "fork" ELSE "unborn"]
      /\ locks = [p \in Procs |-> [b \in {0, 1} |-> "none"]] /\ waits = [p \in Procs |-> NoOne]
  BY DEF R!FileLockInit, R!FileLockRL!LocksInit, R!FileLockRL!Unlocked, R!FileLockRL!Bytes, R!Procs, Procs
<1>2. Locked({0, 1})
  BY <1>1 DEF Locked, Kinds
<1> QED
  BY <1>1, <1>2, ProcForm DEF FileLockInv, FileLabels

\* fork().
LEMMA FileLockForks ==
  ASSUME FileLockInv, NEW l \in Launches, R!FileLockFork(l)
  PROVE  FileLockInv'
<1>1. /\ pc[<<l, "parent">>] = "fork" /\ pc[<<l, "child">>] = "unborn" /\ UNCHANGED <<locks, waits>>
      /\ \/ pc' = [pc EXCEPT ![<<l, "parent">>] = "first", ![<<l, "child">>] = "first"]
         \/ pc' = [pc EXCEPT ![<<l, "parent">>] = "nofork"]
  BY DEF R!FileLockFork, R!Goto, R!Parent, R!Child, FileLockInv
<1>2. /\ pc' \in [Procs -> FileLabels]
      /\ \A q \in Procs : pc'[q] = pc[q] \/ (pc'[q] \in {"first", "nofork"} /\ q[1] = l
                                              /\ pc[q] \in {"fork", "unborn"}
                                              /\ (pc'[q] = "nofork" => q[2] = "parent"))
      /\ pc'[<<l, "parent">>] \in {"first", "nofork"}
  BY <1>1, ProcForm DEF FileLockInv, FileLabels
<1>3. Locked({0, 1})'
  BY <1>1 DEF FileLockInv, Locked
<1>4. ASSUME NEW k \in Launches
      PROVE  /\ pc'[<<k, "parent">>] # "unborn" /\ pc'[<<k, "child">>] \notin {"fork", "nofork"}
             /\ pc'[<<k, "parent">>] = "fork" => pc'[<<k, "child">>] = "unborn"
  BY <1>1, <1>2, ProcForm DEF FileLockInv
<1>5. ASSUME NEW p \in Procs
      PROVE  /\ pc'[p] \in {"second", "return"} => locks'[p][First(p)] = "write"
             /\ pc'[p] = "return" => locks'[p][Second(p)] = "write"
             /\ waits'[p] # NoOne => /\ pc'[p] \in {"first", "second"} /\ waits'[p] # p
                                     /\ locks'[waits'[p]][Wanted(p)'] = "write"
  <2>1. waits[p] # NoOne => pc'[p] = pc[p]
    BY <1>2 DEF FileLockInv
  <2>2. pc'[p] = pc[p] \/ pc'[p] \in {"first", "nofork"}
    BY <1>2
  <2> QED
    BY <1>1, <2>1, <2>2 DEF FileLockInv, Wanted, First, Second
<1>6. \A p \in Procs : \A b \in {0, 1} : locks'[p][b] # "read"
  BY <1>1 DEF FileLockInv
<1> QED
  BY <1>2, <1>3, <1>4, <1>5, <1>6 DEF FileLockInv

\* fcntl() gives the byte.
LEMMA FileLockGets ==
  ASSUME FileLockInv, NEW p \in Procs, R!GetsByte(p)
  PROVE  FileLockInv'
<1> DEFINE to == IF pc[p] = "first" THEN "second" ELSE "return"
<1>1. /\ pc[p] \in {"first", "second"} /\ pc' = [pc EXCEPT ![p] = to]
      /\ R!FileLockRL!Granted(p, "write", {R!ByteOf(p)})
  BY DEF R!GetsByte, R!Locking, R!Goto
<1>2. /\ Change({0, 1}, p, "write", {Wanted(p)}) /\ Clear(p, "write", {Wanted(p)})
      /\ waits' = [waits EXCEPT ![p] = NoOne]
  <2>1. R!FileLockRL!Granted(p, "write", {Wanted(p)})
    BY <1>1, WantedByte
  <2> QED
    BY <2>1 DEF R!FileLockRL!Granted, R!FileLockRL!Put, R!FileLockRL!Owners, R!FileLockRL!Bytes,
                R!Procs, Procs, Change, Clear
<1>3. /\ waits' \in [Procs -> Procs \cup {NoOne}] /\ waits'[p] = NoOne
      /\ \A r \in Procs \ {p} : waits'[r] = waits[r]
  BY <1>2, WaitTypes DEF FileLockInv, Locked
<1>4. Locked({0, 1})' /\ Locked({0, 1})
  BY <1>2, <1>3, WantedByte, GrantLocks DEF FileLockInv, Kinds
<1>5. /\ \A q \in Procs \ {p} : locks'[q] = locks[q]
      /\ \A b \in {0, 1} : locks'[p][b] = IF b \in {Wanted(p)} THEN "write" ELSE locks[p][b]
  BY <1>2, <1>4, ChangeLocks DEF Kinds
<1>6. /\ pc' \in [Procs -> FileLabels] /\ pc'[p] = to
      /\ \A q \in Procs \ {p} : pc'[q] = pc[q]
  BY <1>1 DEF FileLockInv, FileLabels
<1>7. ASSUME NEW k \in Launches
      PROVE  /\ pc'[<<k, "parent">>] # "unborn" /\ pc'[<<k, "child">>] \notin {"fork", "nofork"}
             /\ pc'[<<k, "parent">>] = "fork" => pc'[<<k, "child">>] = "unborn"
  BY <1>1, <1>6, ProcForm DEF FileLockInv
<1>8. ASSUME NEW q \in Procs
      PROVE  /\ pc'[q] \in {"second", "return"} => locks'[q][First(q)] = "write"
             /\ pc'[q] = "return" => locks'[q][Second(q)] = "write"
             /\ waits'[q] # NoOne => /\ pc'[q] \in {"first", "second"} /\ waits'[q] # q
                                     /\ locks'[waits'[q]][Wanted(q)'] = "write"
  <2>1. CASE q = p
    BY <1>1, <1>3, <1>5, <1>6, <2>1, WantedByte DEF FileLockInv, Wanted
  <2>2. CASE q # p
    <3>1. pc'[q] = pc[q] /\ locks'[q] = locks[q] /\ waits'[q] = waits[q] /\ Wanted(q)' = Wanted(q)
      BY <1>3, <1>5, <1>6, <2>2 DEF Wanted, First, Second
    <3>2. waits[q] # NoOne /\ locks[waits[q]][Wanted(q)] = "write"
            => locks'[waits[q]][Wanted(q)] = "write"
      BY <1>3, <1>4, <1>5, WantedByte DEF Locked
    <3> QED
      BY <3>1, <3>2 DEF FileLockInv
  <2> QED
    BY <2>1, <2>2
<1>9. ASSUME NEW q \in Procs, NEW b \in {0, 1}
      PROVE  locks'[q][b] # "read"
  BY <1>5 DEF FileLockInv
<1> QED
  BY <1>4, <1>6, <1>7, <1>8, <1>9 DEF FileLockInv

\* fcntl() waits for a process that has the byte.
LEMMA FileLockSleeps ==
  ASSUME FileLockInv, NEW p \in Procs, R!SleepsForByte(p)
  PROVE  FileLockInv'
<1>1. R!FileLockRL!Sleeps(p, "write", {Wanted(p)})
  BY WantedByte DEF R!SleepsForByte
<1>2. PICK q \in Procs \ {p} : /\ locks[q][Wanted(p)] = "write" \/ locks[q][Wanted(p)] = "read"
                               /\ waits' = [waits EXCEPT ![p] = q]
  BY <1>1 DEF R!FileLockRL!Sleeps, R!FileLockRL!Owners, R!Procs, Procs
<1>3. pc[p] \in {"first", "second"} /\ UNCHANGED <<pc, locks>>
  BY DEF R!SleepsForByte, R!FileLockRL!Sleeps, R!Locking
<1>4. locks[q][Wanted(p)] = "write"
  BY <1>2, WantedByte DEF FileLockInv
<1>5. /\ waits' \in [Procs -> Procs \cup {NoOne}] /\ waits'[p] = q
      /\ \A r \in Procs \ {p} : waits'[r] = waits[r]
  BY <1>2, WaitTypes DEF FileLockInv, Locked
<1>6. Locked({0, 1})'
  BY <1>3, <1>5 DEF FileLockInv, Locked
<1>7. ASSUME NEW r \in Procs, waits'[r] # NoOne
      PROVE  /\ pc'[r] \in {"first", "second"} /\ waits'[r] # r
             /\ locks'[waits'[r]][Wanted(r)'] = "write"
  BY <1>2, <1>3, <1>4, <1>5, <1>7 DEF FileLockInv, Wanted, First, Second
<1> QED
  BY <1>3, <1>6, <1>7 DEF FileLockInv, First, Second

\* The end of a process wakes up who waits for it.
LEMMA FileLockEnds ==
  ASSUME FileLockInv, NEW p \in Procs, NEW to \in {"deadlock", "done", "killed"},
         pc[p] # "unborn", pc' = [pc EXCEPT ![p] = to], R!FileLockRL!DropAll(p)
  PROVE  FileLockInv'
<1>1. /\ locks' = [locks EXCEPT ![p] = [b \in {0, 1} |-> "none"]]
      /\ waits' = [q \in Procs |-> IF q = p \/ waits[q] = p THEN NoOne ELSE waits[q]]
  BY DEF R!FileLockRL!DropAll, R!FileLockRL!Wake, R!FileLockRL!Unlocked, R!FileLockRL!Bytes,
         R!Procs, Procs
<1>2. waits' \in [Procs -> Procs \cup {NoOne}]
  BY <1>1, WakeTypes DEF FileLockInv, Locked
<1>3. /\ Locked({0, 1})' /\ \A q \in Procs \ {p} : locks'[q] = locks[q]
      /\ \A b \in {0, 1} : locks'[p][b] = "none"
  <2>1. Locked({0, 1})
    BY DEF FileLockInv
  <2> QED
    BY <1>1, <1>2, <2>1, DropLocks
<1>4. /\ pc' \in [Procs -> FileLabels] /\ pc'[p] = to
      /\ \A q \in Procs \ {p} : pc'[q] = pc[q]
  BY DEF FileLockInv, FileLabels
<1>5. ASSUME NEW k \in Launches
      PROVE  /\ pc'[<<k, "parent">>] # "unborn" /\ pc'[<<k, "child">>] \notin {"fork", "nofork"}
             /\ pc'[<<k, "parent">>] = "fork" => pc'[<<k, "child">>] = "unborn"
  BY <1>4, ProcForm DEF FileLockInv
<1>6. ASSUME NEW q \in Procs
      PROVE  /\ pc'[q] \in {"second", "return"} => locks'[q][First(q)] = "write"
             /\ pc'[q] = "return" => locks'[q][Second(q)] = "write"
             /\ waits'[q] # NoOne => /\ pc'[q] \in {"first", "second"} /\ waits'[q] # q
                                     /\ locks'[waits'[q]][Wanted(q)'] = "write"
  <2>1. CASE q = p
    BY <1>1, <1>4, <2>1
  <2>2. CASE q # p
    <3>1. pc'[q] = pc[q] /\ locks'[q] = locks[q] /\ Wanted(q)' = Wanted(q)
      BY <1>3, <1>4, <2>2 DEF Wanted, First, Second
    <3>2. waits'[q] # NoOne => waits'[q] = waits[q] /\ waits[q] # p /\ waits[q] \in Procs
      BY <1>1, <2>2 DEF FileLockInv, Locked
    <3>3. waits'[q] # NoOne => locks'[waits'[q]] = locks[waits[q]]
      BY <1>3, <3>2
    <3> QED
      BY <3>1, <3>2, <3>3 DEF FileLockInv, First, Second
  <2> QED
    BY <2>1, <2>2
<1>7. ASSUME NEW q \in Procs, NEW b \in {0, 1}
      PROVE  locks'[q][b] # "read"
  BY <1>3 DEF FileLockInv
<1> QED
  BY <1>3, <1>4, <1>5, <1>6, <1>7 DEF FileLockInv

LEMMA FileLockSteps ==
  ASSUME FileLockInv, R!FileLockNext PROVE FileLockInv'
<1>1. CASE \E l \in Launches : R!FileLockFork(l)
  BY <1>1, FileLockForks
<1>2. ASSUME NEW p \in Procs, R!FileLockProcess(p) \/ R!FileLockKilled(p) PROVE FileLockInv'
  <2>1. CASE R!GetsByte(p)
    BY <2>1, FileLockGets
  <2>2. CASE R!SleepsForByte(p)
    BY <2>2, FileLockSleeps
  <2>3. CASE R!Deadlock(p)
    BY <2>3, FileLockEnds DEF R!Deadlock, R!Goto, R!Locking
  <2>4. CASE R!FileLockReturn(p)
    BY <2>4, FileLockEnds DEF R!FileLockReturn, R!Goto
  <2>5. CASE R!FileLockKilled(p)
    BY <2>5, FileLockEnds DEF R!FileLockKilled, R!Goto
  <2> QED
    BY <1>2, <2>1, <2>2, <2>3, <2>4, <2>5 DEF R!FileLockProcess
<1> QED
  BY <1>1, <1>2 DEF R!FileLockNext, R!Procs, Procs

LEMMA FileLockHolds ==
  ASSUME FileLockInv PROVE R!FileLockTypeOK /\ R!BothAlone
<1>1. R!FileLockTypeOK
  <2>1. \A p \in Procs : (p[2] = "parent" /\ p = <<p[1], "parent">>) \/ (p[2] = "child" /\ p = <<p[1], "child">>)
    BY ProcForm
  <2>2. R!FileLockRL!LocksTypeOK
    BY DEF FileLockInv, Locked, R!FileLockRL!LocksTypeOK, R!FileLockRL!Locks, R!FileLockRL!Bytes,
           R!Procs, Procs, Kinds
  <2>3. ASSUME NEW p \in Procs
        PROVE  pc[p] \in {"first", "second", "return", "done", "deadlock", "killed"} \cup
                         IF p[2] = "parent" THEN {"fork", "nofork"} ELSE {"unborn"}
    <3>1. pc[p] \in FileLabels
      BY DEF FileLockInv
    <3>2. PICK l \in Launches : p = <<l, "parent">> \/ p = <<l, "child">>
      BY ProcForm
    <3>3. CASE p = <<l, "parent">>
      <4>1. p[2] = "parent" /\ pc[p] # "unborn"
        BY <3>3 DEF FileLockInv
      <4> QED
        BY <3>1, <4>1 DEF FileLabels
    <3>4. CASE p = <<l, "child">>
      <4>1. p[2] # "parent" /\ pc[p] \notin {"fork", "nofork"}
        BY <3>4 DEF FileLockInv
      <4> QED
        BY <3>1, <4>1 DEF FileLabels
    <3> QED
      BY <3>2, <3>3, <3>4
  <2> QED
    BY <2>2, <2>3 DEF R!FileLockTypeOK, R!Procs, Procs
<1>2. R!FileLockRL!Compatible
  BY DEF FileLockInv, Locked, R!FileLockRL!Compatible, R!FileLockRL!Bytes, R!Procs, Procs
<1>3. ASSUME NEW p \in Procs, pc[p] = "return" PROVE locks[p] = [b \in {0, 1} |-> "write"]
  <2>1. locks[p] \in [{0, 1} -> Kinds] /\ \A b \in {0, 1} : b = First(p) \/ b = Second(p)
    BY DEF FileLockInv, Locked, First, Second
  <2>2. \A b \in {0, 1} : locks[p][b] = "write"
    BY <1>3, <2>1 DEF FileLockInv
  <2> QED
    BY <2>1, <2>2
<1> QED
  BY <1>1, <1>2, <1>3 DEF R!BothAlone, R!Procs, Procs

\* A process is the victim of a deadlock only when another one waits for it and
\* for nobody else: going from who is in its way one comes back to it.
LEMMA FileLockVictim ==
  ASSUME FileLockInv, R!FileLockNext PROVE R!VictimReleasesWaiter
<1> SUFFICES ASSUME NEW p \in Procs, pc[p] # "deadlock", pc'[p] = "deadlock"
             PROVE  \E q \in Procs \ {p} : /\ waits[q] = p
                                           /\ R!FileLockRL!Owners(q, "write", {R!ByteOf(q)}) = {p}
  BY DEF R!VictimReleasesWaiter, R!Procs, Procs
<1>1. R!Deadlock(p)
  <2>1. ASSUME NEW l \in Launches, R!FileLockFork(l) PROVE FALSE
    BY <2>1 DEF R!FileLockFork, R!Goto, R!Parent, R!Child, FileLockInv
  <2>2. PICK q \in Procs : R!FileLockProcess(q) \/ R!FileLockKilled(q)
    BY <2>1 DEF R!FileLockNext, R!Procs, Procs
  <2>3. ASSUME R!GetsByte(q) \/ R!FileLockReturn(q) \/ R!FileLockKilled(q) PROVE FALSE
    BY <2>3 DEF R!GetsByte, R!FileLockReturn, R!FileLockKilled, R!Goto, FileLockInv
  <2>4. ~R!SleepsForByte(q)
    BY DEF R!SleepsForByte
  <2>5. R!Deadlock(q)
    BY <2>2, <2>3, <2>4 DEF R!FileLockProcess
  <2>6. q = p
    BY <2>5 DEF R!Deadlock, R!Goto, FileLockInv
  <2> QED
    BY <2>5, <2>6
<1>2. PICK q \in Procs \ {p} : R!FileLockRL!Deadlocks(p, q)
  BY <1>1 DEF R!Deadlock, R!FileLockRL!Circle, R!FileLockRL!Owners, R!Procs, Procs
<1> DEFINE s == {q} \cup {r \in Procs : \E w \in Procs : waits[w] = r}
<1>3. p \in s
  <2>1. \A r \in s : waits[r] \in s \cup {NoOne}
    BY DEF FileLockInv, Locked
  <2>2. s \in SUBSET R!Procs /\ q \in s
    BY DEF R!Procs, Procs
  <2> QED
    BY <1>2, <2>1, <2>2 DEF R!FileLockRL!Deadlocks
<1>4. PICK w \in Procs : waits[w] = p
  BY <1>2, <1>3
<1>5. w # p /\ locks[p][Wanted(w)] = "write" /\ Wanted(w) \in {0, 1}
  BY <1>4, FileAssumption, WantedByte DEF FileLockInv, Procs
<1>6. R!FileLockRL!Owners(w, "write", {Wanted(w)}) = {p}
  <2>1. \A r \in Procs \ {p} : locks[r][Wanted(w)] = "none"
    BY <1>5 DEF FileLockInv, Locked
  <2>2. \A r \in R!FileLockRL!Owners(w, "write", {Wanted(w)}) : r = p
    BY <2>1 DEF R!FileLockRL!Owners, R!Procs, Procs
  <2>3. p \in R!FileLockRL!Owners(w, "write", {Wanted(w)})
    BY <1>5 DEF R!FileLockRL!Owners, R!Procs, Procs
  <2> QED
    BY <2>2, <2>3
<1> QED
  BY <1>4, <1>5, <1>6, WantedByte

------------------------------------------------------------------------------
(* implyIR.c *)

ImplyOpen     == {"fork", "open", "close"}
ImplyParents  == {"done", "failed", "killed", "lock", "closed"} \cup ImplyOpen
ImplyChildren == {"unborn", "writew", "got", "done", "killed"}

\* A parent has the read lock from its lock to its close(), and a child the write
\* lock while it is there.
ImplyInv ==
  /\ pc \in [Procs -> ImplyParents \cup ImplyChildren] /\ Locked({0})
  /\ \A l \in Launches :
       /\ pc[<<l, "parent">>] \in ImplyParents /\ pc[<<l, "child">>] \in ImplyChildren
       /\ pc[<<l, "parent">>] \in {"lock", "fork"} => pc[<<l, "child">>] = "unborn"
       /\ locks[<<l, "parent">>][0] = IF pc[<<l, "parent">>] \in ImplyOpen THEN "read" ELSE "none"
       /\ locks[<<l, "child">>][0] = IF pc[<<l, "child">>] = "got" THEN "write" ELSE "none"

LEMMA ImplyStarts ==
  ASSUME R!ImplyInit PROVE ImplyInv
<1>1. /\ pc = [p \in Procs |-> IF p[2] = "parent" THEN "lock" ELSE "unborn"]
      /\ locks = [p \in Procs |-> [b \in {0} |-> "none"]] /\ waits = [p \in Procs |-> NoOne]
  BY DEF R!ImplyInit, R!ImplyRL!LocksInit, R!ImplyRL!Unlocked, R!ImplyRL!Bytes, R!Procs, Procs
<1>2. Locked({0})
  BY <1>1 DEF Locked, Kinds
<1> QED
  BY <1>1, <1>2, ProcForm DEF ImplyInv, ImplyParents, ImplyChildren, ImplyOpen

\* The parent or the child of run l goes on with its lock changed.
LEMMA ImplyMoves ==
  ASSUME ImplyInv, Locked({0})', NEW l \in Launches, NEW p \in {<<l, "parent">>, <<l, "child">>}, NEW to,
         pc' = [pc EXCEPT ![p] = to], \A q \in Procs \ {p} : locks'[q][0] = locks[q][0],
         p = <<l, "parent">> => /\ to \in ImplyParents \ {"lock"}
                                /\ to = "fork" => pc[p] = "lock"
                                /\ locks'[p][0] = IF to \in ImplyOpen THEN "read" ELSE "none",
         p = <<l, "child">> => /\ to \in ImplyChildren /\ pc[p] # "unborn"
                               /\ locks'[p][0] = IF to = "got" THEN "write" ELSE "none"
  PROVE  ImplyInv'
<1>1. /\ p \in Procs /\ pc'[p] = to /\ \A q \in Procs \ {p} : pc'[q] = pc[q]
      /\ pc' \in [Procs -> ImplyParents \cup ImplyChildren]
  BY ProcForm DEF ImplyInv
<1>2. ASSUME NEW k \in Launches
      PROVE  /\ pc'[<<k, "parent">>] \in ImplyParents /\ pc'[<<k, "child">>] \in ImplyChildren
             /\ pc'[<<k, "parent">>] \in {"lock", "fork"} => pc'[<<k, "child">>] = "unborn"
             /\ locks'[<<k, "parent">>][0] = IF pc'[<<k, "parent">>] \in ImplyOpen THEN "read" ELSE "none"
             /\ locks'[<<k, "child">>][0] = IF pc'[<<k, "child">>] = "got" THEN "write" ELSE "none"
  <2>1. CASE k = l
    BY <1>1, <2>1, ProcForm DEF ImplyInv
  <2>2. CASE k # l
    <3>1. <<k, "parent">> # p /\ <<k, "child">> # p
      BY <2>2
    <3> QED
      BY <1>1, <3>1, ProcForm DEF ImplyInv
  <2> QED
    BY <2>1, <2>2
<1> QED
  BY <1>1, <1>2 DEF ImplyInv

LEMMA ImplyDrops ==
  ASSUME ImplyInv, NEW l \in Launches, NEW p \in {<<l, "parent">>, <<l, "child">>},
         NEW to \in {"failed", "done", "closed", "killed"},
         pc' = [pc EXCEPT ![p] = to], R!ImplyRL!DropAll(p),
         p = <<l, "child">> => to \in {"done", "killed"} /\ pc[p] # "unborn"
  PROVE  ImplyInv'
<1>1. /\ locks' = [locks EXCEPT ![p] = [b \in {0} |-> "none"]]
      /\ waits' = [q \in Procs |-> IF q = p \/ waits[q] = p THEN NoOne ELSE waits[q]]
  BY DEF R!ImplyRL!DropAll, R!ImplyRL!Wake, R!ImplyRL!Unlocked, R!ImplyRL!Bytes, R!Procs, Procs
<1>2. waits' \in [Procs -> Procs \cup {NoOne}] /\ Locked({0}) /\ p \in Procs
  BY <1>1, WakeTypes, ProcForm DEF ImplyInv, Locked
<1>3. /\ Locked({0})' /\ \A q \in Procs \ {p} : locks'[q] = locks[q]
      /\ \A b \in {0} : locks'[p][b] = "none"
  BY <1>1, <1>2, DropLocks
<1> QED
  BY <1>3, ImplyMoves DEF ImplyParents, ImplyChildren, ImplyOpen

\* A process gets its lock when nobody is in the way.
LEMMA ImplyGrants ==
  ASSUME ImplyInv, NEW p \in Procs, NEW type \in {"read", "write"},
         R!ImplyRL!Granted(p, type, R!Whole)
  PROVE  /\ Locked({0})' /\ \A q \in Procs \ {p} : locks'[q][0] = locks[q][0]
         /\ locks'[p][0] = type
         /\ \A q \in Procs \ {p} : locks[q][0] # "write" /\ (type = "write" => locks[q][0] # "read")
<1>1. R!Whole = {0} /\ R!ImplyRL!Bytes = {0}
  BY DEF R!Whole, R!ImplyRL!From, R!ImplyRL!Bytes
<1>2. /\ Change({0}, p, type, {0}) /\ Clear(p, type, {0})
      /\ waits' = [waits EXCEPT ![p] = NoOne]
  BY <1>1 DEF R!ImplyRL!Granted, R!ImplyRL!Put, R!ImplyRL!Owners, R!Procs, Procs, Change, Clear
<1>3. Locked({0}) /\ waits' \in [Procs -> Procs \cup {NoOne}] /\ type \in Kinds
  BY <1>2, WaitTypes DEF ImplyInv, Locked, Kinds
<1>4. Locked({0})'
  BY <1>2, <1>3, GrantLocks
<1>5. /\ \A q \in Procs \ {p} : locks'[q] = locks[q]
      /\ \A b \in {0} : locks'[p][b] = IF b \in {0} THEN type ELSE locks[p][b]
  BY <1>2, <1>3, ChangeLocks
<1> QED
  BY <1>2, <1>4, <1>5 DEF Clear

LEMMA ImplyParentSteps ==
  ASSUME ImplyInv, NEW l \in Launches, R!ParentStep(l)
  PROVE  ImplyInv'
<1> DEFINE p == <<l, "parent">>
<1>0. p \in Procs /\ p = R!Parent(l) /\ R!Child(l) = <<l, "child">> /\ <<l, "child">> \in Procs
  BY ProcForm DEF R!Parent, R!Child
<1>1. CASE R!ReadLock(l)
  <2>1. pc[p] = "lock" /\ pc' = [pc EXCEPT ![p] = "fork"] /\ R!ImplyRL!Granted(p, "read", R!Whole)
    BY <1>0, <1>1 DEF R!ReadLock, R!Go
  <2>2. /\ Locked({0})' /\ \A q \in Procs \ {p} : locks'[q][0] = locks[q][0]
        /\ locks'[p][0] = "read"
    BY <1>0, <2>1, ImplyGrants
  <2> QED
    BY <2>1, <2>2, ImplyMoves, ProcForm DEF ImplyParents, ImplyOpen
<1>2. ASSUME NEW from, NEW to \in {"failed", "done", "closed"}, R!Go(p, from, to),
             R!ImplyRL!DropAll(p)
      PROVE  ImplyInv'
  BY <1>2, ImplyDrops, ProcForm DEF R!Go
<1>3. CASE R!ReadLockFails(l) \/ R!ForkFails(l) \/ R!CloseOther(l) \/ R!ParentReturns(l)
  BY <1>0, <1>2, <1>3 DEF R!ReadLockFails, R!ForkFails, R!CloseOther, R!ParentReturns
<1>4. CASE R!Go(p, "open", "close") /\ UNCHANGED <<locks, waits>>
  <2>1. pc' = [pc EXCEPT ![p] = "close"] /\ pc[p] = "open" /\ locks'[p][0] = "read" /\ Locked({0})'
    BY <1>4 DEF R!Go, ImplyInv, ImplyOpen, Locked
  <2> QED
    BY <1>4, <2>1, ImplyMoves, ProcForm DEF ImplyParents, ImplyOpen
<1>5. CASE R!Open(l)
  BY <1>0, <1>2, <1>4, <1>5 DEF R!Open
<1>6. CASE R!ImplyFork(l)
  <2>1. /\ pc[p] = "fork" /\ UNCHANGED <<locks, waits>> /\ pc[<<l, "child">>] = "unborn"
        /\ pc' = [pc EXCEPT ![p] = "open", ![<<l, "child">>] = "writew"]
    BY <1>0, <1>6 DEF R!ImplyFork, ImplyInv
  <2>2. /\ pc' \in [Procs -> ImplyParents \cup ImplyChildren]
        /\ pc'[p] = "open" /\ pc'[<<l, "child">>] = "writew"
        /\ \A q \in Procs : q # p /\ q # <<l, "child">> => pc'[q] = pc[q]
    BY <1>0, <2>1 DEF ImplyInv, ImplyParents, ImplyChildren, ImplyOpen
  <2>3. Locked({0})'
    BY <2>1 DEF ImplyInv, Locked
  <2>4. ASSUME NEW k \in Launches
        PROVE  /\ pc'[<<k, "parent">>] \in ImplyParents /\ pc'[<<k, "child">>] \in ImplyChildren
               /\ pc'[<<k, "parent">>] \in {"lock", "fork"} => pc'[<<k, "child">>] = "unborn"
               /\ locks'[<<k, "parent">>][0] = IF pc'[<<k, "parent">>] \in ImplyOpen THEN "read" ELSE "none"
               /\ locks'[<<k, "child">>][0] = IF pc'[<<k, "child">>] = "got" THEN "write" ELSE "none"
    <3>1. CASE k = l
      BY <2>1, <2>2, <3>1 DEF ImplyInv, ImplyParents, ImplyChildren, ImplyOpen
    <3>2. CASE k # l
      BY <2>1, <2>2, <3>2, ProcForm DEF ImplyInv
    <3> QED
      BY <3>1, <3>2
  <2> QED
    BY <2>2, <2>3, <2>4 DEF ImplyInv
<1> QED
  BY <1>1, <1>3, <1>5, <1>6 DEF R!ParentStep

LEMMA ImplySteps ==
  ASSUME ImplyInv, R!ImplyNext PROVE ImplyInv'
<1>1. ASSUME NEW l \in Launches, R!WriteLock(l) PROVE ImplyInv'
  <2>1. /\ pc[<<l, "child">>] = "writew" /\ pc' = [pc EXCEPT ![<<l, "child">>] = "got"]
        /\ R!ImplyRL!Granted(<<l, "child">>, "write", R!Whole)
    BY <1>1 DEF R!WriteLock, R!Go, R!Child
  <2>2. /\ Locked({0})' /\ \A q \in Procs \ {<<l, "child">>} : locks'[q][0] = locks[q][0]
        /\ locks'[<<l, "child">>][0] = "write"
    BY <2>1, ImplyGrants, ProcForm
  <2> QED
    BY <2>1, <2>2, ImplyMoves, ProcForm DEF ImplyChildren
<1>2. ASSUME NEW l \in Launches, R!WriteLockSleeps(l) PROVE ImplyInv'
  <2>1. PICK q \in Procs : waits' = [waits EXCEPT ![<<l, "child">>] = q]
    BY <1>2 DEF R!WriteLockSleeps, R!ImplyRL!Sleeps, R!ImplyRL!Owners, R!Procs, Procs, R!Child
  <2>2. UNCHANGED <<pc, locks>>
    BY <1>2 DEF R!WriteLockSleeps, R!ImplyRL!Sleeps
  <2>3. waits' \in [Procs -> Procs \cup {NoOne}]
    BY <2>1, WaitTypes, ProcForm DEF ImplyInv, Locked
  <2> QED
    BY <2>2, <2>3 DEF ImplyInv, Locked
<1>3. ASSUME NEW l \in Launches, R!ImplyChildReturns(l) PROVE ImplyInv'
  <2>1. /\ pc[<<l, "child">>] = "got" /\ pc' = [pc EXCEPT ![<<l, "child">>] = "done"]
        /\ R!ImplyRL!DropAll(<<l, "child">>)
    BY <1>3 DEF R!ImplyChildReturns, R!Go, R!Child
  <2> QED
    BY <2>1, ImplyDrops, ProcForm
<1>4. ASSUME NEW p \in Procs, R!Killed(p) PROVE ImplyInv'
  <2>1. pc[p] # "unborn" /\ pc' = [pc EXCEPT ![p] = "killed"] /\ R!ImplyRL!DropAll(p)
    BY <1>4 DEF R!Killed, R!Go
  <2>2. PICK l \in Launches : p \in {<<l, "parent">>, <<l, "child">>}
    BY ProcForm
  <2> QED
    BY <2>1, <2>2, ImplyDrops
<1> QED
  BY <1>1, <1>2, <1>3, <1>4, ImplyParentSteps DEF R!ImplyNext, R!ChildStep, R!Procs, Procs

LEMMA ImplyHolds ==
  ASSUME ImplyInv PROVE R!ImplyTypeOK /\ R!ReaderUndisturbed /\ R!NothingAfterClose
<1>1. R!ImplyRL!Bytes = {0} /\ R!Whole = {0}
  BY DEF R!Whole, R!ImplyRL!From, R!ImplyRL!Bytes
<1>2. R!ImplyTypeOK
  BY <1>1 DEF ImplyInv, Locked, R!ImplyTypeOK, R!ImplyRL!LocksTypeOK, R!ImplyRL!Locks, R!ImplyEnded,
              R!Procs, Procs, R!Parent, R!Child, Kinds, ImplyParents, ImplyChildren, ImplyOpen
<1>3. R!ImplyRL!Compatible
  BY <1>1 DEF ImplyInv, Locked, R!ImplyRL!Compatible, R!Procs, Procs
<1>4. ASSUME NEW l \in Launches, pc[<<l, "parent">>] \in ImplyOpen
      PROVE  locks[<<l, "parent">>] = [b \in {0} |-> "read"]
  <2>1. locks[<<l, "parent">>] \in [{0} -> Kinds] /\ locks[<<l, "parent">>][0] = "read"
    BY <1>4, ProcForm DEF ImplyInv, Locked
  <2> QED
    BY <2>1
<1>5. R!ReaderUndisturbed
  BY <1>1, <1>3, <1>4 DEF R!ReaderUndisturbed, R!Parent, ImplyOpen
<1>6. R!NothingAfterClose
  BY <1>1 DEF R!NothingAfterClose, R!ImplyRL!Owners, R!Parent, ImplyInv, ImplyOpen
<1> QED
  BY <1>2, <1>5, <1>6

\* A child gets its lock only when no parent reads.
LEMMA ImplyCause ==
  ASSUME ImplyInv, R!ImplyNext PROVE R!ChildAfterClose
<1> SUFFICES ASSUME NEW l \in Launches, pc[<<l, "child">>] = "writew", pc'[<<l, "child">>] = "got"
             PROVE  /\ pc[<<l, "parent">>] \in R!ImplyEnded \cup {"closed"}
                    /\ \A m \in Launches : pc[<<m, "parent">>] \notin ImplyOpen
  BY DEF R!ChildAfterClose, R!Parent, R!Child, ImplyOpen
<1>1. R!WriteLock(l)
  <2>1. <<l, "child">> \in Procs /\ \A k \in Launches : <<k, "parent">> # <<l, "child">>
    BY ProcForm
  <2>2. ASSUME NEW k \in Launches, R!ParentStep(k) PROVE pc'[<<l, "child">>] # "got"
    <3>1. \/ \E s \in ImplyParents : pc' = [pc EXCEPT ![<<k, "parent">>] = s]
          \/ pc' = [pc EXCEPT ![<<k, "parent">>] = "open", ![<<k, "child">>] = "writew"]
      BY <2>2 DEF R!ParentStep, R!ReadLock, R!ReadLockFails, R!ImplyFork, R!ForkFails, R!Open,
                  R!CloseOther, R!ParentReturns, R!Go, R!Parent, R!Child, ImplyParents, ImplyOpen
    <3> QED
      BY <2>1, <3>1 DEF ImplyInv
  <2>3. ASSUME NEW p \in Procs, R!Killed(p) PROVE FALSE
    BY <2>1, <2>3 DEF R!Killed, R!Go, ImplyInv
  <2>4. PICK k \in Launches : R!ChildStep(k)
    BY <2>2, <2>3 DEF R!ImplyNext, R!Procs, Procs
  <2>5. ~R!WriteLockSleeps(k) /\ ~R!ImplyChildReturns(k)
    BY <2>1 DEF R!WriteLockSleeps, R!ImplyChildReturns, R!Go, R!Child, ImplyInv
  <2>6. R!WriteLock(k)
    BY <2>4, <2>5 DEF R!ChildStep
  <2>7. k = l
    <3>1. pc' = [pc EXCEPT ![<<k, "child">>] = "got"]
      BY <2>6 DEF R!WriteLock, R!Go, R!Child
    <3>2. <<k, "child">> = <<l, "child">>
      BY <2>1, <3>1 DEF ImplyInv
    <3> QED
      BY <3>2
  <2> QED
    BY <2>6, <2>7
<1>2. \A q \in Procs \ {<<l, "child">>} : locks[q][0] # "read"
  BY <1>1, ImplyGrants, ProcForm DEF R!WriteLock, R!Child
<1>3. \A m \in Launches : pc[<<m, "parent">>] \notin ImplyOpen
  BY <1>2, ProcForm DEF ImplyInv
<1>4. pc[<<l, "parent">>] \in ImplyParents /\ pc[<<l, "parent">>] # "lock"
  BY DEF ImplyInv
<1> QED
  BY <1>3, <1>4 DEF R!ImplyEnded, ImplyParents

------------------------------------------------------------------------------
(* lockEOF.c *)

EofBytes    == 0..3
EofForked   == {"lseek", "c", "done"}
EofParents  == {"creat", "lock", "a", "unlock", "b", "fork", "failed"} \cup EofForked
EofChildren == {"unborn", "lock0", "lock1", "return", "done"}

EofTypes ==
  /\ pc \in [Procs -> EofParents \cup EofChildren]
  /\ off \in [Launches -> 0..3] /\ size \in 0..3
  /\ cut \subseteq Launches /\ got \in [Launches -> SUBSET EofBytes] /\ Locked(EofBytes)

\* What a run knows of the length of the file and has locked, as long as no other
\* run has changed the length.
EofRun(l) ==
  LET p == <<l, "parent">>
      c == <<l, "child">>
  IN /\ pc[p] \in EofParents /\ pc[c] \in EofChildren
     /\ pc[c] # "unborn" => pc[p] \in EofForked
     /\ pc[c] = "unborn" => got[l] = {}
     /\ pc[p] \in {"creat", "lock", "a"} => off[l] = 0
     /\ pc[p] \in {"unlock", "b"} => off[l] = 1
     /\ pc[p] \in {"fork", "lseek", "c"} => off[l] = 2
     /\ pc[p] = "done" => \A b \in EofBytes : locks[p][b] = "none"
     /\ l \notin cut =>
          /\ pc[p] \in {"lock", "a"} => size = 0
          /\ pc[p] \in {"unlock", "b"} => size = 1
          /\ pc[p] \in {"fork", "lseek", "c"} => size = 2
          /\ pc[p] \in {"a", "unlock"} => \A b \in EofBytes : locks[p][b] = "write"
          /\ pc[p] \in {"b", "fork", "lseek", "c"} =>
               \A b \in EofBytes : locks[p][b] = IF b = 0 THEN "write" ELSE "none"
          /\ 0 \in got[l] => pc[p] = "done"

EofInv == EofTypes /\ \A l \in Launches : EofRun(l)

LEMMA EofStarts ==
  ASSUME R!EofInit PROVE EofInv
<1>1. /\ pc = [p \in Procs |-> IF p[2] = "parent" THEN "creat" ELSE "unborn"]
      /\ locks = [p \in Procs |-> [b \in EofBytes |-> "none"]] /\ waits = [p \in Procs |-> NoOne]
      /\ off = [l \in Launches |-> 0] /\ size = 0 /\ cut = {} /\ got = [l \in Launches |-> {}]
  BY DEF R!EofInit, R!EofRL!LocksInit, R!EofRL!Unlocked, R!EofRL!Bytes, R!Procs, Procs, EofBytes
<1>2. Locked(EofBytes)
  BY <1>1 DEF Locked, Kinds
<1>3. EofTypes
  BY <1>1, <1>2 DEF EofTypes, EofParents, EofChildren
<1>4. \A l \in Launches : EofRun(l)
  BY <1>1, ProcForm DEF EofRun, EofParents, EofChildren
<1> QED
  BY <1>3, <1>4 DEF EofInv

\* A step of run l: the others are as before, and those it disturbs are in cut.
LEMMA EofOneRun ==
  ASSUME EofInv, NEW l \in Launches, EofTypes', EofRun(l)',
         \A q \in Procs : q[1] # l => pc'[q] = pc[q] /\ locks'[q] = locks[q],
         \A m \in Launches \ {l} :
           /\ off'[m] = off[m] /\ got'[m] = got[m] /\ (m \in cut => m \in cut')
           /\ size' = size \/ m \in cut' \/ pc[<<m, "parent">>] = "creat"
  PROVE  EofInv'
<1>1. ASSUME NEW m \in Launches, m # l PROVE EofRun(m)'
  <2>1. /\ pc'[<<m, "parent">>] = pc[<<m, "parent">>] /\ pc'[<<m, "child">>] = pc[<<m, "child">>]
        /\ locks'[<<m, "parent">>] = locks[<<m, "parent">>]
        /\ off'[m] = off[m] /\ got'[m] = got[m] /\ (m \in cut => m \in cut')
        /\ size' = size \/ m \in cut' \/ pc[<<m, "parent">>] = "creat"
    BY <1>1, ProcForm
  <2>2. EofRun(m)
    BY DEF EofInv
  <2> QED
    BY <2>1, <2>2 DEF EofRun
<1> QED
  BY <1>1 DEF EofInv

\* One process of run l goes on.
LEMMA EofGoes ==
  ASSUME EofInv, NEW l \in Launches, NEW p \in {<<l, "parent">>, <<l, "child">>}, NEW from,
         NEW to \in EofParents \cup EofChildren, R!Go(p, from, to)
  PROVE  /\ p \in Procs /\ pc[p] = from /\ pc'[p] = to
         /\ pc' \in [Procs -> EofParents \cup EofChildren]
         /\ \A q \in Procs \ {p} : pc'[q] = pc[q]
         /\ \A q \in Procs : q[1] # l => pc'[q] = pc[q]
BY ProcForm DEF R!Go, EofInv, EofTypes

LEMMA EofOthers ==
  ASSUME NEW l \in Launches, NEW m \in Launches \ {l}
  PROVE  m \in R!Others(l) \/ pc[<<m, "parent">>] = "creat"
BY DEF R!Others, R!Parent

LEMMA EofDrops ==
  ASSUME EofInv, NEW p \in Procs, R!EofRL!DropAll(p)
  PROVE  /\ Locked(EofBytes)' /\ \A q \in Procs \ {p} : locks'[q] = locks[q]
         /\ \A b \in EofBytes : locks'[p][b] = "none"
<1>1. /\ locks' = [locks EXCEPT ![p] = [b \in EofBytes |-> "none"]]
      /\ waits' = [q \in Procs |-> IF q = p \/ waits[q] = p THEN NoOne ELSE waits[q]]
  BY DEF R!EofRL!DropAll, R!EofRL!Wake, R!EofRL!Unlocked, R!EofRL!Bytes, R!Procs, Procs, EofBytes
<1>2. waits' \in [Procs -> Procs \cup {NoOne}] /\ Locked(EofBytes)
  BY <1>1, WakeTypes DEF EofInv, EofTypes, Locked
<1> QED
  BY <1>1, <1>2, DropLocks

LEMMA EofGrants ==
  ASSUME EofInv, NEW p \in Procs, NEW region, region \subseteq EofBytes,
         R!EofRL!Granted(p, "write", region)
  PROVE  /\ Locked(EofBytes)' /\ \A q \in Procs \ {p} : locks'[q] = locks[q]
         /\ \A b \in EofBytes : locks'[p][b] = IF b \in region THEN "write" ELSE locks[p][b]
         /\ \A q \in Procs \ {p} : \A b \in region : locks[q][b] # "write"
<1>1. R!EofRL!Bytes = EofBytes
  BY DEF R!EofRL!Bytes, EofBytes
<1>2. /\ Change(EofBytes, p, "write", region) /\ Clear(p, "write", region)
      /\ waits' = [waits EXCEPT ![p] = NoOne]
  BY <1>1 DEF R!EofRL!Granted, R!EofRL!Put, R!EofRL!Owners, R!Procs, Procs, Change, Clear
<1>3. Locked(EofBytes) /\ waits' \in [Procs -> Procs \cup {NoOne}] /\ "write" \in Kinds
  BY <1>2, WaitTypes DEF EofInv, EofTypes, Locked, Kinds
<1>4. Locked(EofBytes)'
  BY <1>2, <1>3, GrantLocks
<1>5. /\ \A q \in Procs \ {p} : locks'[q] = locks[q]
      /\ \A b \in EofBytes : locks'[p][b] = IF b \in region THEN "write" ELSE locks[p][b]
  BY <1>2, <1>3, ChangeLocks
<1> QED
  BY <1>2, <1>4, <1>5 DEF Clear

\* creat() makes the file empty.
LEMMA EofCreat ==
  ASSUME EofInv, NEW l \in Launches, R!Creat(l) PROVE EofInv'
<1> DEFINE p == <<l, "parent">>
<1>1. /\ p \in Procs /\ pc[p] = "creat" /\ pc'[p] = "lock"
      /\ pc' \in [Procs -> EofParents \cup EofChildren]
      /\ \A q \in Procs \ {p} : pc'[q] = pc[q]
      /\ \A q \in Procs : q[1] # l => pc'[q] = pc[q]
  BY EofGoes DEF R!Creat, R!Parent, EofParents
<1>2. size' = 0 /\ cut' = (cut \cup R!Others(l)) \ {l} /\ UNCHANGED <<off, locks, waits, got>>
  BY DEF R!Creat
<1>3. EofTypes'
  BY <1>1, <1>2 DEF EofInv, EofTypes, Locked, R!Others
<1>4. EofRun(l)'
  <2>1. EofRun(l) /\ pc'[<<l, "child">>] = pc[<<l, "child">>]
    BY <1>1, ProcForm DEF EofInv
  <2> QED
    BY <1>1, <1>2, <2>1 DEF EofRun, EofForked, EofParents
<1> QED
  BY <1>1, <1>2, <1>3, <1>4, EofOneRun, EofOthers

\* write_lock() from the end of the file on.
LEMMA EofLockEnd ==
  ASSUME EofInv, NEW l \in Launches, R!LockEnd(l) PROVE EofInv'
<1> DEFINE p == <<l, "parent">>
<1>0. p \in Procs /\ <<l, "child">> \in Procs /\ p # <<l, "child">> /\ p = R!Parent(l) /\ EofRun(l)
  BY ProcForm DEF R!Parent, EofInv
<1>1. UNCHANGED <<off, size, cut, got>>
  BY DEF R!LockEnd
<1>2. CASE R!EofRL!Granted(p, "write", R!EofRL!From(size)) /\ R!Go(p, "lock", "a")
  <2>1. R!EofRL!From(size) \subseteq EofBytes /\ (size = 0 => R!EofRL!From(size) = EofBytes)
    BY DEF R!EofRL!From, EofBytes, EofInv, EofTypes
  <2>2. /\ Locked(EofBytes)' /\ \A q \in Procs \ {p} : locks'[q] = locks[q]
        /\ \A b \in EofBytes : locks'[p][b] = IF b \in R!EofRL!From(size) THEN "write" ELSE locks[p][b]
    BY <1>0, <1>2, <2>1, EofGrants
  <2>3. /\ pc[p] = "lock" /\ pc'[p] = "a"
        /\ pc' \in [Procs -> EofParents \cup EofChildren]
        /\ \A q \in Procs \ {p} : pc'[q] = pc[q]
        /\ \A q \in Procs : q[1] # l => pc'[q] = pc[q]
    BY <1>2, EofGoes DEF EofParents
  <2>4. EofTypes'
    BY <1>1, <2>2, <2>3 DEF EofInv, EofTypes
  <2>5. EofRun(l)'
    BY <1>0, <1>1, <2>1, <2>2, <2>3 DEF EofRun, EofForked, EofParents
  <2> QED
    BY <1>1, <2>2, <2>3, <2>4, <2>5, EofOneRun
<1>3. CASE R!Go(p, "lock", "failed") /\ R!EofRL!DropAll(p)
  <2>2. /\ Locked(EofBytes)' /\ \A q \in Procs \ {p} : locks'[q] = locks[q]
        /\ \A b \in EofBytes : locks'[p][b] = "none"
    BY <1>0, <1>3, EofDrops
  <2>3. /\ pc[p] = "lock" /\ pc'[p] = "failed"
        /\ pc' \in [Procs -> EofParents \cup EofChildren]
        /\ \A q \in Procs \ {p} : pc'[q] = pc[q]
        /\ \A q \in Procs : q[1] # l => pc'[q] = pc[q]
    BY <1>3, EofGoes DEF EofParents
  <2>4. EofTypes'
    BY <1>1, <2>2, <2>3 DEF EofInv, EofTypes
  <2>5. EofRun(l)'
    BY <1>0, <1>1, <2>2, <2>3 DEF EofRun, EofForked, EofParents
  <2> QED
    BY <1>1, <2>2, <2>3, <2>4, <2>5, EofOneRun
<1> QED
  BY <1>0, <1>2, <1>3 DEF R!LockEnd

\* A character at the offset of the run.
LEMMA EofWrites ==
  ASSUME EofInv, NEW l \in Launches, NEW from, NEW to, R!Write(l, from, to),
         <<from, to>> \in {<<"a", "unlock">>, <<"b", "fork">>, <<"c", "done">>}
  PROVE  EofInv' /\ (l \notin cut /\ from = "c" => size' = off[l] + 1)
<1> DEFINE p == <<l, "parent">>
<1>0. p \in Procs /\ <<l, "child">> \in Procs /\ p # <<l, "child">> /\ p = R!Parent(l) /\ EofRun(l)
  BY ProcForm DEF R!Parent, EofInv
<1>1. /\ \/ from = "a" /\ to = "unlock" /\ off[l] = 0 /\ (l \notin cut => size = 0)
         \/ from = "b" /\ to = "fork" /\ off[l] = 1 /\ (l \notin cut => size = 1)
         \/ from = "c" /\ to = "done" /\ off[l] = 2 /\ (l \notin cut => size = 2)
      /\ R!Go(p, from, to)
  BY <1>0 DEF R!Write, R!Go, EofRun
<1>2. /\ pc[p] = from /\ pc'[p] = to
      /\ pc' \in [Procs -> EofParents \cup EofChildren]
      /\ \A q \in Procs \ {p} : pc'[q] = pc[q]
      /\ \A q \in Procs : q[1] # l => pc'[q] = pc[q]
  <2>1. to \in EofParents \cup EofChildren
    BY <1>1 DEF EofParents, EofForked
  <2>2. pc[p] = from /\ pc' = [pc EXCEPT ![p] = to] /\ pc \in [Procs -> EofParents \cup EofChildren]
    BY <1>1 DEF R!Go, EofInv, EofTypes
  <2>3. \A q \in Procs : q[1] # l => q # p
    OBVIOUS
  <2> HIDE DEF p
  <2> QED
    BY ONLY <1>0, <2>1, <2>2, <2>3
<1>3. /\ off' = [off EXCEPT ![l] = @ + 1] /\ got' = got
      /\ size' = IF off[l] + 1 > size THEN off[l] + 1 ELSE size
      /\ cut' = IF size' # size THEN cut \cup R!Others(l) ELSE cut
  BY DEF R!Write
<1>4. /\ size' \in 0..3 /\ off' \in [Launches -> 0..3] /\ off'[l] = off[l] + 1
      /\ \A m \in Launches \ {l} : off'[m] = off[m]
      /\ l \notin cut => size' = off[l] + 1
  BY <1>1, <1>3 DEF EofInv, EofTypes
<1>5. cut' \subseteq Launches /\ (l \in cut' <=> l \in cut) /\ cut \subseteq cut'
  BY <1>3 DEF EofInv, EofTypes, R!Others
<1>6. /\ Locked(EofBytes)' /\ \A q \in Procs \ {p} : locks'[q] = locks[q]
      /\ IF to = "done" THEN \A b \in EofBytes : locks'[p][b] = "none" ELSE locks' = locks
  <2>1. CASE to = "done"
    BY <1>0, <2>1, EofDrops DEF R!Write
  <2>2. CASE to # "done"
    BY <1>0, <2>2 DEF R!Write, EofInv, EofTypes, Locked
  <2> QED
    BY <2>1, <2>2
<1>7. EofTypes'
  BY <1>2, <1>3, <1>4, <1>5, <1>6 DEF EofInv, EofTypes
<1>8. EofRun(l)'
  <2>1. pc'[<<l, "child">>] = pc[<<l, "child">>]
    BY <1>0, <1>2
  <2>2. CASE from = "a"
    BY <1>0, <1>1, <1>2, <1>3, <1>4, <1>5, <1>6, <2>1, <2>2 DEF EofRun, EofForked, EofParents
  <2>3. CASE from = "b"
    BY <1>0, <1>1, <1>2, <1>3, <1>4, <1>5, <1>6, <2>1, <2>3 DEF EofRun, EofForked, EofParents
  <2>4. CASE from = "c"
    BY <1>0, <1>1, <1>2, <1>3, <1>4, <1>5, <1>6, <2>1, <2>4 DEF EofRun, EofForked, EofParents
  <2> QED
    BY <1>1, <2>2, <2>3, <2>4
<1>9. \A m \in Launches \ {l} : size' = size \/ m \in cut' \/ pc[<<m, "parent">>] = "creat"
  BY <1>3, EofOthers
<1> QED
  BY <1>2, <1>3, <1>4, <1>5, <1>6, <1>7, <1>8, <1>9, EofOneRun

\* un_lock() from the new end of the file on.
LEMMA EofUnlock ==
  ASSUME EofInv, NEW l \in Launches, R!UnlockEnd(l) PROVE EofInv'
<1> DEFINE p == <<l, "parent">>
<1>0. p \in Procs /\ <<l, "child">> \in Procs /\ p # <<l, "child">> /\ p = R!Parent(l) /\ EofRun(l)
  BY ProcForm DEF R!Parent, EofInv
<1>1. /\ pc[p] = "unlock" /\ pc'[p] = "b"
      /\ pc' \in [Procs -> EofParents \cup EofChildren]
      /\ \A q \in Procs \ {p} : pc'[q] = pc[q]
      /\ \A q \in Procs : q[1] # l => pc'[q] = pc[q]
  BY <1>0, EofGoes DEF R!UnlockEnd, EofParents
<1>2. UNCHANGED <<off, size, cut, got>>
  BY DEF R!UnlockEnd
<1>3. /\ R!EofRL!From(size) \subseteq EofBytes
      /\ size = 1 => \A b \in EofBytes : b \in R!EofRL!From(size) <=> b # 0
  BY DEF R!EofRL!From, EofBytes, EofInv, EofTypes
<1>4. /\ Change(EofBytes, p, "none", R!EofRL!From(size))
      /\ waits' = [q \in Procs |-> IF q = p \/ waits[q] = p THEN NoOne ELSE waits[q]]
  <2>1. R!EofRL!Bytes = EofBytes
    BY DEF R!EofRL!Bytes, EofBytes
  <2> QED
    BY <1>0, <2>1 DEF R!UnlockEnd, R!EofRL!Unlock, R!EofRL!Put, R!EofRL!Wake, Change, R!Procs, Procs
<1>5. Locked(EofBytes) /\ waits' \in [Procs -> Procs \cup {NoOne}] /\ "none" \in Kinds
  BY <1>4, WakeTypes DEF EofInv, EofTypes, Locked, Kinds
<1>6. Locked(EofBytes)'
  BY <1>0, <1>3, <1>4, <1>5, GrantLocks
<1>7. /\ \A q \in Procs \ {p} : locks'[q] = locks[q]
      /\ \A b \in EofBytes : locks'[p][b] = IF b \in R!EofRL!From(size) THEN "none" ELSE locks[p][b]
  BY <1>0, <1>4, <1>5, ChangeLocks
<1>8. EofTypes'
  BY <1>1, <1>2, <1>6 DEF EofInv, EofTypes
<1>9. EofRun(l)'
  BY <1>0, <1>1, <1>2, <1>3, <1>7 DEF EofRun, EofForked, EofParents
<1> QED
  BY <1>1, <1>2, <1>7, <1>8, <1>9, EofOneRun

LEMMA EofForks ==
  ASSUME EofInv, NEW l \in Launches, R!EofFork(l) PROVE EofInv'
<1> DEFINE p == <<l, "parent">>
           c == <<l, "child">>
<1>0. p \in Procs /\ c \in Procs /\ p # c /\ p = R!Parent(l) /\ c = R!Child(l) /\ EofRun(l)
  BY ProcForm DEF R!Parent, R!Child, EofInv
<1>1. UNCHANGED <<off, size, cut, got>> /\ pc[p] = "fork" /\ pc[c] = "unborn"
  BY <1>0 DEF R!EofFork, EofRun, EofForked
<1>2. CASE pc' = [pc EXCEPT ![p] = "lseek", ![c] = "lock0"] /\ UNCHANGED <<locks, waits>>
  <2>1. /\ pc'[p] = "lseek" /\ pc'[c] = "lock0"
        /\ pc' \in [Procs -> EofParents \cup EofChildren]
        /\ \A q \in Procs : q # p /\ q # c => pc'[q] = pc[q]
    BY <1>0, <1>2 DEF EofInv, EofTypes, EofParents, EofChildren, EofForked
  <2>2. EofTypes'
    BY <1>1, <1>2, <2>1 DEF EofInv, EofTypes, Locked
  <2>3. EofRun(l)'
    BY <1>0, <1>1, <1>2, <2>1 DEF EofRun, EofForked, EofParents, EofChildren
  <2> QED
    BY <1>1, <1>2, <2>1, <2>2, <2>3, EofOneRun, ProcForm
<1>3. CASE R!Go(p, "fork", "failed") /\ R!EofRL!DropAll(p)
  <2>1. /\ pc'[p] = "failed" /\ pc' \in [Procs -> EofParents \cup EofChildren]
        /\ \A q \in Procs \ {p} : pc'[q] = pc[q]
        /\ \A q \in Procs : q[1] # l => pc'[q] = pc[q]
    BY <1>3, EofGoes DEF EofParents
  <2>2. /\ Locked(EofBytes)' /\ \A q \in Procs \ {p} : locks'[q] = locks[q]
        /\ \A b \in EofBytes : locks'[p][b] = "none"
    BY <1>0, <1>3, EofDrops
  <2>3. EofTypes'
    BY <1>1, <2>1, <2>2 DEF EofInv, EofTypes
  <2>4. EofRun(l)'
    BY <1>0, <1>1, <2>1, <2>2 DEF EofRun, EofForked, EofParents, EofChildren
  <2> QED
    BY <1>1, <2>1, <2>2, <2>3, <2>4, EofOneRun
<1> QED
  BY <1>0, <1>2, <1>3 DEF R!EofFork

\* A lock of the child: byte 0 is its parent's until that has ended.
LEMMA EofChildLocks ==
  ASSUME EofInv, NEW l \in Launches, NEW from \in {"lock0", "lock1"}, NEW byte \in {0, 2},
         NEW to \in {"lock1", "return"}, R!ChildLock(l, from, byte, to)
  PROVE  EofInv'
<1> DEFINE p == <<l, "parent">>
           c == <<l, "child">>
<1>0. p \in Procs /\ c \in Procs /\ p # c /\ c = R!Child(l) /\ EofRun(l)
  BY ProcForm DEF R!Child, EofInv
<1>1. /\ pc[c] = from /\ pc'[c] = to
      /\ pc' \in [Procs -> EofParents \cup EofChildren]
      /\ \A q \in Procs \ {c} : pc'[q] = pc[q]
      /\ \A q \in Procs : q[1] # l => pc'[q] = pc[q]
  BY <1>0, EofGoes DEF R!ChildLock, EofChildren
<1>2. UNCHANGED <<off, size, cut>> /\ pc[p] \in EofForked
  BY <1>0, <1>1 DEF R!ChildLock, EofRun
<1>3. CASE R!EofRL!Granted(c, "write", {byte}) /\ got' = [got EXCEPT ![l] = @ \cup {byte}]
  <2>1. {byte} \subseteq EofBytes
    BY DEF EofBytes
  <2>2. /\ Locked(EofBytes)' /\ \A q \in Procs \ {c} : locks'[q] = locks[q]
        /\ \A q \in Procs \ {c} : \A b \in {byte} : locks[q][b] # "write"
    BY <1>0, <1>3, <2>1, EofGrants
  <2>3. /\ got' \in [Launches -> SUBSET EofBytes] /\ got'[l] = got[l] \cup {byte}
        /\ \A m \in Launches \ {l} : got'[m] = got[m]
    BY <1>3, <2>1 DEF EofInv, EofTypes
  <2>4. EofTypes'
    BY <1>1, <1>2, <2>2, <2>3 DEF EofInv, EofTypes
  <2>5. l \notin cut /\ 0 \in got'[l] => pc[p] = "done"
    <3>1. byte = 0 => locks[p][0] # "write"
      BY <1>0, <2>2
    <3>2. 0 \in EofBytes
      BY DEF EofBytes
    <3> QED
      BY <1>0, <1>2, <2>3, <3>1, <3>2 DEF EofRun, EofForked
  <2>6. EofRun(l)'
    BY <1>0, <1>1, <1>2, <2>2, <2>3, <2>5 DEF EofRun, EofForked, EofChildren
  <2> QED
    BY <1>1, <1>2, <2>2, <2>3, <2>4, <2>6, EofOneRun, ProcForm
<1>4. CASE R!EofRL!Denied(c, "write", {byte}) /\ UNCHANGED got
  <2>1. UNCHANGED <<locks, waits>>
    BY <1>4 DEF R!EofRL!Denied, R!EofRL!lockVars
  <2>2. EofTypes'
    BY <1>1, <1>2, <1>4, <2>1 DEF EofInv, EofTypes, Locked
  <2>3. EofRun(l)'
    BY <1>0, <1>1, <1>2, <1>4, <2>1 DEF EofRun, EofForked, EofChildren
  <2> QED
    BY <1>1, <1>2, <1>4, <2>1, <2>2, <2>3, EofOneRun
<1> QED
  BY <1>0, <1>3, <1>4 DEF R!ChildLock

LEMMA EofReturns ==
  ASSUME EofInv, NEW l \in Launches, R!EofChildReturns(l) PROVE EofInv'
<1> DEFINE p == <<l, "parent">>
           c == <<l, "child">>
<1>0. p \in Procs /\ c \in Procs /\ p # c /\ c = R!Child(l) /\ EofRun(l)
  BY ProcForm DEF R!Child, EofInv
<1>1. /\ pc[c] = "return" /\ pc'[c] = "done"
      /\ pc' \in [Procs -> EofParents \cup EofChildren]
      /\ \A q \in Procs \ {c} : pc'[q] = pc[q]
      /\ \A q \in Procs : q[1] # l => pc'[q] = pc[q]
  BY <1>0, EofGoes DEF R!EofChildReturns, EofChildren
<1>2. UNCHANGED <<off, size, cut, got>>
  BY DEF R!EofChildReturns
<1>3. Locked(EofBytes)' /\ \A q \in Procs \ {c} : locks'[q] = locks[q]
  BY <1>0, EofDrops DEF R!EofChildReturns
<1>4. EofTypes'
  BY <1>1, <1>2, <1>3 DEF EofInv, EofTypes
<1>5. EofRun(l)'
  BY <1>0, <1>1, <1>2, <1>3 DEF EofRun, EofForked, EofChildren
<1> QED
  BY <1>1, <1>2, <1>3, <1>4, <1>5, EofOneRun, ProcForm

LEMMA EofLseek ==
  ASSUME EofInv, NEW l \in Launches, R!Lseek(l) PROVE EofInv'
<1> DEFINE p == <<l, "parent">>
<1>0. p \in Procs /\ <<l, "child">> \in Procs /\ p # <<l, "child">> /\ p = R!Parent(l) /\ EofRun(l)
  BY ProcForm DEF R!Parent, EofInv
<1>1. /\ pc[p] = "lseek" /\ pc'[p] = "c"
      /\ pc' \in [Procs -> EofParents \cup EofChildren]
      /\ \A q \in Procs \ {p} : pc'[q] = pc[q]
      /\ \A q \in Procs : q[1] # l => pc'[q] = pc[q]
  BY <1>0, EofGoes DEF R!Lseek, EofParents, EofForked
<1>2. /\ UNCHANGED <<size, locks, waits, cut, got>> /\ off' \in [Launches -> 0..3] /\ off'[l] = 2
      /\ \A m \in Launches \ {l} : off'[m] = off[m]
  BY DEF R!Lseek, EofInv, EofTypes
<1>3. EofTypes'
  BY <1>1, <1>2 DEF EofInv, EofTypes, Locked
<1>4. EofRun(l)'
  BY <1>0, <1>1, <1>2 DEF EofRun, EofForked, EofParents
<1> QED
  BY <1>1, <1>2, <1>3, <1>4, EofOneRun

LEMMA EofSteps ==
  ASSUME EofInv, R!EofNext PROVE EofInv'
<1> SUFFICES ASSUME NEW l \in Launches,
                    \/ R!Creat(l) \/ R!LockEnd(l)
                    \/ R!Write(l, "a", "unlock") \/ R!UnlockEnd(l) \/ R!Write(l, "b", "fork")
                    \/ R!EofFork(l) \/ R!ChildLock0(l) \/ R!ChildLock1(l) \/ R!EofChildReturns(l)
                    \/ R!Lseek(l) \/ R!Write(l, "c", "done")
             PROVE  EofInv'
  BY DEF R!EofNext
<1>1. CASE R!Write(l, "a", "unlock") \/ R!Write(l, "b", "fork") \/ R!Write(l, "c", "done")
  BY <1>1, EofWrites
<1>2. CASE R!ChildLock0(l) \/ R!ChildLock1(l)
  BY <1>2, EofChildLocks DEF R!ChildLock0, R!ChildLock1
<1> QED
  BY <1>1, <1>2, EofCreat, EofLockEnd, EofUnlock, EofForks, EofReturns, EofLseek

LEMMA EofHolds ==
  ASSUME EofInv PROVE R!EofTypeOK /\ R!FirstByteStays /\ R!ChildRefused
<1>1. R!EofRL!Bytes = EofBytes /\ R!Procs = Procs
  BY DEF R!EofRL!Bytes, EofBytes, R!Procs, Procs
<1>2. R!EofRL!LocksTypeOK
  BY <1>1 DEF EofInv, EofTypes, Locked, R!EofRL!LocksTypeOK, R!EofRL!Locks, Kinds
<1>3. R!EofTypeOK
  BY <1>1, <1>2 DEF EofInv, EofTypes, EofRun, R!EofTypeOK, R!EofEnded, R!AfterUnlock, R!Parent, R!Child,
                    EofParents, EofChildren, EofForked
<1>4. ASSUME NEW l \in Launches \ cut, pc[<<l, "parent">>] \in R!AfterUnlock
      PROVE  locks[<<l, "parent">>] = [b \in EofBytes |-> IF b = 0 THEN "write" ELSE "none"]
  <2>1. /\ locks[<<l, "parent">>] \in [EofBytes -> Kinds]
        /\ \A b \in EofBytes : locks[<<l, "parent">>][b] = IF b = 0 THEN "write" ELSE "none"
    BY <1>4, ProcForm DEF EofInv, EofTypes, EofRun, Locked, R!AfterUnlock
  <2> QED
    BY <2>1
<1>5. R!FirstByteStays
  BY <1>1, <1>4 DEF R!FirstByteStays, R!Parent
<1>6. R!ChildRefused
  BY DEF R!ChildRefused, R!Parent, R!EofEnded, EofInv, EofRun
<1> QED
  BY <1>3, <1>5, <1>6

\* Who keeps a child from its second lock is not its parent, and the last
\* character is appended.
LEMMA EofCause ==
  ASSUME EofInv, R!EofNext PROVE R!ChildGetsLater /\ R!AppendsAtEnd
<1> USE DEF R!Parent, R!Child
<1>1. ASSUME NEW l \in Launches \ cut, pc[<<l, "child">>] = "lock1", pc'[<<l, "child">>] = "return",
             2 \notin got'[l]
      PROVE  R!EofRL!Owners(<<l, "child">>, "write", {2}) \ {<<l, "parent">>} # {}
  <2>1. \A k \in Launches : <<k, "parent">> # <<l, "child">> /\ (<<k, "child">> = <<l, "child">> => k = l)
    OBVIOUS
  <2>2. PICK k \in Launches : R!ChildLock1(k)
    <3>1. PICK k \in Launches :
             \/ R!Creat(k) \/ R!LockEnd(k)
             \/ R!Write(k, "a", "unlock") \/ R!UnlockEnd(k) \/ R!Write(k, "b", "fork")
             \/ R!EofFork(k) \/ R!ChildLock0(k) \/ R!ChildLock1(k) \/ R!EofChildReturns(k)
             \/ R!Lseek(k) \/ R!Write(k, "c", "done")
      BY DEF R!EofNext
    <3>2. ASSUME \/ R!Creat(k) \/ R!LockEnd(k)
                 \/ R!Write(k, "a", "unlock") \/ R!UnlockEnd(k) \/ R!Write(k, "b", "fork")
                 \/ R!Lseek(k) \/ R!Write(k, "c", "done")
          PROVE  \E s : pc' = [pc EXCEPT ![<<k, "parent">>] = s]
      BY <3>2 DEF R!Creat, R!LockEnd, R!Write, R!UnlockEnd, R!Lseek, R!Go
    <3>3. ~(\E s : pc' = [pc EXCEPT ![<<k, "parent">>] = s])
      BY <1>1, <2>1, ProcForm DEF EofInv, EofTypes
    <3>4. ~R!EofFork(k)
      BY <1>1, <2>1, <3>3, ProcForm DEF R!EofFork, R!Go, EofInv, EofTypes
    <3>5. ~R!ChildLock0(k) /\ ~R!EofChildReturns(k)
      BY <1>1, <2>1, ProcForm DEF R!ChildLock0, R!ChildLock, R!EofChildReturns, R!Go, EofInv, EofTypes
    <3> QED
      BY <3>1, <3>2, <3>3, <3>4, <3>5
  <2>3. k = l
    BY <1>1, <2>1, <2>2, ProcForm DEF R!ChildLock1, R!ChildLock, R!Go, EofInv, EofTypes
  <2>4. R!EofRL!Denied(<<l, "child">>, "write", {2})
    <3>1. got \in [Launches -> SUBSET EofBytes]
      BY DEF EofInv, EofTypes
    <3> QED
      BY <1>1, <2>2, <2>3, <3>1 DEF R!ChildLock1, R!ChildLock
  <2>5. locks[<<l, "parent">>][2] = "none"
    <3>1. 2 \in EofBytes
      BY DEF EofBytes
    <3>2. EofRun(l)
      BY DEF EofInv
    <3> QED
      BY <1>1, <3>1, <3>2 DEF EofRun, EofForked
  <2>6. <<l, "parent">> \notin R!EofRL!Owners(<<l, "child">>, "write", {2})
    BY <2>5 DEF R!EofRL!Owners
  <2> QED
    BY <2>4, <2>6 DEF R!EofRL!Denied
<1>2. ASSUME NEW l \in Launches \ cut, pc[<<l, "parent">>] = "c", pc'[<<l, "parent">>] = "done"
      PROVE  size' = off[l] + 1
  <2>1. PICK k \in Launches :
           \/ R!Creat(k) \/ R!LockEnd(k)
           \/ R!Write(k, "a", "unlock") \/ R!UnlockEnd(k) \/ R!Write(k, "b", "fork")
           \/ R!EofFork(k) \/ R!ChildLock0(k) \/ R!ChildLock1(k) \/ R!EofChildReturns(k)
           \/ R!Lseek(k) \/ R!Write(k, "c", "done")
    BY DEF R!EofNext
  <2>2. \A m \in Launches : <<m, "child">> # <<l, "parent">> /\ (<<m, "parent">> = <<l, "parent">> => m = l)
    OBVIOUS
  <2>3. ASSUME \/ R!Creat(k) \/ R!LockEnd(k)
               \/ R!Write(k, "a", "unlock") \/ R!UnlockEnd(k) \/ R!Write(k, "b", "fork")
               \/ R!Lseek(k)
        PROVE  FALSE
    <3>1. \E s \in EofParents \ {"c"}, t \in EofParents \ {"done"} :
            pc[<<k, "parent">>] = s /\ pc' = [pc EXCEPT ![<<k, "parent">>] = t]
      BY <2>3 DEF R!Creat, R!LockEnd, R!Write, R!UnlockEnd, R!Lseek, R!Go, EofParents, EofForked
    <3> QED
      BY <1>2, <2>2, <3>1, ProcForm DEF EofInv, EofTypes
  <2>4. ~R!EofFork(k)
    BY <1>2, <2>2, ProcForm DEF R!EofFork, R!Go, EofInv, EofTypes
  <2>5. ASSUME R!ChildLock0(k) \/ R!ChildLock1(k) \/ R!EofChildReturns(k) PROVE FALSE
    BY <1>2, <2>2, <2>5, ProcForm DEF R!ChildLock0, R!ChildLock1, R!ChildLock, R!EofChildReturns, R!Go,
                                      EofInv, EofTypes
  <2>6. R!Write(k, "c", "done")
    BY <2>1, <2>3, <2>4, <2>5
  <2>7. k = l
    BY <1>2, <2>2, <2>6, ProcForm DEF R!Write, R!Go, EofInv, EofTypes
  <2> QED
    BY <2>6, <2>7, EofWrites
<1> QED
  BY <1>1, <1>2 DEF R!ChildGetsLater, R!AppendsAtEnd

------------------------------------------------------------------------------
(* mandlock.c *)

MandParents  == {"open", "write", "write_lock", "fork", "waitpid", "exit0", "exit1", "killed"}
MandChildren == {"unborn", "read_lock", "locked", "read", "exit0", "exit1", "killed"}
MandAlive    == {"read_lock", "locked", "read"}

\* Has run c written its text, and may its child still want it?
MandWritten(c) == \/ pc[<<c, "parent">>] \in {"write_lock", "fork", "waitpid"}
                  \/ pc[<<c, "child">>] \in MandAlive

MandRun(c) ==
  /\ pc[<<c, "parent">>] \in MandParents /\ pc[<<c, "child">>] \in MandChildren
  /\ holder = c <=> pc[<<c, "parent">>] \in {"fork", "waitpid"}
  /\ pc[<<c, "parent">>] \in {"open", "write", "write_lock", "fork", "exit1"} =>
       pc[<<c, "child">>] = "unborn"
  /\ pc[<<c, "child">>] \in MandAlive => pc[<<c, "parent">>] \in {"waitpid", "killed"}
  /\ pc[<<c, "child">>] = "locked" => pc[<<c, "parent">>] = "killed"

\* The text is there unless another run has opened the file since.
MandText(c) ==
  MandWritten(c) /\ text = 0 =>
    \E d \in Launches \ {c} : pc[<<d, "parent">>] \in {"write", "exit1", "killed"}

MandInv ==
  /\ pc \in [Procs -> MandParents \cup MandChildren]
  /\ text \in {0, 6} /\ holder \in Launches \cup {NoOne}
  /\ \A c \in Launches : MandRun(c) /\ MandText(c)

LEMMA MandStarts ==
  ASSUME R!MandInit PROVE MandInv
<1>1. /\ pc = [p \in Procs |-> IF p[2] = "parent" THEN "open" ELSE "unborn"]
      /\ text = 0 /\ holder = NoOne
  BY DEF R!MandInit, R!Procs, Procs
<1>2. \A c \in Launches : pc[<<c, "parent">>] = "open" /\ pc[<<c, "child">>] = "unborn" /\ NoOne # c
  BY <1>1, ProcForm, FileAssumption
<1> QED
  BY <1>1, <1>2 DEF MandInv, MandRun, MandText, MandParents, MandChildren, MandAlive, MandWritten

\* A process goes on, to a place where its run still needs or does not need its
\* text; whoever lets go of the file does not stop to count as the one that may
\* have emptied it.
LEMMA MandMoves ==
  ASSUME MandInv, NEW c \in Launches, NEW p \in {<<c, "parent">>, <<c, "child">>}, NEW to,
         pc' = [pc EXCEPT ![p] = to], text' \in {0, 6}, holder' \in Launches \cup {NoOne},
         \A k \in Launches \ {c} : holder' = k <=> holder = k,
         holder' = c <=> pc'[<<c, "parent">>] \in {"fork", "waitpid"},
         p = <<c, "parent">> =>
           /\ to \in MandParents \ {"open"}
           /\ to \in {"write", "write_lock", "fork", "exit1"} => pc[<<c, "child">>] = "unborn"
           /\ pc[<<c, "child">>] \in MandAlive => to = "killed"
           /\ to = "write_lock" => text' = 6
           /\ to \in {"fork", "waitpid"} => MandWritten(c)
           /\ \/ text' = 6
              \/ pc[p] \in {"write", "exit1", "killed"} => to \in {"write", "exit1", "killed"},
         p = <<c, "child">> =>
           /\ to \in MandChildren \ {"unborn"} /\ pc[p] \in MandAlive
           /\ to = "locked" => pc[<<c, "parent">>] = "killed",
         text' = text \/ text' = 6 \/ (text' = 0 /\ p = <<c, "parent">> /\ to = "write")
  PROVE  MandInv'
<1>1. /\ p \in Procs /\ pc' \in [Procs -> MandParents \cup MandChildren]
      /\ pc'[p] = to /\ \A q \in Procs \ {p} : pc'[q] = pc[q]
  BY ProcForm DEF MandInv, MandRun
<1>2. ASSUME NEW k \in Launches \ {c}
      PROVE  pc'[<<k, "parent">>] = pc[<<k, "parent">>] /\ pc'[<<k, "child">>] = pc[<<k, "child">>]
  BY <1>1, ProcForm
<1>3. ASSUME NEW k \in Launches
      PROVE  MandRun(k)'
  <2>1. CASE k # c
    BY <1>2, <2>1 DEF MandInv, MandRun
  <2>2. CASE k = c /\ p = <<c, "parent">>
    <3>1. pc'[<<c, "child">>] = pc[<<c, "child">>] /\ pc'[<<c, "parent">>] = to
      BY <1>1, <2>2, ProcForm
    <3>2. pc[<<c, "child">>] = "locked" => to = "killed"
      BY <2>2 DEF MandAlive
    <3> QED
      BY <2>2, <3>1, <3>2 DEF MandInv, MandRun
  <2>3. CASE k = c /\ p = <<c, "child">>
    <3>1. pc'[<<c, "parent">>] = pc[<<c, "parent">>] /\ pc'[<<c, "child">>] = to
      BY <1>1, <2>3, ProcForm
    <3>2. /\ pc[<<c, "child">>] \in MandAlive /\ pc[<<c, "child">>] # "unborn"
          /\ to \in MandChildren /\ (to = "locked" => pc[<<c, "parent">>] = "killed")
          /\ holder' = c <=> pc'[<<c, "parent">>] \in {"fork", "waitpid"}
      BY <2>3 DEF MandAlive
    <3>3. MandRun(c)
      BY DEF MandInv
    <3> QED
      BY <2>3, <3>1, <3>2, <3>3 DEF MandRun
  <2> QED
    BY <2>1, <2>2, <2>3
<1>4. ASSUME NEW k \in Launches, MandWritten(k)', text' = 0
      PROVE  MandText(k)'
  <2>1. CASE text = 0
    <3>1. MandWritten(k)
      BY <1>1, <1>2, <1>4, ProcForm DEF MandWritten
    <3>2. PICK d \in Launches \ {k} : pc[<<d, "parent">>] \in {"write", "exit1", "killed"}
      BY <2>1, <3>1 DEF MandInv, MandText
    <3>3. pc'[<<d, "parent">>] \in {"write", "exit1", "killed"}
      BY <1>1, <1>2, <1>4, <3>2, ProcForm
    <3> QED
      BY <3>3 DEF MandText
  <2>2. CASE text # 0
    <3>1. p = <<c, "parent">> /\ to = "write"
      BY <1>4, <2>2
    <3>2. pc'[<<c, "parent">>] = "write" /\ pc'[<<c, "child">>] = "unborn"
      BY <1>1, <3>1, ProcForm
    <3>3. k # c
      BY <1>4, <3>2 DEF MandWritten, MandAlive
    <3> QED
      BY <3>2, <3>3 DEF MandText
  <2> QED
    BY <2>1, <2>2
<1>5. \A k \in Launches : MandText(k)'
  BY <1>4 DEF MandText
<1> QED
  BY <1>1, <1>3, <1>5 DEF MandInv

LEMMA MandEnd ==
  ASSUME MandInv, NEW c \in Launches, NEW p \in {<<c, "parent">>, <<c, "child">>},
         NEW to \in R!MandEnded, R!MandEnds(p, to), pc[p] \notin R!MandEnded \cup {"unborn"},
         text' = text, p = <<c, "parent">> /\ pc[<<c, "child">>] \in MandAlive => to = "killed",
         p = <<c, "parent">> /\ to = "exit1" => pc[<<c, "child">>] = "unborn",
         p = <<c, "parent">> /\ to = "exit0" => pc[p] # "write"
  PROVE  MandInv'
<1>1. pc' = [pc EXCEPT ![p] = to] /\ to \in {"exit0", "exit1", "killed"}
  BY DEF R!MandEnds, R!MandGoes, R!MandEnded
<1>2. p[1] = c /\ (p = <<c, "parent">> => p[2] = "parent") /\ (p = <<c, "child">> => p[2] = "child")
  OBVIOUS
<1>3. CASE p = <<c, "parent">>
  <2>1. holder' = IF holder = c THEN NoOne ELSE holder
    BY <1>2, <1>3 DEF R!MandEnds
  <2>2. pc'[<<c, "parent">>] = to /\ NoOne # c /\ \A k \in Launches : NoOne # k
    BY <1>1, <1>3, ProcForm, FileAssumption DEF MandInv, MandRun
  <2>3. /\ holder' \in Launches \cup {NoOne} /\ holder' # c
        /\ \A k \in Launches \ {c} : holder' = k <=> holder = k
    BY <2>1, <2>2 DEF MandInv, MandRun
  <2>4. pc[p] \in {"write", "exit1", "killed"} => to \in {"write", "exit1", "killed"}
    BY <1>1, <1>3 DEF R!MandEnded
  <2>5. <<c, "parent">> # <<c, "child">> /\ text' \in {0, 6}
    BY DEF MandInv, MandRun
  <2> QED
    BY <1>1, <1>3, <2>2, <2>3, <2>4, <2>5, MandMoves DEF MandParents
<1>4. CASE p = <<c, "child">>
  <2>1. holder' = holder
    BY <1>2, <1>4 DEF R!MandEnds
  <2>2. pc'[<<c, "parent">>] = pc[<<c, "parent">>] /\ <<c, "parent">> # <<c, "child">>
    BY <1>1, <1>4, ProcForm DEF MandInv, MandRun
  <2>3. pc[p] \in MandAlive
    BY <1>4 DEF MandInv, MandRun, MandChildren, MandAlive, R!MandEnded
  <2>4. /\ holder' \in Launches \cup {NoOne} /\ text' \in {0, 6}
        /\ holder' = c <=> pc'[<<c, "parent">>] \in {"fork", "waitpid"}
    BY <2>1, <2>2 DEF MandInv, MandRun
  <2> QED
    BY <1>1, <1>4, <2>1, <2>2, <2>3, <2>4, MandMoves DEF MandChildren
<1> QED
  BY <1>3, <1>4

LEMMA MandParentSteps ==
  ASSUME MandInv, NEW c \in Launches,
         R!MandOpen(c) \/ R!MandWrite(c) \/ R!MandWriteLock(c) \/ R!MandFork(c) \/ R!MandWait(c)
  PROVE  MandInv'
<1> DEFINE p == <<c, "parent">>
<1>0. p = R!Parent(c) /\ R!Child(c) = <<c, "child">> /\ p # <<c, "child">> /\ p \in Procs
  BY ProcForm DEF R!Parent, R!Child
<1>1. ASSUME NEW to, pc' = [pc EXCEPT ![p] = to]
      PROVE  pc'[<<c, "parent">>] = to
  BY <1>0, <1>1 DEF MandInv, MandRun
<1>2. CASE R!MandOpen(c)
  <2>1. /\ pc[p] = "open" /\ holder' = holder
        /\ \/ pc' = [pc EXCEPT ![p] = "write"] /\ text' = 0
           \/ pc' = [pc EXCEPT ![p] = "exit1"] /\ text' = text
    BY <1>0, <1>2 DEF R!MandOpen, R!MandGoes
  <2>2. /\ pc[<<c, "child">>] = "unborn" /\ holder # c /\ text' \in {0, 6}
        /\ holder' \in Launches \cup {NoOne}
    BY <2>1 DEF MandInv, MandRun
  <2>3. CASE pc' = [pc EXCEPT ![p] = "write"] /\ text' = 0
    BY <1>0, <1>1, <2>1, <2>2, <2>3, MandMoves DEF MandParents, MandAlive
  <2>4. CASE pc' = [pc EXCEPT ![p] = "exit1"] /\ text' = text
    BY <1>0, <1>1, <2>1, <2>2, <2>4, MandMoves DEF MandParents, MandAlive
  <2> QED
    BY <2>1, <2>3, <2>4
<1>3. CASE R!MandWrite(c)
  <2>1. /\ pc[p] = "write"
        /\ \/ pc' = [pc EXCEPT ![p] = "write_lock"] /\ text' = 6 /\ holder' = holder
           \/ R!MandEnds(p, "exit1") /\ text' = text
    BY <1>0, <1>3 DEF R!MandWrite, R!MandGoes
  <2>2. pc[<<c, "child">>] = "unborn" /\ holder # c /\ holder \in Launches \cup {NoOne}
    BY <2>1 DEF MandInv, MandRun
  <2>3. CASE pc' = [pc EXCEPT ![p] = "write_lock"] /\ text' = 6 /\ holder' = holder
    BY <1>0, <1>1, <2>1, <2>2, <2>3, MandMoves DEF MandParents, MandAlive
  <2>4. CASE R!MandEnds(p, "exit1") /\ text' = text
    BY <1>0, <2>1, <2>2, <2>4, MandEnd DEF R!MandEnded, MandAlive
  <2> QED
    BY <2>1, <2>3, <2>4
<1>4. CASE R!MandWriteLock(c)
  <2>1. /\ pc[p] = "write_lock" /\ text' = text
        /\ \/ holder = NoOne /\ holder' = c /\ pc' = [pc EXCEPT ![p] = "fork"]
           \/ R!MandEnds(p, "exit1")
    BY <1>0, <1>4 DEF R!MandWriteLock, R!MandGoes
  <2>2. pc[<<c, "child">>] = "unborn" /\ MandWritten(c) /\ text' \in {0, 6} /\ \A k \in Launches : NoOne # k
    BY <2>1, FileAssumption DEF MandInv, MandRun, MandWritten
  <2>3. CASE holder = NoOne /\ holder' = c /\ pc' = [pc EXCEPT ![p] = "fork"]
    BY <1>0, <1>1, <2>1, <2>2, <2>3, MandMoves DEF MandParents, MandAlive
  <2>4. CASE R!MandEnds(p, "exit1")
    BY <1>0, <2>1, <2>2, <2>4, MandEnd DEF R!MandEnded, MandAlive
  <2> QED
    BY <2>1, <2>3, <2>4
<1>5. CASE R!MandFork(c)
  <2>1. /\ pc[p] = "fork" /\ text' = text
        /\ \/ pc' = [pc EXCEPT ![p] = "waitpid", ![<<c, "child">>] = "read_lock"] /\ holder' = holder
           \/ R!MandEnds(p, "exit1")
    BY <1>0, <1>5 DEF R!MandFork
  <2>2. pc[<<c, "child">>] = "unborn" /\ MandWritten(c)
    BY <2>1 DEF MandInv, MandRun, MandWritten
  <2>3. CASE pc' = [pc EXCEPT ![p] = "waitpid", ![<<c, "child">>] = "read_lock"] /\ holder' = holder
    <3>1. /\ pc' \in [Procs -> MandParents \cup MandChildren]
          /\ pc'[p] = "waitpid" /\ pc'[<<c, "child">>] = "read_lock"
          /\ \A q \in Procs : q # p /\ q # <<c, "child">> => pc'[q] = pc[q]
      BY <1>0, <2>3, ProcForm DEF MandInv, MandRun, MandParents, MandChildren
    <3>2. ASSUME NEW k \in Launches \ {c}
          PROVE  pc'[<<k, "parent">>] = pc[<<k, "parent">>] /\ pc'[<<k, "child">>] = pc[<<k, "child">>]
      BY <3>1, ProcForm
    <3>3. ASSUME NEW k \in Launches, MandWritten(k)', text' = 0
          PROVE  MandText(k)'
      <4>1. MandWritten(k)
        BY <2>2, <3>2, <3>3 DEF MandWritten
      <4>2. PICK d \in Launches \ {k} : pc[<<d, "parent">>] \in {"write", "exit1", "killed"}
        BY <2>1, <3>3, <4>1 DEF MandInv, MandText
      <4> QED
        BY <2>1, <3>2, <4>2 DEF MandText
    <3>4. ASSUME NEW k \in Launches
          PROVE  MandRun(k)'
      <4>1. CASE k = c
        BY <2>1, <2>3, <3>1, <4>1 DEF MandInv, MandRun, MandParents, MandChildren
      <4>2. CASE k # c
        BY <2>3, <3>2, <4>2 DEF MandInv, MandRun
      <4> QED
        BY <4>1, <4>2
    <3>5. \A k \in Launches : MandText(k)'
      BY <3>3 DEF MandText
    <3>6. text' \in {0, 6} /\ holder' \in Launches \cup {NoOne}
      BY <2>1, <2>3 DEF MandInv
    <3> QED
      BY <3>1, <3>4, <3>5, <3>6 DEF MandInv
  <2>4. CASE R!MandEnds(p, "exit1")
    BY <1>0, <2>1, <2>2, <2>4, MandEnd DEF R!MandEnded, MandAlive
  <2> QED
    BY <2>1, <2>3, <2>4
<1>6. CASE R!MandWait(c)
  <2>1. /\ pc[p] = "waitpid" /\ pc[<<c, "child">>] \in R!MandEnded /\ text' = text
        /\ R!MandEnds(p, "exit0")
    BY <1>0, <1>6 DEF R!MandWait
  <2> QED
    BY <1>0, <2>1, MandEnd DEF R!MandEnded, MandAlive
<1> QED
  BY <1>2, <1>3, <1>4, <1>5, <1>6

LEMMA MandSteps ==
  ASSUME MandInv, R!MandNext PROVE MandInv'
<1>1. ASSUME NEW c \in Launches, R!MandReadLock(c) \/ R!LockedExit(c) \/ R!MandRead(c) PROVE MandInv'
  <2> DEFINE Moves(to) == /\ to \in MandChildren \ {"unborn"}
                         /\ pc[<<c, "child">>] \in MandAlive /\ pc' = [pc EXCEPT ![<<c, "child">>] = to]
                         /\ UNCHANGED <<text, holder>> /\ (to = "locked" => holder = NoOne)
  <2>0. \E to : Moves(to)
    <3>1. CASE R!MandReadLock(c) /\ holder = NoOne
      <4>1. Moves("locked")
        BY <3>1 DEF R!MandReadLock, R!MandGoes, R!Child, MandAlive, MandChildren
      <4> QED
        BY <4>1
    <3>2. CASE R!MandReadLock(c) /\ holder # NoOne
      <4>1. Moves("read")
        BY <3>2 DEF R!MandReadLock, R!MandGoes, R!Child, MandAlive, MandChildren
      <4> QED
        BY <4>1
    <3>3. CASE R!LockedExit(c)
      <4>1. Moves("exit0") \/ Moves("exit1")
        BY <3>3 DEF R!LockedExit, R!MandEnds, R!MandGoes, R!Child, MandAlive, MandChildren
      <4> QED
        BY <4>1
    <3>4. CASE R!MandRead(c)
      <4>1. Moves("exit0") \/ Moves("exit1")
        BY <3>4 DEF R!MandRead, R!MandEnds, R!MandGoes, R!Child, MandAlive, MandChildren
      <4> QED
        BY <4>1
    <3> QED
      BY <1>1, <3>1, <3>2, <3>3, <3>4
  <2>1. PICK to : Moves(to)
    BY <2>0
  <2>2. to = "locked" => pc[<<c, "parent">>] = "killed"
    BY <2>1, FileAssumption DEF MandInv, MandRun
  <2>3. pc'[<<c, "parent">>] = pc[<<c, "parent">>] /\ <<c, "parent">> # <<c, "child">>
    BY <2>1, ProcForm DEF MandInv, MandRun
  <2>4. /\ holder' \in Launches \cup {NoOne} /\ text' \in {0, 6}
        /\ holder' = c <=> pc'[<<c, "parent">>] \in {"fork", "waitpid"}
    BY <2>1, <2>3 DEF MandInv, MandRun
  <2> QED
    BY <2>1, <2>2, <2>3, <2>4, MandMoves
<1>2. ASSUME NEW p \in Procs, R!MandKilled(p) PROVE MandInv'
  <2>1. PICK c \in Launches : p \in {<<c, "parent">>, <<c, "child">>}
    BY ProcForm
  <2> QED
    BY <1>2, <2>1, MandEnd DEF R!MandKilled, R!MandEnded
<1> QED
  BY <1>1, <1>2, MandParentSteps DEF R!MandNext, R!MandStep, R!Procs, Procs

LEMMA MandHolds ==
  ASSUME MandInv PROVE R!MandTypeOK /\ R!OneRunForks /\ R!TextForCause
<1>1. R!MandTypeOK
  BY DEF MandInv, MandRun, R!MandTypeOK, R!Procs, Procs
<1>2. R!OneRunForks
  BY DEF MandInv, MandRun, R!OneRunForks, R!Parent, R!Child
<1>3. R!TextForCause
  BY DEF R!TextForCause, R!Parent, R!Child, MandInv, MandText, MandWritten, MandAlive
<1> QED
  BY <1>1, <1>2, <1>3

------------------------------------------------------------------------------
(* semaph.c *)

\* Semaphore counts as this module does.
LEMMA SameCount == \A T : S!Cardinality(T) = Cardinality(T)
BY DEF S!Cardinality, Cardinality

SemLabels == S!Ended \cup {"unborn", "semget", "setval", "fork", "take", "inside", "exit", "waitpid",
                      "remove"}
SemUsers  == {"fork", "take", "inside"} \* who needs the semaphore as it is

SemTypes ==
  /\ pc \in [S!Procs -> SemLabels] /\ made \in Nat /\ id \in [Launches -> 0..made]
  /\ sem \in 0..made /\ val \in Int /\ undo \in [S!Procs -> Int] /\ reset \subseteq 1..made

\* A run gets its id first, and has a child only after its fork().
SemOrder ==
  /\ \A l \in Launches :
       /\ pc[S!Parent(l)] = "semget" => id[l] = 0
       /\ pc[S!Parent(l)] \in {"semget", "setval", "fork"} => pc[S!Child(l)] = "unborn"
       /\ pc[S!Parent(l)] = "remove" => pc[S!Child(l)] \in S!Ended
       /\ pc[S!Child(l)] \in S!Ended \cup {"unborn", "take", "inside", "exit"}
  /\ \A p \in S!Procs : pc[p] \in SemUsers \cup {"setval"} => id[p[1]] # 0

\* The semaphore that a process uses, and whether it still needs it or has its unit.
Mine(p)    == id[p[1]]
SemUses(p) == pc[p] \in SemUsers
SemIn(p)   == pc[p] = "inside"

\* The adjustment of a process is what it has taken, on semaphores that nobody
\* has disturbed.
SemUndone ==
  \A p \in S!Procs : Mine(p) \notin reset =>
    /\ ~SemIn(p) => undo[p] = 0
    /\ SemIn(p) /\ Mine(p) = sem => undo[p] = 1

\* One process is inside, and then the value is 0.
SemAlone == \A p, q \in S!Procs :
  SemIn(p) /\ SemIn(q) /\ Mine(p) = Mine(q) /\ Mine(p) \notin reset => p = q

SemNeeded == \E p \in S!Procs : SemUses(p) /\ Mine(p) = sem
SemBusy   == \E p \in S!Procs : SemIn(p) /\ Mine(p) = sem

SemBalanced == sem # 0 /\ sem \notin reset /\ SemNeeded => val = IF SemBusy THEN 0 ELSE 1

\* Who needs a semaphore that is gone was disturbed.
SemRemoved == \A p \in S!Procs : SemUses(p) /\ Mine(p) # sem => Mine(p) \in reset

\* What the kernel would add to the value if the process ended now.
SemDue(label) == IF label = "inside" THEN {0, 1}
                 ELSE IF label \in {"exit", "waitpid", "remove"} THEN {-1, 0} ELSE {0}

SemAdjusted == val >= 0 /\ \A p \in S!Procs : undo[p] \in SemDue(pc[p])

SemInv == SemAdjusted /\ SemTypes /\ SemOrder /\ SemUndone /\ SemAlone /\ SemBalanced /\ SemRemoved

LEMMA SemProcForm ==
  /\ \A l \in Launches : /\ S!Parent(l) \in S!Procs /\ S!Child(l) \in S!Procs /\ S!Parent(l) # S!Child(l)
                         /\ S!Parent(l)[1] = l /\ S!Child(l)[1] = l
                         /\ S!Parent(l)[2] = "parent" /\ S!Child(l)[2] = "child"
  /\ \A p \in S!Procs : p[1] \in Launches /\ (p = S!Parent(p[1]) \/ p = S!Child(p[1]))
BY DEF S!Procs, S!Parent, S!Child

LEMMA ExceptType ==
  ASSUME NEW f \in [S!Procs -> Int], NEW p \in S!Procs, NEW i \in Int
  PROVE  [f EXCEPT ![p] = i] \in [S!Procs -> Int]
OBVIOUS

\* A step after which everybody needs and has what it needed and had.
LEMMA SemSame ==
  ASSUME UNCHANGED id, NEW q \in S!Procs, pc'[q] = "inside" <=> pc[q] = "inside",
         pc'[q] \in SemUsers <=> pc[q] \in SemUsers
  PROVE  (SemIn(q)' <=> SemIn(q)) /\ (SemUses(q)' <=> SemUses(q)) /\ Mine(q)' = Mine(q)
<1>1. SemIn(q)' <=> SemIn(q)
  BY DEF SemIn
<1>2. SemUses(q)' <=> SemUses(q)
  BY DEF SemUses
<1>3. Mine(q)' = Mine(q)
  BY DEF Mine
<1> QED BY <1>1, <1>2, <1>3

LEMMA SemFrame ==
  ASSUME SemUndone, SemAlone, SemBalanced, SemRemoved, UNCHANGED <<sem, val, undo, reset>>,
         \A q \in S!Procs : (SemIn(q)' <=> SemIn(q)) /\ (SemUses(q)' <=> SemUses(q)) /\ Mine(q)' = Mine(q)
  PROVE  SemUndone' /\ SemAlone' /\ SemBalanced' /\ SemRemoved'
<1>1. SemUndone' /\ SemAlone' /\ SemRemoved'
  BY DEF SemUndone, SemAlone, SemRemoved
<1>2. (SemNeeded' <=> SemNeeded) /\ (SemBusy' <=> SemBusy)
  BY DEF SemNeeded, SemBusy
<1>3. SemBalanced'
  BY <1>2 DEF SemBalanced
<1> QED BY <1>1, <1>3

LEMMA SemStarts == S!Init => SemInv
<1> SUFFICES ASSUME S!Init PROVE SemInv
  OBVIOUS
<1>1. \A p \in S!Procs : pc[p] \in {"semget", "unborn"} /\ undo[p] = 0
  BY DEF S!Init
<1>2. \A l \in Launches : pc[S!Child(l)] = "unborn" /\ id[l] = 0
  BY SemProcForm DEF S!Init
<1>3. SemTypes
  BY DEF S!Init, SemTypes, SemLabels, S!Ended
<1>4. SemOrder
  BY <1>1, <1>2, SemProcForm DEF SemOrder, SemUsers, S!Ended
<1>5. SemUndone /\ SemAlone /\ SemBalanced /\ SemRemoved
  BY <1>1 DEF SemUndone, SemAlone, SemBalanced, SemNeeded, SemBusy, SemRemoved, Mine, SemUses, SemIn, SemUsers
<1>6. SemAdjusted
  BY <1>1 DEF S!Init, SemAdjusted, SemDue
<1> QED BY <1>3, <1>4, <1>5, <1>6 DEF SemInv

\* Go() moves one process.
LEMMA SemGoes ==
  ASSUME SemTypes, NEW p \in S!Procs, NEW from, NEW to \in SemLabels, S!Go(p, from, to)
  PROVE  /\ pc[p] = from /\ pc' \in [S!Procs -> SemLabels]
         /\ \A q \in S!Procs : pc'[q] = IF q = p THEN to ELSE pc[q]
BY DEF SemTypes, S!Go

(* semget() and semctl() *)

LEMMA SemgetStep == ASSUME SemInv, NEW l \in Launches, S!Semget(l) PROVE SemInv'
<1> USE DEF SemInv
<1>1. /\ pc[S!Parent(l)] = "semget" /\ pc' \in [S!Procs -> SemLabels]
      /\ \A q \in S!Procs : pc'[q] = IF q = S!Parent(l) THEN "setval" ELSE pc[q]
  BY SemGoes, SemProcForm DEF S!Semget, SemLabels
<1>2. /\ id[l] = 0 /\ pc[S!Child(l)] = "unborn"
      /\ \A q \in S!Procs : q[1] = l => pc'[q] \in {"setval", "unborn"} /\ undo[q] = 0
  <2>1. id[l] = 0 /\ pc[S!Child(l)] = "unborn"
    BY <1>1 DEF SemOrder
  <2>2. \A q \in S!Procs : q[1] = l => q = S!Parent(l) \/ q = S!Child(l)
    BY SemProcForm
  <2>3. 0 \notin reset
    BY DEF SemTypes
  <2> QED BY <1>1, <2>1, <2>2, <2>3, SemProcForm DEF SemUndone, Mine, SemUses, SemIn
<1>3. /\ made' \in Nat /\ made <= made' /\ sem' \in 1..made' /\ UNCHANGED <<undo, reset>>
      /\ id' = [id EXCEPT ![l] = sem'] /\ val' \in Int
      /\ sem = 0 => sem' = made + 1
      /\ sem # 0 => sem' = sem /\ val' = val
  BY DEF S!Semget, SemTypes
<1>4. \A k \in Launches : id'[k] = IF k = l THEN sem' ELSE id[k]
  BY <1>3 DEF SemTypes
<1>5. \A q \in S!Procs : q[1] # l => pc'[q] = pc[q] /\ id'[q[1]] = id[q[1]] /\ id[q[1]] \in 0..made
  BY <1>1, <1>4, SemProcForm DEF SemTypes
<1>6. SemTypes'
  <2>1. id' \in [Launches -> 0..made']
    BY <1>3 DEF SemTypes
  <2>2. reset' \subseteq 1..made'
    BY <1>3 DEF SemTypes
  <2> QED BY <1>1, <1>3, <2>1, <2>2 DEF SemTypes
<1>7. SemOrder'
  BY <1>1, <1>2, <1>3, <1>4, <1>5, SemProcForm DEF SemOrder, SemUsers
<1>8. SemUndone'
  <2> SUFFICES ASSUME NEW q \in S!Procs, id'[q[1]] \notin reset
               PROVE  /\ pc'[q] # "inside" => undo[q] = 0
                      /\ pc'[q] = "inside" /\ id'[q[1]] = sem' => undo[q] = 1
    BY <1>3 DEF SemUndone, Mine, SemUses, SemIn
  <2>1. CASE q[1] = l
    BY <2>1, <1>2
  <2>2. CASE q[1] # l
    <3>1. pc'[q] = "inside" => id[q[1]] # 0
      BY <2>2, <1>5 DEF SemOrder, SemUsers
    <3>2. pc'[q] = "inside" /\ id'[q[1]] = sem' => id[q[1]] = sem
      BY <2>2, <1>3, <1>5, <3>1 DEF SemTypes
    <3> QED BY <2>2, <1>5, <3>2 DEF SemUndone, Mine, SemUses, SemIn
  <2> QED BY <2>1, <2>2
<1>9. SemAlone'
  <2>1. \A q \in S!Procs : pc'[q] = "inside" => q[1] # l
    BY <1>2
  <2> QED BY <1>3, <1>5, <2>1 DEF SemAlone, Mine, SemUses, SemIn
<1>10. SemBalanced'
  <2>1. \A q \in S!Procs : pc'[q] \in SemUsers => q[1] # l
    BY <1>2 DEF SemUsers
  <2>2. \A q \in S!Procs : pc'[q] \in SemUsers => id'[q[1]] # made + 1 /\ id'[q[1]] = id[q[1]] /\ pc'[q] = pc[q]
    BY <1>5, <2>1 DEF SemTypes
  <2>3. CASE sem = 0
    BY <2>2, <2>3, <1>3 DEF SemBalanced, SemNeeded, SemBusy, Mine, SemUses, SemIn
  <2>4. CASE sem # 0
    <3>1. \A q \in S!Procs : q[1] = l => pc[q] \notin SemUsers
      BY <1>1, <1>2, SemProcForm DEF SemUsers
    <3>2. \A q \in S!Procs : pc'[q] \in SemUsers <=> pc[q] \in SemUsers
      BY <3>1, <2>1, <1>5
    <3>3. ASSUME NEW q \in S!Procs
          PROVE  /\ SemUses(q)' /\ Mine(q)' = sem' <=> SemUses(q) /\ Mine(q) = sem
                 /\ SemIn(q)' /\ Mine(q)' = sem' <=> SemIn(q) /\ Mine(q) = sem
      <4>1. CASE q[1] = l
        <5>1. ~SemUses(q) /\ ~SemUses(q)'
          BY <4>1, <2>1, <3>1 DEF SemUses
        <5>2. ~SemIn(q) /\ ~SemIn(q)'
          BY <5>1 DEF SemUses, SemIn, SemUsers
        <5> QED BY <5>1, <5>2
      <4>2. CASE q[1] # l
        <5>1. pc'[q] = pc[q] /\ id'[q[1]] = id[q[1]]
          BY <4>2, <1>5
        <5>2. SemIn(q)' <=> SemIn(q)
          BY <5>1 DEF SemIn
        <5>3. SemUses(q)' <=> SemUses(q)
          BY <5>1 DEF SemUses
        <5>4. Mine(q)' = Mine(q)
          BY <5>1 DEF Mine
        <5> QED BY <5>2, <5>3, <5>4, <2>4, <1>3
      <4> QED BY <4>1, <4>2
    <3>5. (SemNeeded' <=> SemNeeded) /\ (SemBusy' <=> SemBusy)
      BY <3>3 DEF SemNeeded, SemBusy
    <3> QED BY <2>4, <3>5, <1>3 DEF SemBalanced
  <2> QED BY <2>3, <2>4
<1>11. SemRemoved'
  <2>1. \A q \in S!Procs : pc'[q] \in SemUsers => q[1] # l /\ id[q[1]] # 0
    BY <1>2, <1>5 DEF SemUsers, SemOrder
  <2> QED BY <2>1, <1>3, <1>5 DEF SemRemoved, Mine, SemUses, SemIn
<1>12. SemAdjusted'
  BY <1>1, <1>2, <1>3 DEF SemAdjusted, SemDue, S!Semget
<1> QED BY <1>6, <1>7, <1>8, <1>9, <1>10, <1>11, <1>12

\* semctl(SETVAL): what the adjustments were does not matter any more.
LEMMA SemSetvalStep == ASSUME SemInv, NEW l \in Launches, S!Setval(l) PROVE SemInv'
<1> USE DEF SemInv
<1>1. PICK to \in {"fork", "failed"} :
        /\ S!Go(S!Parent(l), "setval", to)
        /\ to = "fork" <=> id[l] = sem
  BY DEF S!Setval
<1>2. /\ pc[S!Parent(l)] = "setval" /\ pc' \in [S!Procs -> SemLabels]
      /\ \A q \in S!Procs : pc'[q] = IF q = S!Parent(l) THEN to ELSE pc[q]
  BY <1>1, SemGoes, SemProcForm DEF SemLabels, S!Ended
<1>3. id[l] # 0 /\ pc[S!Child(l)] = "unborn"
  BY <1>2, SemProcForm DEF SemOrder
<1>4. UNCHANGED <<id, sem, made>>
  BY DEF S!Setval
<1>5. CASE id[l] = sem
  <2>1. /\ val' = 1 /\ undo' = [p \in S!Procs |-> IF id[p[1]] = sem THEN 0 ELSE undo[p]]
        /\ reset' = IF S!Inside(sem) # {} THEN reset \cup {sem} ELSE reset
    BY <1>5, <1>1, <1>2 DEF S!Setval
  <2>2. sem \in 1..made /\ reset \subseteq reset' /\ reset' \subseteq 1..made
    BY <1>3, <1>5, <2>1 DEF SemTypes
  <2>3. sem \notin reset' => \A p \in S!Procs : ~(pc[p] = "inside" /\ id[p[1]] = sem)
    BY <2>1 DEF S!Inside
  <2>4. SemTypes'
    BY <1>2, <1>4, <2>1, <2>2 DEF SemTypes
  <2>5. SemOrder'
    BY <1>1, <1>2, <1>3, <1>4, <1>5, SemProcForm DEF SemOrder, SemUsers
  <2>6. SemUndone'
    BY <1>2, <1>4, <2>1, <2>2, <2>3 DEF SemUndone, Mine, SemUses, SemIn
  <2>7. SemAlone'
    BY <1>2, <1>4, <2>2 DEF SemAlone, Mine, SemUses, SemIn
  <2>8. SemBalanced'
    BY <1>2, <1>4, <2>1, <2>3 DEF SemBalanced, SemNeeded, SemBusy, Mine, SemUses, SemIn
  <2>9. SemRemoved'
    <3> SUFFICES ASSUME NEW q \in S!Procs, pc'[q] \in SemUsers, id[q[1]] # sem
                 PROVE  id[q[1]] \in reset'
      BY <1>4 DEF SemRemoved, Mine, SemUses, SemIn
    <3>1. q # S!Parent(l)
      BY <1>5, SemProcForm
    <3> QED BY <1>2, <2>2, <3>1 DEF SemRemoved, Mine, SemUses, SemIn
  <2>10. SemAdjusted'
    BY <1>1, <1>2, <2>1 DEF SemAdjusted, SemDue
  <2> QED BY <2>4, <2>5, <2>6, <2>7, <2>8, <2>9, <2>10
<1>6. CASE id[l] # sem
  <2>1. UNCHANGED <<val, undo, reset>> /\ to = "failed"
    BY <1>6, <1>1, <1>2 DEF S!Setval
  <2>2. SemTypes'
    BY <1>2, <1>4, <2>1 DEF SemTypes
  <2>3. SemOrder'
    BY <1>2, <1>3, <1>4, <2>1, SemProcForm DEF SemOrder, SemUsers, S!Ended
  <2>4. SemUndone' /\ SemAlone' /\ SemRemoved'
    BY <1>2, <1>4, <2>1 DEF SemUndone, SemAlone, SemRemoved, Mine, SemUses, SemIn, SemUsers
  <2>5. SemBalanced'
    BY <1>2, <1>4, <2>1 DEF SemBalanced, SemNeeded, SemBusy, Mine, SemUses, SemIn, SemUsers
  <2>6. SemAdjusted'
    BY <1>1, <1>2, <2>1 DEF SemAdjusted, SemDue
  <2> QED BY <2>2, <2>3, <2>4, <2>5, <2>6
<1> QED BY <1>5, <1>6

\* semctl(IPC_RMID).
LEMMA SemRemoveStep == ASSUME SemInv, NEW l \in Launches, S!Remove(l) PROVE SemInv'
<1> USE DEF SemInv
<1>1. PICK to \in {"done", "failed"} :
        S!Go(S!Parent(l), "remove", to) /\ (to = "done" <=> id[l] = sem)
  BY DEF S!Remove
<1>2. /\ pc[S!Parent(l)] = "remove" /\ pc' \in [S!Procs -> SemLabels] /\ to \in S!Ended
      /\ \A q \in S!Procs : pc'[q] = IF q = S!Parent(l) THEN to ELSE pc[q]
  BY <1>1, SemGoes, SemProcForm DEF SemLabels, S!Ended
<1>3. pc[S!Child(l)] \in S!Ended
  BY <1>2 DEF SemOrder
<1>4. \A q \in S!Procs : /\ pc'[q] \in SemUsers <=> pc[q] \in SemUsers
                         /\ pc[q] \in SemUsers => q[1] # l
  BY <1>2, <1>3, SemProcForm DEF SemUsers, S!Ended
<1>5. UNCHANGED <<id, made>>
  BY DEF S!Remove
<1>6. SemOrder'
  BY <1>2, <1>3, <1>5, SemProcForm DEF SemOrder, SemUsers, S!Ended
<1>7. CASE id[l] = sem
  <2>1. /\ sem' = 0 /\ val' = 0
        /\ reset' = IF S!OtherUsers(sem, l) # {} THEN reset \cup {sem} ELSE reset
        /\ undo' = [p \in S!Procs |-> IF id[p[1]] = sem THEN 0 ELSE undo[p]]
    BY <1>7, <1>1, <1>2 DEF S!Remove
  <2>2. S!OtherUsers(sem, l) # {} => sem # 0
    BY DEF S!OtherUsers, SemOrder, SemUsers
  <2>3. reset \subseteq reset' /\ reset' \subseteq 1..made
    BY <2>1, <2>2 DEF SemTypes
  <2>4. SemTypes'
    BY <1>2, <1>5, <2>1, <2>3 DEF SemTypes
  <2>5. \A q \in S!Procs : /\ Mine(q)' = Mine(q) /\ (SemIn(q)' => SemIn(q))
                           /\ SemUses(q)' => SemUses(q)
                           /\ SemUses(q)' /\ Mine(q) = sem => sem \in reset'
                           /\ SemIn(q)' => Mine(q) # 0
                           /\ ~SemIn(q)' => ~SemIn(q)
                           /\ undo'[q] = IF Mine(q) = sem THEN 0 ELSE undo[q]
    <3> TAKE q \in S!Procs
    <3>1. /\ (SemIn(q)' <=> SemIn(q)) /\ (SemUses(q)' <=> SemUses(q)) /\ Mine(q)' = Mine(q)
      <4>1. pc'[q] = "inside" <=> pc[q] = "inside"
        BY <1>2 DEF S!Ended
      <4> QED BY <1>4, <1>5, <4>1, SemSame
    <3>2. SemUses(q) /\ Mine(q) = sem => sem \in reset'
      <4>1. SemUses(q) /\ Mine(q) = sem => q[1] # l
        BY <1>4 DEF SemUses
      <4>2. SemUses(q) /\ Mine(q) = sem => q \in S!OtherUsers(sem, l)
        BY <4>1 DEF S!OtherUsers, SemUsers, SemUses, Mine
      <4> QED BY <2>1, <4>2
    <3>3. SemUses(q) => Mine(q) # 0
      BY DEF SemOrder, SemUses, Mine
    <3>4. SemIn(q) => SemUses(q)
      BY DEF SemUsers, SemIn, SemUses
    <3>5. undo'[q] = IF Mine(q) = sem THEN 0 ELSE undo[q]
      BY <2>1 DEF Mine
    <3> QED BY <3>1, <3>2, <3>3, <3>4, <3>5
  <2>6. SemUndone' /\ SemAlone' /\ SemBalanced'
    <3>1. SemUndone' /\ SemAlone'
      BY <2>1, <2>3, <2>5 DEF SemUndone, SemAlone
    <3> QED BY <2>1, <3>1 DEF SemBalanced
  <2>7. SemRemoved'
    BY <2>1, <2>3, <2>5 DEF SemRemoved
  <2>8. SemAdjusted'
    <3>1. \A q \in S!Procs : undo'[q] = 0 \/ (undo'[q] = undo[q] /\ id[q[1]] # sem)
      BY <2>1
    <3>2. S!Parent(l) \in S!Procs /\ S!Parent(l)[1] = l
      BY SemProcForm
    <3>3. \A q \in S!Procs : undo'[q] = 0 \/ (undo'[q] = undo[q] /\ pc'[q] = pc[q])
      BY <1>2, <1>7, <3>1, <3>2
    <3> QED BY <2>1, <3>3 DEF SemAdjusted, SemDue
  <2> QED BY <1>6, <2>4, <2>6, <2>7, <2>8
<1>8. CASE id[l] # sem
  <2>1. UNCHANGED <<sem, val, reset>> /\ undo' = [undo EXCEPT ![S!Parent(l)] = 0]
    BY <1>8, SemProcForm DEF S!Remove, S!Undo
  <2>2. \A q \in S!Procs : undo'[q] = IF q = S!Parent(l) THEN 0 ELSE undo[q]
    BY <2>1 DEF SemTypes
  <2>3. SemTypes'
    <3>1. undo \in [S!Procs -> Int] /\ S!Parent(l) \in S!Procs
      BY SemProcForm DEF SemTypes
    <3>2. undo' \in [S!Procs -> Int]
      BY <2>1, <3>1, ExceptType
    <3> QED BY <1>2, <1>5, <2>1, <3>2 DEF SemTypes
  <2>4. SemUndone' /\ SemAlone' /\ SemRemoved'
    BY <1>2, <1>4, <1>5, <2>1, <2>2 DEF SemUndone, SemAlone, SemRemoved, Mine, SemUses, SemIn, SemUsers
  <2>5. SemBalanced'
    <3>1. \A q \in S!Procs : pc'[q] = "inside" <=> pc[q] = "inside"
      BY <1>2, <1>4 DEF SemUsers, S!Ended
    <3>0. \A q \in S!Procs : (SemIn(q)' <=> SemIn(q)) /\ (SemUses(q)' <=> SemUses(q)) /\ Mine(q)' = Mine(q)
      BY <1>4, <1>5, <3>1, SemSame
    <3>2. (SemNeeded' <=> SemNeeded) /\ (SemBusy' <=> SemBusy)
      BY <2>1, <3>0 DEF SemNeeded, SemBusy
    <3>3. sem' = sem /\ reset' = reset /\ val' = val
      BY <2>1
    <3> QED BY <3>2, <3>3 DEF SemBalanced
  <2>6. SemAdjusted'
    <3>1. val' >= 0
      BY <1>8, SemProcForm DEF S!Remove, S!Undo, SemAdjusted, SemTypes
    <3> QED BY <1>2, <2>2, <3>1 DEF SemAdjusted, SemDue, S!Ended
  <2> QED BY <1>6, <2>3, <2>4, <2>5, <2>6
<1> QED BY <1>7, <1>8

------------------------------------------------------------------------------
(* fork() and waitpid() *)

LEMMA SemForkStep == ASSUME SemInv, NEW l \in Launches, S!Fork(l) PROVE SemInv'
<1> USE DEF SemInv
<1>1. pc[S!Parent(l)] = "fork" /\ pc[S!Child(l)] = "unborn"
  BY DEF S!Fork, SemOrder
<1>2. UNCHANGED <<id, sem, val, undo, made, reset>>
  BY DEF S!Fork
<1>3. PICK to \in {"take", "failed"} :
        \A q \in S!Procs : pc'[q] = IF q = S!Parent(l) THEN to
                                  ELSE IF q = S!Child(l) /\ to = "take" THEN "take" ELSE pc[q]
  <2>1. CASE pc' = [pc EXCEPT ![S!Parent(l)] = "take", ![S!Child(l)] = "take"]
    BY <2>1, SemProcForm DEF SemTypes
  <2>2. CASE S!Go(S!Parent(l), "fork", "failed")
    BY <2>2, SemGoes, SemProcForm DEF SemLabels, S!Ended
  <2> QED BY <2>1, <2>2 DEF S!Fork
<1>4. pc' \in [S!Procs -> SemLabels]
  <2>1. \A q \in S!Procs : pc'[q] \in SemLabels
    BY <1>3 DEF SemTypes, SemLabels, S!Ended
  <2>2. DOMAIN pc' = S!Procs /\ pc' = [q \in DOMAIN pc' |-> pc'[q]]
    BY DEF S!Fork, S!Go, SemTypes
  <2> QED BY <2>1, <2>2
<1>5. SemTypes'
  BY <1>2, <1>4 DEF SemTypes
<1>6. SemOrder'
  <2>1. id[l] # 0
    BY <1>1, SemProcForm DEF SemOrder, SemUsers
  <2> QED BY <1>1, <1>2, <1>3, <2>1, SemProcForm DEF SemOrder, SemUsers, S!Ended
<1>7. \A q \in S!Procs : /\ pc'[q] = "inside" <=> pc[q] = "inside"
                         /\ pc'[q] \in SemUsers => pc[q] \in SemUsers \/ q = S!Child(l)
  BY <1>1, <1>3 DEF SemUsers
<1>8. /\ S!Parent(l) \in S!Procs /\ SemUses(S!Parent(l)) /\ Mine(S!Child(l)) = Mine(S!Parent(l))
      /\ \A q \in S!Procs : /\ SemIn(q)' <=> SemIn(q)
                            /\ SemUses(q)' => SemUses(q) \/ q = S!Child(l)
                            /\ Mine(q)' = Mine(q)
  BY <1>1, <1>2, <1>7, SemProcForm DEF SemUsers, SemUses, SemIn, Mine
<1>9. SemUndone' /\ SemAlone' /\ SemRemoved'
  <2>1. SemUndone' /\ SemAlone'
    BY <1>2, <1>8 DEF SemUndone, SemAlone
  <2>2. SemRemoved'
    BY <1>2, <1>8 DEF SemRemoved
  <2> QED BY <2>1, <2>2
<1>10. SemBalanced'
  <2>1. (SemNeeded' => SemNeeded) /\ (SemBusy' <=> SemBusy)
    BY <1>2, <1>8 DEF SemNeeded, SemBusy
  <2> QED BY <1>2, <2>1 DEF SemBalanced
<1>11. SemAdjusted'
  BY <1>1, <1>2, <1>3 DEF SemAdjusted, SemDue
<1> QED BY <1>5, <1>6, <1>9, <1>10, <1>11

LEMMA SemWaitpidStep == ASSUME SemInv, NEW l \in Launches, S!Waitpid(l) PROVE SemInv'
<1> USE DEF SemInv
<1>1. /\ pc[S!Parent(l)] = "waitpid" /\ pc' \in [S!Procs -> SemLabels] /\ pc[S!Child(l)] \in S!Ended
      /\ \A q \in S!Procs : pc'[q] = IF q = S!Parent(l) THEN "remove" ELSE pc[q]
  BY SemGoes, SemProcForm DEF S!Waitpid, SemLabels
<1>2. UNCHANGED <<id, sem, val, undo, made, reset>>
  BY DEF S!Waitpid
<1>3. SemTypes'
  BY <1>1, <1>2 DEF SemTypes
<1>4. SemOrder'
  BY <1>1, <1>2, SemProcForm DEF SemOrder, SemUsers, S!Ended
<1>5. \A q \in S!Procs : /\ pc'[q] = "inside" <=> pc[q] = "inside"
                         /\ pc'[q] \in SemUsers <=> pc[q] \in SemUsers
  BY <1>1 DEF SemUsers
<1>6. SemUndone' /\ SemAlone' /\ SemRemoved' /\ SemBalanced'
  <2>1. \A q \in S!Procs : (SemIn(q)' <=> SemIn(q)) /\ (SemUses(q)' <=> SemUses(q)) /\ Mine(q)' = Mine(q)
    BY <1>2, <1>5, SemSame
  <2> QED BY <1>2, <2>1, SemFrame
<1>7. SemAdjusted'
  BY <1>1, <1>2 DEF SemAdjusted, SemDue
<1> QED BY <1>3, <1>4, <1>6, <1>7

------------------------------------------------------------------------------
(* semop() *)

LEMMA SemTakeStep == ASSUME SemInv, NEW p \in S!Procs, S!Take(p) PROVE SemInv'
<1> USE DEF SemInv
<1>1. /\ pc[p] = "take" /\ pc' \in [S!Procs -> SemLabels]
      /\ \A q \in S!Procs : pc'[q] = IF q = p THEN "inside" ELSE pc[q]
  BY SemGoes DEF S!Take, SemLabels
<1>2. UNCHANGED <<id, sem, made, reset>> /\ val' = val - 1 /\ val > 0 /\ id[p[1]] = sem
  BY DEF S!Take
<1>3. undo' = [undo EXCEPT ![p] = @ + 1] /\ undo \in [S!Procs -> Int] /\ undo[p] + 1 \in Int
  BY DEF S!Take, SemTypes
<1>4. /\ undo' \in [S!Procs -> Int]
      /\ \A q \in S!Procs : undo'[q] = IF q = p THEN undo[p] + 1 ELSE undo[q]
  BY <1>3, ExceptType
<1>5. SemTypes'
  BY <1>1, <1>2, <1>4 DEF SemTypes
<1>6. SemOrder'
  BY <1>1, <1>2, SemProcForm DEF SemOrder, SemUsers, S!Ended
<1>7. sem \notin reset =>
        /\ sem # 0 /\ val = 1 /\ \A q \in S!Procs : ~(pc[q] = "inside" /\ id[q[1]] = sem)
  BY <1>1, <1>2 DEF SemBalanced, SemNeeded, SemBusy, Mine, SemUses, SemIn, SemOrder, SemUsers
<1>8. SemUndone'
  BY <1>1, <1>2, <1>4 DEF SemUndone, Mine, SemUses, SemIn
<1>9. SemAlone' /\ SemBalanced'
  BY <1>1, <1>2, <1>7 DEF SemAlone, SemBalanced, SemNeeded, SemBusy, Mine, SemUses, SemIn
<1>10. SemRemoved'
  BY <1>1, <1>2 DEF SemRemoved, Mine, SemUses, SemIn, SemUsers
<1>11. SemAdjusted'
  BY <1>1, <1>2, <1>4 DEF SemAdjusted, SemDue, SemTypes
<1> QED BY <1>5, <1>6, <1>8, <1>9, <1>10, <1>11

LEMMA SemGiveStep == ASSUME SemInv, NEW p \in S!Procs, S!Give(p) PROVE SemInv'
<1> USE DEF SemInv
<1>1. PICK to \in {"exit", "waitpid"} :
        S!Go(p, "inside", to) /\ (to = "exit" <=> p[2] = "child")
  BY DEF S!Give
<1>2. /\ pc[p] = "inside" /\ pc' \in [S!Procs -> SemLabels]
      /\ \A q \in S!Procs : pc'[q] = IF q = p THEN to ELSE pc[q]
  BY <1>1, SemGoes DEF SemLabels
<1>3. UNCHANGED <<id, sem, made, reset>> /\ val' = val + 1 /\ id[p[1]] = sem
  BY DEF S!Give
<1>4. undo' = [undo EXCEPT ![p] = @ - 1] /\ undo \in [S!Procs -> Int] /\ undo[p] - 1 \in Int
  BY DEF S!Give, SemTypes
<1>5. /\ undo' \in [S!Procs -> Int]
      /\ \A q \in S!Procs : undo'[q] = IF q = p THEN undo[p] - 1 ELSE undo[q]
  BY <1>4, ExceptType
<1>6. SemTypes'
  BY <1>2, <1>3, <1>5 DEF SemTypes
<1>7. SemOrder'
  BY <1>1, <1>2, <1>3, SemProcForm DEF SemOrder, SemUsers, S!Ended
<1>8. sem \notin reset =>
        val = 0 /\ \A q \in S!Procs : pc[q] = "inside" /\ id[q[1]] = sem => q = p
  BY <1>2, <1>3 DEF SemBalanced, SemNeeded, SemBusy, SemAlone, Mine, SemUses, SemIn, SemOrder, SemUsers
<1>9. SemUndone'
  BY <1>2, <1>3, <1>5 DEF SemUndone, Mine, SemUses, SemIn
<1>10. SemAlone' /\ SemBalanced'
  BY <1>2, <1>3, <1>8 DEF SemAlone, SemBalanced, SemNeeded, SemBusy, Mine, SemUses, SemIn
<1>11. SemRemoved'
  BY <1>2, <1>3 DEF SemRemoved, Mine, SemUses, SemIn, SemUsers
<1>12. SemAdjusted'
  BY <1>1, <1>2, <1>3, <1>5 DEF SemAdjusted, SemDue, SemTypes
<1> QED BY <1>6, <1>7, <1>9, <1>10, <1>11, <1>12

------------------------------------------------------------------------------
(* The end of a process, whatever its reason: what it took is given back. *)

LEMMA SemEnding ==
  ASSUME SemInv, NEW p \in S!Procs, NEW to \in S!Ended, pc' = [pc EXCEPT ![p] = to],
         pc[p] # "unborn", S!Undo(p), UNCHANGED <<id, sem, made, reset>>
  PROVE  SemInv'
<1> USE DEF SemInv
<1>1. /\ pc' \in [S!Procs -> SemLabels] /\ to \notin SemUsers
      /\ \A q \in S!Procs : pc'[q] = IF q = p THEN to ELSE pc[q]
  BY DEF SemTypes, SemLabels, SemUsers, S!Ended
<1>2. undo' = [undo EXCEPT ![p] = 0] /\ undo \in [S!Procs -> Int]
  BY DEF S!Undo, SemTypes
<1>3. /\ undo' \in [S!Procs -> Int]
      /\ \A q \in S!Procs : undo'[q] = IF q = p THEN 0 ELSE undo[q]
  BY <1>2, ExceptType
<1>4. /\ val' = IF id[p[1]] = sem /\ val + undo[p] >= 0 THEN val + undo[p]
                ELSE IF id[p[1]] = sem THEN 0 ELSE val
      /\ undo[p] \in Int /\ val \in Int
  BY DEF S!Undo, SemTypes
<1>5. SemTypes'
  BY <1>1, <1>3, <1>4 DEF SemTypes
<1>6. SemOrder'
  BY <1>1, SemProcForm DEF SemOrder, SemUsers, S!Ended
<1>7. SemUndone' /\ SemAlone' /\ SemRemoved'
  BY <1>1, <1>3 DEF SemUndone, SemAlone, SemRemoved, Mine, SemUses, SemIn, SemUsers, S!Ended
<1>8. ASSUME sem # 0, sem \notin reset, NEW r \in S!Procs, pc'[r] \in SemUsers, id[r[1]] = sem
      PROVE  val' = IF \E q \in S!Procs : pc'[q] = "inside" /\ id[q[1]] = sem THEN 0 ELSE 1
  <2>1. pc[r] \in SemUsers /\ r # p
    BY <1>1, <1>8
  <2>2. val = IF \E q \in S!Procs : pc[q] = "inside" /\ id[q[1]] = sem THEN 0 ELSE 1
    BY <1>8, <2>1 DEF SemBalanced, SemNeeded, SemBusy, Mine, SemUses, SemIn
  <2>3. CASE pc[p] = "inside" /\ id[p[1]] = sem
    <3>1. val = 0 /\ undo[p] = 1
      BY <1>8, <2>2, <2>3 DEF SemUndone, Mine, SemUses, SemIn
    <3>2. \A q \in S!Procs : ~(pc'[q] = "inside" /\ id[q[1]] = sem)
      BY <1>1, <1>8, <2>3 DEF SemAlone, Mine, SemUses, SemIn, SemUsers
    <3> QED BY <1>4, <2>3, <3>1, <3>2
  <2>4. CASE pc[p] # "inside" /\ id[p[1]] = sem
    <3>1. undo[p] = 0
      BY <1>8, <2>4 DEF SemUndone, Mine, SemUses, SemIn
    <3>2. \A q \in S!Procs : pc'[q] = "inside" <=> pc[q] = "inside"
      BY <1>1, <2>4 DEF SemUsers
    <3>3. val' = val
      BY <1>4, <2>2, <2>4, <3>1
    <3> QED BY <2>2, <3>2, <3>3
  <2>5. CASE id[p[1]] # sem
    <3>1. val' = val
      BY <1>4, <2>5
    <3>2. \A q \in S!Procs : id[q[1]] = sem => pc'[q] = pc[q]
      BY <1>1, <2>5
    <3> QED BY <2>2, <3>1, <3>2
  <2> QED BY <2>3, <2>4, <2>5
<1>9. SemBalanced'
  BY <1>8 DEF SemBalanced, SemNeeded, SemBusy, Mine, SemUses, SemIn
<1>10. SemAdjusted'
  BY <1>1, <1>3, <1>4 DEF SemAdjusted, SemDue, S!Ended
<1> QED BY <1>5, <1>6, <1>7, <1>9, <1>10

------------------------------------------------------------------------------

LEMMA SemSteps == ASSUME SemInv, S!Next PROVE SemInv'
<1>1. ASSUME NEW l \in Launches, S!Launch(l) PROVE SemInv'
  <2>1. CASE S!ChildExit(l)
    <3>1. pc' = [pc EXCEPT ![S!Child(l)] = "done"] /\ pc[S!Child(l)] # "unborn" /\ "done" \in S!Ended
      BY <2>1 DEF S!ChildExit, S!Go, S!Ended
    <3> QED BY <2>1, <3>1, SemEnding, SemProcForm DEF S!ChildExit
  <2> QED BY <1>1, <2>1, SemgetStep, SemSetvalStep, SemForkStep, SemWaitpidStep, SemRemoveStep DEF S!Launch
<1>2. ASSUME NEW p \in S!Procs, S!Process(p) \/ S!Killed(p) PROVE SemInv'
  <2>1. CASE S!SemopFails(p)
    <3>1. pc' = [pc EXCEPT ![p] = "failed"] /\ pc[p] # "unborn" /\ "failed" \in S!Ended
      BY <2>1 DEF S!SemopFails, S!Ended
    <3> QED BY <2>1, <3>1, SemEnding DEF S!SemopFails
  <2>2. CASE S!Killed(p)
    <3>1. pc' = [pc EXCEPT ![p] = "killed"] /\ pc[p] # "unborn" /\ "killed" \in S!Ended
      BY <2>2 DEF S!Killed, S!Ended
    <3> QED BY <2>2, <3>1, SemEnding DEF S!Killed
  <2> QED BY <1>2, <2>1, <2>2, SemTakeStep, SemGiveStep DEF S!Process
<1> QED BY <1>1, <1>2 DEF S!Next

\* One process at a time is between its two operations.
LEMMA SemTurns == ASSUME SemInv PROVE S!TakeTurns
<1> SUFFICES ASSUME NEW s \in 1..made, s \notin reset
             PROVE  S!Cardinality(S!Inside(s)) <= 1
  BY DEF S!TakeTurns
<1>1. CASE S!Inside(s) = {}
  BY <1>1, FS_EmptySet, SameCount
<1>2. CASE S!Inside(s) # {}
  <2>1. PICK p \in S!Procs : p \in S!Inside(s)
    BY <1>2 DEF S!Inside
  <2>2. S!Inside(s) = {p}
    BY <2>1 DEF S!Inside, SemInv, SemAlone, Mine, SemUses, SemIn
  <2>3. Cardinality({p}) = 1 /\ S!Cardinality({p}) = Cardinality({p})
    BY FS_Singleton, SameCount
  <2> QED BY <2>2, <2>3
<1> QED BY <1>1, <1>2

\* The value and the processes inside add up to the unit of SETVAL.
LEMMA SemUnits == ASSUME SemInv PROVE S!UnitsConserved
<1> SUFFICES ASSUME sem # 0, sem \notin reset, NEW r \in S!Procs,
                    pc[r] \in {"fork", "take", "inside"}, id[r[1]] = sem
             PROVE  val + S!Cardinality(S!Inside(sem)) = 1
  BY DEF S!UnitsConserved
<1>1. val = IF S!Inside(sem) # {} THEN 0 ELSE 1
  BY DEF SemInv, SemBalanced, SemNeeded, SemBusy, Mine, SemUses, SemIn, S!Inside, SemUsers
<1>2. CASE S!Inside(sem) = {}
  BY <1>1, <1>2, FS_EmptySet, SameCount
<1>3. CASE S!Inside(sem) # {}
  <2>1. PICK p \in S!Procs : p \in S!Inside(sem)
    BY <1>3 DEF S!Inside
  <2>2. S!Inside(sem) = {p}
    BY <2>1 DEF S!Inside, SemInv, SemAlone, Mine, SemUses, SemIn
  <2>3. S!Cardinality(S!Inside(sem)) = 1
    BY <2>2, FS_Singleton, SameCount, Zenon
  <2> QED BY <1>1, <1>3, <2>3
<1> QED BY <1>2, <1>3

\* semop() fails only for a run whose semaphore another run has removed.
LEMMA SemCause == ASSUME SemInv, S!Next PROVE S!FailsOnlyIfRemoved
<1> SUFFICES ASSUME NEW p \in S!Procs, pc[p] \in {"take", "inside"},
                    pc'[p] = "failed"
             PROVE  id[p[1]] \in reset
  BY DEF S!FailsOnlyIfRemoved
<1>1. id[p[1]] # sem
  <2>1. \A l \in Launches : S!Launch(l) => pc'[p] = pc[p]
    <3> SUFFICES ASSUME NEW l \in Launches, S!Launch(l) PROVE pc'[p] = pc[p]
      OBVIOUS
    <3>1. pc \in [S!Procs -> SemLabels] /\ S!Parent(l) \in S!Procs /\ S!Child(l) \in S!Procs
      BY SemProcForm DEF SemInv, SemTypes
    <3>2. CASE S!Semget(l) \/ S!Setval(l)
      BY <3>1, <3>2 DEF S!Semget, S!Setval, S!Go
    <3>3. CASE S!Fork(l)
      <4>1. pc[S!Parent(l)] = "fork" /\ pc[S!Child(l)] = "unborn"
        BY <3>3 DEF S!Fork, SemInv, SemOrder
      <4> QED BY <3>1, <3>3, <4>1 DEF S!Fork, S!Go
    <3>4. CASE S!ChildExit(l) \/ S!Waitpid(l)
      BY <3>1, <3>4 DEF S!ChildExit, S!Waitpid, S!Go
    <3>5. CASE S!Remove(l)
      BY <3>1, <3>5 DEF S!Remove, S!Go
    <3> QED BY <3>2, <3>3, <3>4, <3>5 DEF S!Launch
  <2>2. \A q \in S!Procs : S!Take(q) \/ S!Give(q) \/ S!Killed(q) =>
          (pc'[p] = pc[p] \/ pc'[p] # "failed")
    BY DEF S!Take, S!Give, S!Killed, S!Go, SemInv, SemTypes
  <2>3. PICK q \in S!Procs : S!SemopFails(q)
    BY <2>1, <2>2 DEF S!Next, S!Process
  <2>4. q = p
    BY <2>3 DEF S!SemopFails, SemInv, SemTypes
  <2> QED BY <2>3, <2>4 DEF S!SemopFails
<1> QED BY <1>1 DEF SemInv, SemRemoved, Mine, SemUses, SemIn, SemUsers

LEMMA SemHolds == ASSUME SemInv PROVE S!TypeOK /\ S!TakeTurns /\ S!UnitsConserved
<1>1. /\ pc \in [S!Procs -> SemLabels]
      /\ \A l \in Launches : pc[S!Child(l)] \in S!Ended \cup {"unborn", "take", "inside", "exit"}
  BY DEF SemInv, SemTypes, SemOrder
<1>2. undo \in [S!Procs -> -1..1] /\ val \in Nat
  <2>1. \A p \in S!Procs : undo[p] \in -1..1
    BY DEF SemInv, SemAdjusted, SemDue
  <2> QED
    BY <2>1 DEF SemInv, SemAdjusted, SemTypes
<1>3. S!TypeOK
  BY <1>1, <1>2 DEF S!TypeOK, SemInv, SemTypes, SemLabels
<1> QED
  BY <1>3, SemTurns, SemUnits

------------------------------------------------------------------------------
(* nonblock.c *)

Chars  == Launches \X Nat
Places == {"read", "get", "set_fl", "write", "get again", "cls_fl", "exit0", "exit1", "killed"}

\* The characters of c in the output are its first n, in order.
Numbered(c, bytes, n) ==
  /\ \A i \in 1..Len(bytes) : bytes[i][1] = c => bytes[i][2] \in 1..n
  /\ \A k \in 1..n : \E i \in 1..Len(bytes) : bytes[i] = <<c, k>>
  /\ \A i, j \in 1..Len(bytes) :
       i < j /\ bytes[i][1] = c /\ bytes[j][1] = c => bytes[i][2] < bytes[j][2]

\* What c has written.
Out(c) == IF todo[c] > 0 THEN total[c] - todo[c] ELSE total[c]

CopyRun(c) ==
  /\ run[c] \in Places /\ todo[c] \in -1..MaxBytes /\ total[c] \in 0..MaxBytes
  /\ todo[c] <= total[c]
  /\ run[c] = "read" => todo[c] = 0 /\ total[c] = 0
  /\ run[c] \in {"get again", "cls_fl", "exit0"} => todo[c] <= 0
  /\ Numbered(c, taken \o stream, Out(c))

NonTypes ==
  /\ run \in [Launches -> Places] /\ nonblock \in BOOLEAN /\ flags \in [Launches -> BOOLEAN]
  /\ todo \in [Launches -> Int] /\ total \in [Launches -> Nat]
  /\ stream \in Seq(Chars) /\ taken \in Seq(Chars) /\ Len(stream) <= Space

NonInv == NonTypes /\ A!BlocksAgain /\ \A c \in Launches : CopyRun(c)

LEMMA Bounds == MaxBytes \in Nat /\ Space \in Nat /\ MaxTable \in Nat /\ MaxTable > 0
BY FileAssumption

\* A sequence and what comes after it.
LEMMA Longer ==
  ASSUME NEW E, NEW b \in Seq(E), NEW t \in Seq(E)
  PROVE  /\ b \o t \in Seq(E) /\ Len(b) \in Nat /\ Len(t) \in Nat /\ Len(b \o t) = Len(b) + Len(t)
         /\ \A i \in 1..Len(b) : (b \o t)[i] = b[i]
         /\ \A i \in 1..Len(t) : (b \o t)[Len(b) + i] = t[i]
<1>1. /\ b \o t \in Seq(E) /\ Len(b \o t) = Len(b) + Len(t)
      /\ \A i \in 1..Len(b) + Len(t) :
           (b \o t)[i] = IF i <= Len(b) THEN b[i] ELSE t[i - Len(b)]
  BY ConcatProperties
<1>2. Len(b) \in Nat /\ Len(t) \in Nat
  BY LenProperties
<1>3. ASSUME NEW i \in 1..Len(b) PROVE (b \o t)[i] = b[i]
  <2>1. i \in 1..Len(b) + Len(t) /\ i <= Len(b)
    BY <1>2
  <2> QED
    BY <1>1, <2>1
<1>4. ASSUME NEW i \in 1..Len(t) PROVE (b \o t)[Len(b) + i] = t[i]
  <2>1. Len(b) + i \in 1..Len(b) + Len(t) /\ ~(Len(b) + i <= Len(b)) /\ (Len(b) + i) - Len(b) = i
    BY <1>2
  <2> QED
    BY <1>1, <2>1
<1> QED
  BY <1>1, <1>2, <1>3, <1>4

\* The first element moves to the end of what precedes.
LEMMA FirstMoves ==
  ASSUME NEW E, NEW b \in Seq(E), NEW t \in Seq(E), t # <<>>
  PROVE  /\ Append(b, Head(t)) \in Seq(E) /\ Tail(t) \in Seq(E)
         /\ Append(b, Head(t)) \o Tail(t) = b \o t /\ Len(Tail(t)) = Len(t) - 1
<1>1. /\ Head(t) \in E /\ Tail(t) \in Seq(E) /\ Len(Tail(t)) = Len(t) - 1
      /\ \A i \in 1..Len(Tail(t)) : Tail(t)[i] = t[i + 1]
      /\ Head(t) = t[1] /\ Len(t) \in Nat
  BY HeadTailProperties, LenProperties
<1>2. Append(b, Head(t)) = b \o <<Head(t)>> /\ Append(b, Head(t)) \in Seq(E) /\ <<Head(t)>> \in Seq(E)
  BY <1>1, AppendIsConcat, AppendProperties
<1>3. <<Head(t)>> \o Tail(t) = t
  <2>1. Len(<<Head(t)>>) = 1 /\ <<Head(t)>>[1] = t[1]
    BY <1>1
  <2>2. /\ <<Head(t)>> \o Tail(t) \in Seq(E) /\ Len(<<Head(t)>> \o Tail(t)) = Len(t)
        /\ (<<Head(t)>> \o Tail(t))[1] = t[1]
        /\ \A i \in 1..Len(t) - 1 : (<<Head(t)>> \o Tail(t))[1 + i] = t[i + 1]
    BY <1>1, <1>2, <2>1, Longer
  <2>3. ASSUME NEW i \in 1..Len(t) PROVE (<<Head(t)>> \o Tail(t))[i] = t[i]
    <3>1. i = 1 \/ (i - 1 \in 1..Len(t) - 1 /\ 1 + (i - 1) = i /\ (i - 1) + 1 = i)
      BY <1>1
    <3> QED
      BY <2>2, <3>1
  <2> QED
    BY <2>2, <2>3, SeqEqual
<1>4. (b \o <<Head(t)>>) \o Tail(t) = b \o (<<Head(t)>> \o Tail(t))
  BY <1>1, <1>2, ConcatAssociative
<1> QED
  BY <1>1, <1>2, <1>3, <1>4

LEMMA LongerText ==
  \A b, t \in Seq(Chars) :
    /\ b \o t \in Seq(Chars) /\ Len(b) \in Nat /\ Len(t) \in Nat /\ Len(b \o t) = Len(b) + Len(t)
    /\ \A i \in 1..Len(b) : (b \o t)[i] = b[i]
    /\ \A i \in 1..Len(t) : (b \o t)[Len(b) + i] = t[i]
<1> TAKE b, t \in Seq(Chars)
<1> HIDE DEF Chars
<1> QED
  BY Longer

LEMMA TextAssociates ==
  \A b, t, r \in Seq(Chars) : (b \o t) \o r = b \o (t \o r)
<1> TAKE b, t, r \in Seq(Chars)
<1> HIDE DEF Chars
<1> QED
  BY ConcatAssociative

LEMMA NonStarts ==
  ASSUME A!NonblockInit PROVE NonInv
<1>1. <<>> \in Seq(Chars) /\ Len(<<>>) = 0 /\ <<>> \o <<>> = <<>>
  <2>1. <<>> \in Seq(Chars) /\ Len(<<>>) = 0
    BY EmptySeq
  <2> QED
    BY <2>1, ConcatEmptySeq
<1>2. NonTypes
  <2>1. Len(stream) <= Space
    BY <1>1, Bounds DEF A!NonblockInit
  <2>2. stream \in Seq(Chars) /\ taken \in Seq(Chars)
    BY <1>1 DEF A!NonblockInit
  <2>3. /\ run \in [Launches -> Places] /\ nonblock \in BOOLEAN /\ flags \in [Launches -> BOOLEAN]
        /\ todo \in [Launches -> Int] /\ total \in [Launches -> Nat]
    <3>1. "read" \in Places /\ FALSE \in BOOLEAN /\ 0 \in Int /\ 0 \in Nat
      BY DEF Places
    <3> HIDE DEF Places
    <3> QED
      BY <3>1 DEF A!NonblockInit
  <2> QED
    BY <2>1, <2>2, <2>3 DEF NonTypes
<1>3. A!BlocksAgain
  BY DEF A!NonblockInit, A!BlocksAgain
<1>4. ASSUME NEW c \in Launches PROVE CopyRun(c)
  <2>1. Numbered(c, <<>>, 0)
    BY <1>1 DEF Numbered
  <2>2. /\ run[c] = "read" /\ todo[c] = 0 /\ total[c] = 0 /\ stream = <<>> /\ taken = <<>>
    BY DEF A!NonblockInit
  <2>3. Out(c) = 0 /\ taken \o stream = <<>>
    BY <1>1, <2>2 DEF Out
  <2>4. 0 \in -1..MaxBytes /\ 0 \in 0..MaxBytes
    BY Bounds
  <2> QED
    BY <2>1, <2>2, <2>3, <2>4 DEF CopyRun, Places
<1> QED
  BY <1>2, <1>3, <1>4 DEF NonInv

\* More characters of c come at the end.
LEMMA NumbersGoOn ==
  ASSUME NEW b \in Seq(Chars), NEW d \in Seq(Chars), NEW c \in Launches, NEW n \in Nat, NEW m \in Nat,
         Len(d) = Len(b) + n, \A i \in 1..Len(b) : d[i] = b[i],
         \A i \in 1..n : d[Len(b) + i] = <<c, m + i>>, Numbered(c, b, m)
  PROVE  Numbered(c, d, m + n)
<1>1. /\ Len(b) \in Nat /\ Len(d) \in Nat
      /\ \A i \in 1..Len(b) : b[i] \in Chars
  BY LenProperties, ElementOfSeq
<1>2. ASSUME NEW i \in 1..Len(d)
      PROVE  \/ i \in 1..Len(b) /\ d[i] = b[i]
             \/ i > Len(b) /\ d[i][1] = c /\ d[i][2] = m + (i - Len(b)) /\ d[i] = <<c, m + (i - Len(b))>>
  <2>1. CASE i <= Len(b)
    BY <1>1, <2>1
  <2>2. CASE i > Len(b)
    <3>1. i - Len(b) \in 1..n /\ Len(b) + (i - Len(b)) = i
      BY <1>1, <2>2
    <3>2. d[i] = <<c, m + (i - Len(b))>>
      BY <3>1
    <3> QED
      BY <2>2, <3>2
  <2> QED
    BY <1>1, <2>1, <2>2
<1>3. ASSUME NEW i \in 1..Len(d), d[i][1] = c
      PROVE  d[i][2] \in 1..m + n
  <2>1. CASE i \in 1..Len(b) /\ d[i] = b[i]
    <3>1. b[i][2] \in 1..m
      BY <1>3, <2>1 DEF Numbered
    <3> QED
      BY <2>1, <3>1
  <2>2. CASE i > Len(b) /\ d[i][2] = m + (i - Len(b))
    BY <1>1, <2>2
  <2> QED
    BY <1>2, <2>1, <2>2
<1>4. ASSUME NEW k \in 1..m + n
      PROVE  \E i \in 1..Len(d) : d[i] = <<c, k>>
  <2>1. CASE k <= m
    <3>0. k \in 1..m
      BY <2>1
    <3>1. PICK i \in 1..Len(b) : b[i] = <<c, k>>
      BY <3>0 DEF Numbered
    <3>2. i \in 1..Len(d) /\ d[i] = <<c, k>>
      BY <1>1, <3>1
    <3> QED
      BY <3>2
  <2>2. CASE k > m
    <3>1. /\ k - m \in 1..n /\ Len(b) + (k - m) \in 1..Len(d) /\ m + (k - m) = k
      BY <1>1, <2>2
    <3>2. d[Len(b) + (k - m)] = <<c, m + (k - m)>>
      BY <3>1
    <3> QED
      BY <3>1, <3>2
  <2> QED
    BY <2>1, <2>2
<1>5. ASSUME NEW i \in 1..Len(d), NEW j \in 1..Len(d), i < j, d[i][1] = c, d[j][1] = c
      PROVE  d[i][2] < d[j][2]
  <2>1. CASE i \in 1..Len(b) /\ d[i] = b[i]
    <3>1. b[i][1] = c /\ b[i][2] \in 1..m /\ d[i][2] = b[i][2]
      BY <1>5, <2>1 DEF Numbered
    <3>2. CASE j \in 1..Len(b) /\ d[j] = b[j]
      <4>1. b[j][1] = c /\ d[j][2] = b[j][2]
        BY <1>5, <3>2
      <4> QED
        BY <1>5, <2>1, <3>1, <3>2, <4>1 DEF Numbered
    <3>3. CASE j > Len(b) /\ d[j][2] = m + (j - Len(b))
      BY <1>1, <3>1, <3>3
    <3> QED
      BY <1>2, <3>2, <3>3
  <2>2. CASE i > Len(b) /\ d[i][2] = m + (i - Len(b))
    <3>1. j > Len(b) /\ d[j][2] = m + (j - Len(b))
      BY <1>1, <1>2, <1>5, <2>2
    <3> QED
      BY <1>1, <1>5, <2>2, <3>1
  <2> QED
    BY <1>2, <2>1, <2>2
<1> QED
  BY <1>3, <1>4, <1>5 DEF Numbered

\* They are nobody else's.
LEMMA NumbersStay ==
  ASSUME NEW b \in Seq(Chars), NEW d \in Seq(Chars), NEW c \in Launches, NEW e \in Launches \ {c},
         NEW n \in Nat, NEW k, Len(d) = Len(b) + n, \A i \in 1..Len(b) : d[i] = b[i],
         \A i \in 1..n : d[Len(b) + i][1] = c, Numbered(e, b, k)
  PROVE  Numbered(e, d, k)
<1>1. Len(b) \in Nat /\ Len(d) \in Nat
  BY LenProperties
<1>2. ASSUME NEW i \in 1..Len(d), d[i][1] = e
      PROVE  i \in 1..Len(b) /\ d[i] = b[i]
  <2>1. CASE i > Len(b)
    <3>1. i - Len(b) \in 1..n /\ Len(b) + (i - Len(b)) = i
      BY <1>1, <2>1
    <3> QED
      BY <1>2, <3>1
  <2> QED
    BY <1>1, <2>1
<1>3. \A i \in 1..Len(b) : i \in 1..Len(d)
  BY <1>1
<1>4. \A i \in 1..Len(d) : d[i][1] = e => d[i][2] \in 1..k
  BY <1>2 DEF Numbered
<1>5. \A j \in 1..k : \E i \in 1..Len(d) : d[i] = <<e, j>>
  BY <1>3 DEF Numbered
<1>6. ASSUME NEW i \in 1..Len(d), NEW j \in 1..Len(d), i < j, d[i][1] = e, d[j][1] = e
      PROVE  d[i][2] < d[j][2]
  <2>1. i \in 1..Len(b) /\ d[i] = b[i] /\ j \in 1..Len(b) /\ d[j] = b[j]
    BY <1>2, <1>6
  <2> QED
    BY <1>6, <2>1 DEF Numbered
<1> QED
  BY <1>4, <1>5, <1>6 DEF Numbered

LEMMA NumbersAreInOrder ==
  ASSUME NEW c \in Launches, NEW b \in Seq(Chars), NEW n \in Nat, Numbered(c, b, n)
  PROVE  A!InOrder(c, b, n)
<1>1. DOMAIN b = 1..Len(b) /\ \A i \in 1..Len(b) : b[i] \in Chars
  BY LenProperties, ElementOfSeq
<1>2. \A i \in 1..Len(b) : b[i] = <<b[i][1], b[i][2]>>
  BY <1>1 DEF Chars
<1>3. ASSUME NEW i \in 1..Len(b), b[i][1] = c
      PROVE  \E k \in 1..n : b[i] = <<c, k>>
  BY <1>2, <1>3 DEF Numbered
<1>4. ASSUME NEW k \in 1..n
      PROVE  \E i \in 1..Len(b) : b[i][1] = c /\ b[i] = <<c, k>>
  <2>1. PICK i \in 1..Len(b) : b[i] = <<c, k>>
    BY DEF Numbered
  <2> QED
    BY <2>1
<1>5. {b[i] : i \in {j \in DOMAIN b : b[j][1] = c}} = {<<c, i>> : i \in 1..n}
  <2>1. {b[i] : i \in {j \in DOMAIN b : b[j][1] = c}} \subseteq {<<c, i>> : i \in 1..n}
    BY <1>1, <1>3
  <2>2. {<<c, i>> : i \in 1..n} \subseteq {b[i] : i \in {j \in DOMAIN b : b[j][1] = c}}
    BY <1>1, <1>4
  <2> QED
    BY <2>1, <2>2
<1>6. \A i, j \in DOMAIN b : i < j /\ b[i][1] = c /\ b[j][1] = c => b[i][2] < b[j][2]
  BY <1>1 DEF Numbered
<1> QED
  BY <1>5, <1>6 DEF A!InOrder

\* A run goes on without reading or writing.
LEMMA CopyMoves ==
  ASSUME NonInv, NEW c \in Launches, NEW to \in Places \ {"read"}, run' = [run EXCEPT ![c] = to],
         UNCHANGED <<todo, total, stream, taken>>, flags' \in [Launches -> BOOLEAN],
         nonblock' \in BOOLEAN, to = "exit0" => nonblock' = FALSE,
         to \in {"get again", "cls_fl", "exit0"} => todo[c] <= 0
  PROVE  NonInv'
<1>1. /\ run' \in [Launches -> Places] /\ run'[c] = to
      /\ \A d \in Launches \ {c} : run'[d] = run[d]
  BY DEF NonInv, NonTypes
<1>2. NonTypes'
  BY <1>1 DEF NonInv, NonTypes
<1>3. A!BlocksAgain'
  BY <1>1 DEF A!BlocksAgain
<1>4. ASSUME NEW d \in Launches PROVE CopyRun(d)'
  <2>1. Out(d)' = Out(d) /\ (taken \o stream)' = taken \o stream
    BY DEF Out
  <2>2. Numbered(d, taken \o stream, Out(d))'
    BY <2>1 DEF NonInv, CopyRun, Numbered
  <2>3. todo'[d] = todo[d] /\ total'[d] = total[d] /\ (d = c \/ run'[d] = run[d]) /\ run'[d] \in Places
    BY <1>1
  <2>4. CopyRun(d)
    BY DEF NonInv
  <2> QED
    BY <1>1, <2>2, <2>3, <2>4 DEF CopyRun
<1> QED
  BY <1>2, <1>3, <1>4 DEF NonInv

LEMMA NonReads ==
  ASSUME NonInv, NEW c \in Launches, A!ReadInput(c) PROVE NonInv'
<1>1. PICK n \in -1..MaxBytes : /\ todo' = [todo EXCEPT ![c] = n]
                                /\ total' = [total EXCEPT ![c] = IF n > 0 THEN n ELSE 0]
  BY DEF A!ReadInput
<1>2. /\ run[c] = "read" /\ run' = [run EXCEPT ![c] = "get"]
      /\ UNCHANGED <<nonblock, flags, stream, taken>>
  BY DEF A!ReadInput, A!Goes
<1>3. /\ run' \in [Launches -> Places] /\ run'[c] = "get" /\ todo'[c] = n
      /\ total'[c] = (IF n > 0 THEN n ELSE 0) /\ total'[c] \in 0..MaxBytes
      /\ todo' \in [Launches -> Int] /\ total' \in [Launches -> Nat]
      /\ \A d \in Launches \ {c} : run'[d] = run[d] /\ todo'[d] = todo[d] /\ total'[d] = total[d]
  <2>1. n \in Int /\ (IF n > 0 THEN n ELSE 0) \in 0..MaxBytes /\ (IF n > 0 THEN n ELSE 0) \in Nat
    BY Bounds
  <2>2. (IF n > 0 THEN n ELSE 0) = total'[c]
    BY <1>1 DEF NonInv, NonTypes
  <2> QED
    BY <1>1, <1>2, <2>1, <2>2 DEF NonInv, NonTypes, Places
<1>4. NonTypes'
  BY <1>2, <1>3 DEF NonInv, NonTypes
<1>5. A!BlocksAgain'
  BY <1>3 DEF A!BlocksAgain
<1>6. CopyRun(c)'
  <2>1. todo[c] = 0 /\ total[c] = 0 /\ Numbered(c, taken \o stream, Out(c))
    BY <1>2 DEF NonInv, CopyRun
  <2>2. Out(c) = 0 /\ Out(c)' = 0
    BY <1>3, <2>1 DEF Out
  <2>3. Numbered(c, taken \o stream, Out(c))'
    BY <1>2, <2>1, <2>2 DEF Numbered
  <2>4. n <= total'[c]
    BY <1>3, Bounds
  <2> QED
    BY <1>3, <2>3, <2>4 DEF CopyRun, Places
<1>7. ASSUME NEW d \in Launches \ {c} PROVE CopyRun(d)'
  <2>1. Out(d)' = Out(d) /\ CopyRun(d)
    BY <1>3 DEF Out, NonInv
  <2>2. Numbered(d, taken \o stream, Out(d))'
    BY <1>2, <2>1 DEF CopyRun, Numbered
  <2> QED
    BY <1>3, <2>1, <2>2 DEF CopyRun
<1> QED
  BY <1>4, <1>5, <1>6, <1>7 DEF NonInv

LEMMA NonWrites ==
  ASSUME NonInv, NEW c \in Launches, todo[c] > 0, run[c] = "write", NEW n \in 1..todo[c],
         n <= Space - Len(stream), UNCHANGED <<run, nonblock, flags, total, taken>>,
         stream' = stream \o [i \in 1..n |-> <<c, A!Fresh(c) + i>>],
         todo' = [todo EXCEPT ![c] = @ - n]
  PROVE  NonInv'
<1> DEFINE new == [i \in 1..n |-> <<c, A!Fresh(c) + i>>]
           m == total[c] - todo[c]
           b == taken \o stream
           e == taken \o (stream \o new)
<1>1. /\ todo[c] \in Nat /\ n \in Nat /\ m \in Nat /\ A!Fresh(c) = m /\ CopyRun(c)
      /\ total[c] \in Nat /\ n <= todo[c]
  <2>1. CopyRun(c) /\ todo[c] \in Int /\ total[c] \in Nat /\ todo[c] <= total[c]
    BY DEF NonInv, NonTypes, CopyRun
  <2> QED
    BY <2>1 DEF A!Fresh
<1>2. /\ new \in Seq(Chars) /\ Len(new) = n /\ \A i \in 1..n : new[i] = <<c, m + i>>
  <2>1. \A i \in 1..n : <<c, m + i>> \in Chars
    BY <1>1 DEF Chars
  <2>2. new = [i \in 1..n |-> <<c, m + i>>]
    BY <1>1
  <2> HIDE DEF new, m
  <2>3. new \in [1..n -> Chars] /\ \A i \in 1..n : new[i] = <<c, m + i>>
    BY <2>1, <2>2
  <2>4. new \in Seq(Chars)
    BY <1>1, <2>3, SeqDef
  <2>5. Len(new) = n
    BY <1>1, <2>3, <2>4, LenProperties
  <2> QED
    BY <2>3, <2>4, <2>5
<1>3. stream \in Seq(Chars) /\ taken \in Seq(Chars) /\ Len(stream) \in Nat
  BY LenProperties DEF NonInv, NonTypes
<1> HIDE DEF new
<1>4. stream \o new \in Seq(Chars) /\ Len(stream \o new) = Len(stream) + n
  BY <1>2, <1>3, Longer
<1>5. b \in Seq(Chars) /\ e = b \o new
  <2>1. taken \o stream \in Seq(Chars)
    BY <1>3, Longer
  <2>2. (taken \o stream) \o new = taken \o (stream \o new)
    BY <1>2, <1>3, TextAssociates
  <2> QED
    BY <2>1, <2>2
<1> HIDE DEF b, e
<1>6. /\ e \in Seq(Chars) /\ Len(e) = Len(b) + n /\ \A i \in 1..Len(b) : e[i] = b[i]
      /\ \A i \in 1..n : e[Len(b) + i] = new[i]
  <2>1. new \in Seq(Chars) /\ Len(new) = n
    BY <1>2
  <2>2. /\ b \o new \in Seq(Chars) /\ Len(b \o new) = Len(b) + Len(new)
        /\ \A i \in 1..Len(b) : (b \o new)[i] = b[i]
        /\ \A i \in 1..Len(new) : (b \o new)[Len(b) + i] = new[i]
    BY <1>5, <2>1, LongerText
  <2> QED
    BY ONLY <1>5, <2>1, <2>2
<1>7. \A i \in 1..n : e[Len(b) + i] = <<c, m + i>>
  BY <1>2, <1>6
<1>9. /\ todo'[c] = todo[c] - n /\ todo' \in [Launches -> Int]
      /\ \A d \in Launches \ {c} : todo'[d] = todo[d]
  BY <1>1 DEF NonInv, NonTypes
<1>10. taken' \o stream' = e
  BY DEF e, new
<1>11. NonTypes'
  <2>1. stream' = stream \o new /\ Len(stream') <= Space
    BY <1>1, <1>3, <1>4, Bounds DEF new
  <2> QED
    BY <1>4, <1>9, <2>1 DEF NonInv, NonTypes
<1>12. A!BlocksAgain'
  BY DEF A!BlocksAgain, NonInv
<1>13. CopyRun(c)'
  <2>1. Out(c) = m /\ Numbered(c, b, m)
    BY <1>1 DEF Out, CopyRun, b
  <2>2. Numbered(c, e, m + n)
    BY <1>1, <1>5, <1>6, <1>7, <2>1, NumbersGoOn
  <2>3. Out(c)' = m + n
    BY <1>1, <1>9 DEF Out
  <2>4. Numbered(c, taken' \o stream', Out(c)')
    BY <1>10, <2>2, <2>3
  <2>5. Numbered(c, taken \o stream, Out(c))'
    BY <2>4 DEF Numbered
  <2>6. todo'[c] \in -1..MaxBytes /\ todo'[c] <= total[c]
    BY <1>1, <1>9, Bounds DEF CopyRun
  <2> QED
    BY <1>1, <1>9, <2>5, <2>6 DEF CopyRun
<1>14. ASSUME NEW d \in Launches \ {c} PROVE CopyRun(d)'
  <2>1. CopyRun(d) /\ Out(d)' = Out(d)
    BY <1>9 DEF NonInv, Out
  <2>2. Numbered(d, b, Out(d))
    BY <2>1 DEF CopyRun, b
  <2>3. \A i \in 1..n : e[Len(b) + i][1] = c
    BY <1>7
  <2>4. Numbered(d, e, Out(d))
    <3> DEFINE k == Out(d)
    <3>1. /\ n \in Nat /\ Len(e) = Len(b) + n /\ \A i \in 1..Len(b) : e[i] = b[i]
          /\ b \in Seq(Chars) /\ e \in Seq(Chars) /\ Numbered(d, b, k)
      BY <1>1, <1>5, <1>6, <2>2
    <3> HIDE DEF k
    <3>2. Numbered(d, e, k)
      BY ONLY c \in Launches, d \in Launches \ {c}, <2>3, <3>1, NumbersStay
    <3> QED
      BY <3>2 DEF k
  <2>5. Numbered(d, taken' \o stream', Out(d)')
    BY <1>10, <2>1, <2>4
  <2>6. Numbered(d, taken \o stream, Out(d))'
    BY <2>5 DEF Numbered
  <2> QED
    BY <1>9, <2>1, <2>6 DEF CopyRun
<1> QED
  BY <1>11, <1>12, <1>13, <1>14 DEF NonInv

\* The reader takes what comes first; the output as a whole stays what it is.
LEMMA NonDrains ==
  ASSUME NonInv, A!Drain PROVE NonInv'
<1>1. /\ stream # <<>> /\ taken' = Append(taken, Head(stream)) /\ stream' = Tail(stream)
      /\ UNCHANGED <<run, nonblock, flags, todo, total>>
  BY DEF A!Drain
<1>2. stream \in Seq(Chars) /\ taken \in Seq(Chars) /\ Len(stream) <= Space
  BY DEF NonInv, NonTypes
<1>3. /\ taken' \in Seq(Chars) /\ stream' \in Seq(Chars) /\ Len(stream') = Len(stream) - 1
      /\ taken' \o stream' = taken \o stream
  <2>1. /\ Append(taken, Head(stream)) \in Seq(Chars) /\ Tail(stream) \in Seq(Chars)
        /\ Append(taken, Head(stream)) \o Tail(stream) = taken \o stream
        /\ Len(Tail(stream)) = Len(stream) - 1
    BY <1>1, <1>2, FirstMoves
  <2> QED
    BY <1>1, <2>1
<1>4. Len(stream') <= Space
  BY <1>2, <1>3, Bounds, LenProperties
<1>6. NonTypes'
  BY <1>1, <1>3, <1>4 DEF NonInv, NonTypes
<1>7. A!BlocksAgain'
  BY <1>1 DEF A!BlocksAgain, NonInv
<1>8. ASSUME NEW c \in Launches PROVE CopyRun(c)'
  <2>1. CopyRun(c) /\ Out(c)' = Out(c)
    BY <1>1 DEF NonInv, Out
  <2>2. Numbered(c, taken' \o stream', Out(c)')
    BY <1>3, <2>1 DEF CopyRun
  <2>3. Numbered(c, taken \o stream, Out(c))'
    BY <2>2 DEF Numbered
  <2> QED
    BY <1>1, <2>1, <2>3 DEF CopyRun
<1> QED
  BY <1>6, <1>7, <1>8 DEF NonInv

LEMMA NonSteps ==
  ASSUME NonInv, A!NonblockNext PROVE NonInv'
<1>1. ASSUME NEW c \in Launches, A!GetFl(c) \/ A!SetFl(c) \/ A!ClsFl(c) \/ A!CopyKilled(c) PROVE NonInv'
  <2>1. /\ run[c] \in Places /\ (run[c] \in {"get again", "cls_fl"} => todo[c] <= 0)
        /\ nonblock \in BOOLEAN /\ flags \in [Launches -> BOOLEAN]
    BY DEF NonInv, NonTypes, CopyRun
  <2>2. CASE A!GetFl(c)
    <3>1. CASE run[c] = "get again"
      <4>1. /\ run' = [run EXCEPT ![c] = "cls_fl"] /\ UNCHANGED <<nonblock, todo, total, stream, taken>>
            /\ flags' \in [Launches -> BOOLEAN]
        BY <2>1, <2>2, <3>1 DEF A!GetFl, A!Goes
      <4> QED
        BY <2>1, <3>1, <4>1, CopyMoves DEF Places
    <3>2. CASE run[c] = "get"
      <4>1. PICK to \in {"set_fl", "exit1"} :
              /\ run' = [run EXCEPT ![c] = to] /\ UNCHANGED <<nonblock, todo, total, stream, taken>>
              /\ flags' \in [Launches -> BOOLEAN]
        BY <2>1, <2>2, <3>2 DEF A!GetFl, A!Goes
      <4> QED
        BY <2>1, <4>1, CopyMoves DEF Places
    <3> QED
      BY <2>2, <3>1, <3>2 DEF A!GetFl
  <2>3. CASE A!SetFl(c)
    <3>1. /\ run' = [run EXCEPT ![c] = "write"] /\ UNCHANGED <<todo, total, stream, taken>>
          /\ flags' \in [Launches -> BOOLEAN] /\ nonblock' \in BOOLEAN
      BY <2>1, <2>3 DEF A!SetFl, A!Goes
    <3> QED
      BY <3>1, CopyMoves DEF Places
  <2>4. CASE A!ClsFl(c)
    <3>1. /\ run' = [run EXCEPT ![c] = "exit0"] /\ UNCHANGED <<todo, total, stream, taken>>
          /\ flags' \in [Launches -> BOOLEAN] /\ nonblock' = FALSE /\ todo[c] <= 0
      BY <2>1, <2>4 DEF A!ClsFl, A!Goes
    <3> QED
      BY <3>1, CopyMoves DEF Places
  <2>5. CASE A!CopyKilled(c)
    <3>1. /\ run' = [run EXCEPT ![c] = "killed"]
          /\ UNCHANGED <<nonblock, flags, todo, total, stream, taken>>
      BY <2>5 DEF A!CopyKilled, A!Goes
    <3> QED
      BY <2>1, <3>1, CopyMoves DEF Places
  <2> QED
    BY <1>1, <2>2, <2>3, <2>4, <2>5
<1>2. ASSUME NEW c \in Launches, A!Write(c) PROVE NonInv'
  <2>1. run[c] = "write" /\ UNCHANGED <<nonblock, flags, total, taken>>
    BY <1>2 DEF A!Write
  <2>2. CASE todo[c] <= 0
    <3>1. run' = [run EXCEPT ![c] = "get again"] /\ UNCHANGED <<todo, stream>>
      BY <1>2, <2>2 DEF A!Write, A!Goes
    <3>2. nonblock' \in BOOLEAN /\ flags' \in [Launches -> BOOLEAN]
      BY <2>1 DEF NonInv, NonTypes
    <3> QED
      BY <2>1, <2>2, <3>1, <3>2, CopyMoves DEF Places
  <2>3. CASE ~(todo[c] <= 0)
    <3>1. PICK n \in 1..todo[c] : /\ n <= Space - Len(stream)
                                  /\ stream' = stream \o [i \in 1..n |-> <<c, A!Fresh(c) + i>>]
                                  /\ todo' = [todo EXCEPT ![c] = @ - n] /\ UNCHANGED run
      BY <1>2, <2>3 DEF A!Write
    <3>2. todo[c] > 0
      BY <2>3 DEF NonInv, NonTypes
    <3> QED
      BY <2>1, <3>1, <3>2, NonWrites
  <2> QED
    BY <2>2, <2>3
<1> QED
  BY <1>1, <1>2, NonReads, NonDrains DEF A!NonblockNext, A!Copy

LEMMA NonHolds ==
  ASSUME NonInv PROVE A!NonblockTypeOK /\ A!BlocksAgain /\ A!AllInOrder
<1>1. A!NonblockTypeOK
  BY DEF NonInv, NonTypes, CopyRun, A!NonblockTypeOK
<1>2. ASSUME NEW c \in Launches, run[c] = "exit0"
      PROVE  A!InOrder(c, taken \o stream, total[c])
  <2>1. taken \o stream \in Seq(Chars) /\ total[c] \in Nat
    BY ConcatProperties DEF NonInv, NonTypes
  <2>2. CopyRun(c)
    BY DEF NonInv
  <2>3. Out(c) = total[c]
    BY <1>2, <2>2, Bounds DEF CopyRun, Out
  <2> QED
    BY <2>1, <2>2, <2>3, NumbersAreInOrder DEF CopyRun
<1> QED
  BY <1>1, <1>2 DEF NonInv, A!AllInOrder

------------------------------------------------------------------------------
(* select.c, rdwrv.c and mmap.c *)

SelInv == /\ sel \in {"open", "first", "again", "second", "exit0", "exit1"}
          /\ rset \subseteq {"stdin", "fd"} /\ input \in BOOLEAN
          /\ sel = "second" => "stdin" \in rset

LEMMA SelStarts == ASSUME A!SelectInit PROVE SelInv
BY DEF A!SelectInit, SelInv

LEMMA SelSteps == ASSUME SelInv, A!SelectNext PROVE SelInv'
<1>1. CASE A!Type
  BY <1>1 DEF A!Type, SelInv
<1>2. CASE A!OpenTemp
  BY <1>2 DEF A!OpenTemp, SelInv
<1>3. CASE A!FirstSelect
  BY <1>3 DEF A!FirstSelect, SelInv
<1>4. CASE A!SetAgain
  BY <1>4 DEF A!SetAgain, SelInv
<1>5. CASE A!SecondSelect
  BY <1>5 DEF A!SecondSelect, SelInv
<1> QED
  BY <1>1, <1>2, <1>3, <1>4, <1>5 DEF A!SelectNext, A!SelectStep

LEMMA SelHolds == ASSUME SelInv PROVE A!SelectTypeOK
BY DEF SelInv, A!SelectTypeOK

LEMMA SelCause == ASSUME SelInv, A!SelectNext PROVE A!InputSeen
BY DEF SelInv, A!InputSeen, A!SelectNext, A!SelectStep, A!Type, A!OpenTemp, A!FirstSelect, A!SetAgain,
       A!SecondSelect

\* Three functions of three, or none yet.
VecInv ==
  /\ vec \in {"writev", "readv", "exit0", "exit1"} /\ long \in {0, 42, 50}
  /\ vec \in {"writev", "readv", "exit1"} => pieces = <<>>
  /\ vec \in {"readv", "exit0"} => long \in {42, 50}
  /\ vec = "exit0" => /\ pieces \in [1..3 -> 0..15]
                      /\ pieces[1] = 15 /\ pieces[2] = 15 /\ pieces[3] = IF long = 42 THEN 12 ELSE 15

LEMMA VecStarts == ASSUME A!VecInit PROVE VecInv
BY DEF A!VecInit, VecInv

LEMMA VecSteps == ASSUME VecInv, A!VecNext PROVE VecInv'
<1>1. CASE A!Writev
  BY <1>1 DEF A!Writev, VecInv
<1>2. CASE A!Readv
  <2>1. /\ vec = "readv" /\ vec' = "exit0" /\ long' = long /\ long \in {42, 50}
        /\ pieces' = [i \in 1..3 |-> A!PieceOf(A!Total, i)]
    BY <1>2 DEF A!Readv, VecInv
  <2>2. A!Total = IF long = 42 THEN 42 ELSE 45
    BY <2>1 DEF A!Total
  <2>3. /\ A!PieceOf(A!Total, 1) = 15 /\ A!PieceOf(A!Total, 2) = 15
        /\ A!PieceOf(A!Total, 3) = IF long = 42 THEN 12 ELSE 15
    BY <2>1, <2>2 DEF A!PieceOf
  <2>4. /\ pieces' \in [1..3 -> 0..15] /\ pieces'[1] = 15 /\ pieces'[2] = 15
        /\ pieces'[3] = IF long = 42 THEN 12 ELSE 15
    <3>1. \A i \in 1..3 : i = 1 \/ i = 2 \/ i = 3
      OBVIOUS
    <3>2. \A i \in 1..3 : A!PieceOf(A!Total, i) \in 0..15
      BY <2>1, <2>3, <3>1
    <3> QED
      BY <2>1, <2>3, <3>2
  <2> QED
    BY <2>1, <2>4 DEF VecInv
<1> QED
  BY <1>1, <1>2 DEF A!VecNext

LEMMA VecHolds == ASSUME VecInv PROVE A!VecTypeOK /\ A!PiecesAreWhatWasRead
<1>1. pieces \in Seq(0..15)
  <2>1. CASE vec = "exit0"
    BY <2>1, SeqDef DEF VecInv
  <2>2. CASE vec # "exit0"
    BY <2>2, EmptySeq DEF VecInv
  <2> QED
    BY <2>1, <2>2
<1>2. pieces # <<>> => pieces[1] + pieces[2] + pieces[3] = A!Total
  BY DEF VecInv, A!Total
<1> QED
  BY <1>1, <1>2 DEF VecInv, A!VecTypeOK, A!PiecesAreWhatWasRead

\* A file copied onto itself is empty; another one is as long as fstat() said unless
\* it was cut.
MapInv ==
  /\ map \in {"open", "fstat", "lseek", "mmap", "memcpy", "reopen", "exit0", "exit1", "killed"}
  /\ same \in BOOLEAN /\ altered \in BOOLEAN
  /\ infile \in Nat /\ infile <= MaxBytes /\ statsize \in Nat /\ statsize <= MaxBytes
  /\ outfile \in Seq({"0", "x"})
  /\ same /\ map \notin {"open", "exit1"} => infile = 0
  /\ same /\ map = "lseek" => statsize = 0
  /\ map \in {"mmap", "memcpy", "reopen", "exit0"} => ~same
  /\ ~altered /\ map \in {"lseek", "mmap", "memcpy", "reopen", "exit0"} => statsize = infile
  /\ ~altered /\ map \in {"reopen", "exit0"} => outfile = [i \in 1..infile |-> "x"]

LEMMA MapStarts == ASSUME A!MapInit PROVE MapInv
<1>1. outfile \in Seq({"0", "x"})
  BY EmptySeq DEF A!MapInit
<1>2. infile \in Nat /\ infile <= MaxBytes /\ statsize \in Nat /\ statsize <= MaxBytes
  BY Bounds DEF A!MapInit
<1> QED
  BY <1>1, <1>2 DEF A!MapInit, MapInv

LEMMA MapSteps == ASSUME MapInv, A!MapNext PROVE MapInv'
<1>1. CASE A!OpenBoth
  BY <1>1, FileAssumption DEF A!OpenBoth, MapInv
<1>2. CASE A!MapStat
  BY <1>2 DEF A!MapStat, MapInv
<1>3. CASE A!Extend
  <2>1. \A n \in Nat : A!Zeros(n) \in Seq({"0", "x"})
    BY SeqDef DEF A!Zeros
  <2>2. outfile' \in Seq({"0", "x"})
    BY <1>3, <2>1 DEF A!Extend, MapInv
  <2> QED
    BY <1>3, <2>2 DEF A!Extend, MapInv
<1>4. CASE A!MapBoth
  BY <1>4 DEF A!MapBoth, MapInv
<1>5. CASE A!Memcpy
  <2>1. CASE map' = "reopen"
    <3>1. /\ outfile' = [i \in 1..statsize |-> IF i <= infile THEN "x" ELSE "0"]
          /\ map = "memcpy" /\ UNCHANGED <<same, infile, statsize, altered>>
      BY <1>5, <2>1 DEF A!Memcpy
    <3>2. outfile' \in Seq({"0", "x"})
      <4>1. outfile' \in [1..statsize -> {"0", "x"}] /\ statsize \in Nat
        BY <3>1 DEF MapInv
      <4> QED
        BY <4>1, SeqDef
    <3>3. ~altered => outfile' = [i \in 1..infile |-> "x"]
      <4> SUFFICES ASSUME ~altered PROVE outfile' = [i \in 1..infile |-> "x"]
        OBVIOUS
      <4>1. statsize = infile /\ infile \in Nat
        BY <3>1 DEF MapInv
      <4>2. \A i \in 1..infile : i <= infile
        BY <4>1
      <4> QED
        BY <3>1, <4>1, <4>2
    <3> QED
      BY <2>1, <3>1, <3>2, <3>3 DEF MapInv
  <2>2. CASE map' # "reopen"
    BY <1>5, <2>2 DEF A!Memcpy, MapInv
  <2> QED
    BY <2>1, <2>2
<1>6. CASE A!Reopen
  BY <1>6 DEF A!Reopen, MapInv
<1>7. CASE A!CutInput
  <2>1. infile' \in Nat /\ infile' <= MaxBytes
    BY <1>7, FileAssumption DEF A!CutInput, MapInv
  <2> QED
    BY <1>7, <2>1 DEF A!CutInput, MapInv, A!Ended
<1> QED
  BY <1>1, <1>2, <1>3, <1>4, <1>5, <1>6, <1>7 DEF A!MapNext, A!MapStep

LEMMA MapHolds == ASSUME MapInv PROVE A!MapTypeOK /\ A!CopiedWhole
BY FileAssumption DEF MapInv, A!MapTypeOK, A!CopiedWhole

------------------------------------------------------------------------------
(* dup2.c *)

Tables == [A!Fds -> Files \cup {A!Closed}]

\* While dup2_l() works, newfd is closed; every number that it keeps in fd was
\* closed when it was called; and what is not one of these is as it was.
DupTypes ==
  /\ table \in Tables /\ before \in Tables /\ limit \in 1..MaxTable
  /\ result \in -1..MaxTable - 1 /\ fd \in Seq(A!Fds)
  /\ args = <<>> \/ args \in A!Fds \X A!Fds

Extra(d) == \E i \in 1..Len(fd) : fd[i] = d

DupKept(o, n) ==
  /\ o # n /\ table[n] = A!Closed /\ table[o] # A!Closed /\ table[o] = before[o]
  /\ \A d \in A!Fds : Extra(d) => d # n /\ d # o /\ before[d] = A!Closed
  /\ \A d \in A!Fds : d # n /\ ~Extra(d) => table[d] = before[d]

DupInv == DupTypes /\ (args # <<>> => DupKept(args[1], args[2]))

LEMMA LeastExists ==
  ASSUME NEW T, T \subseteq Nat, T # {} PROVE \E x \in T : \A y \in T : x <= y
<1> DEFINE less == {p \in Nat \X Nat : p[1] < p[2]}
<1>1. IsWellFoundedOn(less, Nat)
  BY NatLessThanWellFounded DEF OpToRel
<1>2. \A x, y \in Nat : <<y, x>> \in less <=> y < x
  OBVIOUS
<1>3. PICK x \in T : \A y \in T : ~(<<y, x>> \in less)
  <2> HIDE DEF less
  <2> QED
    BY <1>1, WFMin
<1>4. \A y \in T : ~(y < x)
  <2> HIDE DEF less
  <2> QED
    BY <1>2, <1>3
<1> QED
  BY <1>4

\* dup() gives a number that was free.
LEMMA LowestFree ==
  ASSUME A!Free # {}
  PROVE  A!Lowest \in A!Fds /\ A!Lowest < limit /\ table[A!Lowest] = A!Closed
<1>1. A!Free \subseteq Nat
  BY Bounds DEF A!Free, A!Fds
<1>2. \E d \in A!Free : \A e \in A!Free : d <= e
  BY <1>1, LeastExists
<1>3. A!Lowest \in A!Free
  BY <1>2 DEF A!Lowest
<1> QED
  BY <1>3 DEF A!Free

LEMMA DupStarts == ASSUME A!DupInit PROVE DupInv
<1>1. fd \in Seq(A!Fds) /\ result \in -1..MaxTable - 1
  BY Bounds, EmptySeq DEF A!DupInit
<1> QED
  BY <1>1 DEF A!DupInit, A!NoCall, DupInv, DupTypes, Tables

\* The rest of a sequence.
LEMMA TailOf ==
  ASSUME NEW s \in Seq(A!Fds), s # <<>>
  PROVE  /\ \A i \in 1..Len(Tail(s)) : i + 1 \in 1..Len(s) /\ Tail(s)[i] = s[i + 1]
         /\ \A i \in 2..Len(s) : i - 1 \in 1..Len(Tail(s)) /\ Tail(s)[i - 1] = s[i]
         /\ Tail(s) \in Seq(A!Fds) /\ 1 \in 1..Len(s)
<1>1. Tail(s) \in Seq(A!Fds) /\ Len(Tail(s)) = Len(s) - 1
      /\ \A i \in 1..Len(Tail(s)) : Tail(s)[i] = s[i + 1]
  BY HeadTailProperties
<1>2. Len(s) \in Nat /\ Len(s) # 0
  BY EmptySeq, LenProperties
<1> QED
  BY <1>1, <1>2

LEMMA CloseAllTypes ==
  ASSUME NEW t \in Tables, NEW s \in Seq(A!Fds)
  PROVE  /\ A!CloseAll(t, s) \in Tables
         /\ \A d \in A!Fds : (\E i \in 1..Len(s) : s[i] = d) => A!CloseAll(t, s)[d] = A!Closed
         /\ \A d \in A!Fds : ~(\E i \in 1..Len(s) : s[i] = d) => A!CloseAll(t, s)[d] = t[d]
<1>1. DOMAIN s = 1..Len(s)
  BY LenProperties
<1> QED
  BY <1>1 DEF A!CloseAll, Tables, A!Closed

LEMMA DupBegins ==
  ASSUME DupInv, NEW o, NEW n, A!Begin(o, n) PROVE DupInv'
<1>1. CASE args' = args
  <2>1. UNCHANGED <<table, fd, limit>> /\ args = <<>> /\ before' = table
    BY <1>1 DEF A!Begin, A!NoCall
  <2>2. result' \in -1..MaxTable - 1
    BY <1>1, Bounds DEF A!Begin, A!NoCall, A!Fds
  <2> QED
    BY <1>1, <2>1, <2>2 DEF DupInv, DupTypes
<1>2. CASE args' # args
  <2>1. /\ args' = <<o, n>> /\ fd' = <<>> /\ before' = table
        /\ table' = [table EXCEPT ![n] = A!Closed] /\ UNCHANGED <<limit, result>>
        /\ n \in A!Fds /\ o \in A!Fds /\ table[o] # A!Closed /\ o # n
    BY <1>2 DEF A!Begin, A!IsOpen
  <2>2. DupTypes'
    <3>1. table' \in Tables /\ before' \in Tables
      BY <2>1 DEF DupInv, DupTypes, Tables
    <3>2. fd' \in Seq(A!Fds) /\ args' \in A!Fds \X A!Fds
      BY <2>1, EmptySeq
    <3> QED
      BY <2>1, <3>1, <3>2 DEF DupInv, DupTypes
  <2>3. \A d \in A!Fds : ~Extra(d)'
    BY <2>1, EmptySeq DEF Extra
  <2>4. table \in Tables
    BY DEF DupInv, DupTypes
  <2>5. DupKept(o, n)'
    BY <2>1, <2>3, <2>4 DEF DupKept, Tables
  <2>6. args'[1] = o /\ args'[2] = n
    BY <2>1
  <2> QED
    BY <2>1, <2>2, <2>5, <2>6 DEF DupInv, DupKept
<1> QED
  BY <1>1, <1>2

LEMMA DupDups == ASSUME DupInv, A!Dup PROVE DupInv'
<1> DEFINE o == args[1]
           n == args[2]
           low == A!Lowest
<1>1. /\ args # <<>> /\ low # n /\ table' = [table EXCEPT ![low] = table[o]]
      /\ fd' = Append(fd, low) /\ UNCHANGED <<limit, before, args, result>>
  BY DEF A!Dup, A!NoCall, A!newfd, A!oldfd
<1>2. low \in A!Fds /\ table[low] = A!Closed
  BY LowestFree DEF A!Dup
<1>3. DupTypes /\ DupKept(o, n) /\ o \in A!Fds /\ n \in A!Fds
  BY <1>1 DEF DupInv, DupTypes
<1> HIDE DEF o, n, low
<1>4. DupTypes'
  <2>1. table' \in Tables /\ fd' \in Seq(A!Fds)
    BY <1>1, <1>2, <1>3, AppendProperties DEF DupTypes, Tables
  <2> QED
    BY <1>1, <1>3, <2>1 DEF DupTypes
<1>5. \A d \in A!Fds : Extra(d)' <=> Extra(d) \/ d = low
  <2>1. Len(fd) \in Nat /\ Len(fd') = Len(fd) + 1 /\ fd'[Len(fd) + 1] = low
        /\ \A i \in 1..Len(fd) : fd'[i] = fd[i]
    BY <1>1, <1>2, <1>3, AppendProperties, LenProperties DEF DupTypes
  <2> QED
    BY <2>1 DEF Extra
<1>6. before[low] = A!Closed /\ low # o
  BY <1>1, <1>2, <1>3 DEF DupKept
<1>7. DupKept(o, n)'
  <2>1. \A d \in A!Fds : table'[d] = IF d = low THEN table[o] ELSE table[d]
    BY <1>1, <1>3 DEF DupTypes, Tables
  <2>2. UNCHANGED o /\ UNCHANGED n
    BY <1>1 DEF o, n
  <2> QED
    BY <1>1, <1>2, <1>3, <1>5, <1>6, <2>1, <2>2 DEF DupKept
<1>8. DupKept(args[1], args[2])'
  BY <1>1, <1>7 DEF o, n, DupKept, Extra
<1> QED
  BY <1>4, <1>8 DEF DupInv

\* What the end of a call leaves: a call that succeeds has changed newfd alone.
LEMMA DupGets ==
  ASSUME DupInv, A!Got
  PROVE  DupInv' /\ table' = [before EXCEPT ![args[2]] = before[args[1]]]
<1> DEFINE o == args[1]
           n == args[2]
           t == [table EXCEPT ![n] = table[o]]
<1>1. /\ args # <<>> /\ table' = A!CloseAll(t, fd) /\ UNCHANGED <<limit, before>>
      /\ args' = <<>> /\ fd' = <<>> /\ result' = n
  BY DEF A!Got, A!NoCall, A!newfd, A!oldfd
<1>2. DupTypes /\ DupKept(o, n) /\ o \in A!Fds /\ n \in A!Fds
  BY <1>1 DEF DupInv, DupTypes
<1> HIDE DEF o, n
<1>3. t \in Tables /\ \A d \in A!Fds : t[d] = IF d = n THEN table[o] ELSE table[d]
  BY <1>2 DEF DupTypes, Tables
<1> HIDE DEF t
<1>4. /\ table' \in Tables
      /\ \A d \in A!Fds : Extra(d) => table'[d] = A!Closed
      /\ \A d \in A!Fds : ~Extra(d) => table'[d] = t[d]
  BY <1>1, <1>2, <1>3, CloseAllTypes DEF DupTypes, Extra
<1>5. \A d \in A!Fds : table'[d] = IF d = n THEN before[o] ELSE before[d]
  BY <1>2, <1>3, <1>4 DEF DupKept
<1>6. table' = [before EXCEPT ![n] = before[o]]
  BY <1>2, <1>4, <1>5 DEF DupTypes, Tables
<1>7. DupInv'
  <2>1. fd' \in Seq(A!Fds) /\ n \in -1..MaxTable - 1
    BY <1>1, <1>2, EmptySeq, Bounds DEF A!Fds
  <2> QED
    BY <1>1, <1>2, <1>4, <2>1 DEF DupInv, DupTypes
<1> QED
  BY <1>6, <1>7 DEF o, n

\* A call that fails has not got newfd, and leaves the first number it was given.
LEMMA DupGivesUp ==
  ASSUME DupInv, A!DupFails
  PROVE  /\ DupInv' /\ args[2] \in A!Fds /\ args[2] >= limit
         /\ \A d \in A!Fds \ {args[2]} : table'[d] # before[d] => d = fd[1]
<1> DEFINE o == args[1]
           n == args[2]
           s == IF fd = <<>> THEN fd ELSE Tail(fd)
<1>1. /\ args # <<>> /\ table' = A!CloseAll(table, s) /\ UNCHANGED <<limit, before>>
      /\ args' = <<>> /\ fd' = <<>> /\ result' = -1 /\ A!Free = {}
  BY DEF A!DupFails, A!NoCall
<1>2. DupTypes /\ DupKept(o, n) /\ o \in A!Fds /\ n \in A!Fds
  BY <1>1 DEF DupInv, DupTypes
<1> HIDE DEF o, n
<1>3. s \in Seq(A!Fds)
  BY <1>2, TailOf DEF DupTypes
<1>4. \A d \in A!Fds : (\E i \in 1..Len(s) : s[i] = d) => Extra(d)
  <2>1. CASE fd = <<>>
    BY <2>1 DEF Extra
  <2>2. CASE fd # <<>>
    BY <1>2, <2>2, TailOf DEF DupTypes, Extra
  <2> QED
    BY <2>1, <2>2
<1>5. \A d \in A!Fds : Extra(d) => d = fd[1] \/ \E i \in 1..Len(s) : s[i] = d
  <2>1. CASE fd = <<>>
    BY <2>1 DEF Extra
  <2>2. CASE fd # <<>>
    <3>1. s = Tail(fd) /\ fd \in Seq(A!Fds) /\ Len(fd) \in Nat
      BY <1>2, <2>2, LenProperties DEF DupTypes
    <3>2. SUFFICES ASSUME NEW i \in 1..Len(fd)
                   PROVE  fd[i] = fd[1] \/ \E j \in 1..Len(s) : s[j] = fd[i]
      BY DEF Extra
    <3>3. CASE i = 1
      BY <3>3
    <3>4. CASE i # 1
      <4>1. i \in 2..Len(fd)
        BY <3>1, <3>4
      <4>2. i - 1 \in 1..Len(Tail(fd)) /\ Tail(fd)[i - 1] = fd[i]
        BY <2>2, <3>1, <4>1, TailOf
      <4> QED
        BY <3>1, <4>2
    <3> QED
      BY <3>3, <3>4
  <2> QED
    BY <2>1, <2>2
<1> HIDE DEF s
<1>6. /\ table' \in Tables
      /\ \A d \in A!Fds : (\E i \in 1..Len(s) : s[i] = d) => table'[d] = A!Closed
      /\ \A d \in A!Fds : ~(\E i \in 1..Len(s) : s[i] = d) => table'[d] = table[d]
  BY <1>1, <1>2, <1>3, CloseAllTypes DEF DupTypes
<1>7. \A d \in A!Fds : d # n /\ d # fd[1] => table'[d] = before[d]
  BY <1>2, <1>4, <1>5, <1>6 DEF DupKept
<1>8. n >= limit
  <2>1. n \notin A!Free /\ table[n] = A!Closed
    BY <1>1, <1>2 DEF DupKept
  <2>2. ~(n < limit)
    BY <1>2, <2>1 DEF A!Free
  <2> QED
    BY <1>2, <2>2, Bounds DEF A!Fds, DupTypes
<1>9. DupInv'
  <2>1. fd' \in Seq(A!Fds) /\ -1 \in -1..MaxTable - 1
    BY <1>1, EmptySeq, Bounds
  <2> QED
    BY <1>1, <1>2, <1>6, <2>1 DEF DupInv, DupTypes
<1> QED
  BY <1>2, <1>7, <1>8, <1>9 DEF n

LEMMA DupSteps == ASSUME DupInv, A!DupNext PROVE DupInv'
BY DupBegins, DupDups, DupGets, DupGivesUp DEF A!DupNext

LEMMA DupHolds == ASSUME DupInv PROVE A!DupTypeOK
BY DEF DupInv, DupTypes, Tables, A!DupTypeOK, A!NoCall, A!oldfd, A!newfd

LEMMA SameCountIo == \A T : A!Cardinality(T) = Cardinality(T)
BY DEF A!Cardinality, Cardinality

LEMMA DupCause == ASSUME DupInv, A!DupNext PROVE A!SameAsDup2 /\ A!FailureLeavesOne
<1>1. args # <<>> /\ args' = <<>> => A!Got \/ A!DupFails
  BY DEF A!DupNext, A!Begin, A!Dup, A!NoCall
<1>2. CASE A!Got
  <2>1. result' = args[2] /\ args[2] \in A!Fds
    BY <1>2 DEF A!Got, A!newfd, A!NoCall, DupInv, DupTypes
  <2>2. result' # -1
    BY <2>1, Bounds DEF A!Fds
  <2> QED
    BY <1>2, <2>1, <2>2, DupGets DEF A!SameAsDup2, A!FailureLeavesOne, A!newfd, A!oldfd
<1>3. CASE A!DupFails
  <2> DEFINE left == {d \in A!Fds \ {A!newfd} : table'[d] # before[d]}
  <2>1. left \subseteq {fd[1]}
    BY <1>3, DupGivesUp DEF A!newfd
  <2>2. Cardinality(left) <= 1
    <3> HIDE DEF left
    <3>1. IsFiniteSet({fd[1]}) /\ Cardinality({fd[1]}) = 1
      BY FS_Singleton
    <3> QED
      BY <2>1, <3>1, FS_Subset
  <2>3. A!newfd >= limit
    BY <1>3, DupGivesUp DEF A!newfd
  <2>4. A!FailureLeavesOne
    BY <2>2, <2>3, SameCountIo DEF A!FailureLeavesOne
  <2>5. A!SameAsDup2
    BY <1>3 DEF A!DupFails, A!SameAsDup2
  <2> QED
    BY <2>4, <2>5
<1>4. CASE ~(args # <<>> /\ args' = <<>>)
  BY <1>4 DEF A!SameAsDup2, A!FailureLeavesOne, A!NoCall
<1> QED
  BY <1>1, <1>2, <1>3, <1>4

------------------------------------------------------------------------------
(* The pseudo terminals of 19-pseudo *)

Terminals == Ptys \cup {100, 101, A!None}
Outcomes  == {"busy", "master", "ptsname", "grantpt", "unlockpt", "slave", "fd"}

\* The index of the calls that open the master, take its name and open the slave, and
\* of the last one.
MasterCall(o) == IF how[o] = "openpt" THEN 2 ELSE 1
NameCall(o)   == IF how[o] = "openpt" THEN 3 ELSE 4
SlaveCall(o)  == IF how[o] = "openpt" THEN 6 ELSE 5
LastCall(o)   == IF how[o] = "openpt" THEN 9 ELSE 6

PtyTypes ==
  /\ how \in [Launches -> {"openpt", "ptmx", "bsd"}] /\ room \in [Launches -> Sizes]
  /\ step \in [Launches -> Int] /\ search \in [Launches -> Int]
  /\ master \in [Launches -> Terminals] /\ slave \in [Launches -> Terminals]
  /\ pname \in [Launches -> Int] /\ ret \in [Launches -> Outcomes]
  /\ locked \subseteq Ptys /\ typed \in [Launches -> {<<>>, A!Text}]

\* The master is open from its call on, unless it failed; after ptsname() the name
\* is that of the master if there is room; only the last calls know a slave.
OpenerRun(o) ==
  /\ step[o] \in 1..LastCall(o) /\ search[o] \in 1..3
  /\ ret[o] = "busy" /\ step[o] <= MasterCall(o) => master[o] = A!None
  /\ ret[o] = "busy" /\ step[o] > NameCall(o) => pname[o] = master[o] \/ room[o] <= 11
  /\ ret[o] = "busy" /\ step[o] <= SlaveCall(o) => slave[o] = A!None
  /\ ret[o] \notin {"busy", "fd"} => slave[o] = A!None
  /\ ret[o] \in {"master", "grantpt", "unlockpt", "ptsname"} => master[o] = A!None
  /\ slave[o] # A!None /\ room[o] > 11 => slave[o] = master[o]
  /\ how[o] = "bsd" /\ ret[o] = "master" => search[o] > 2

PtyInv == PtyTypes /\ \A o \in Launches : OpenerRun(o)

\* Each call by its index.
LEMMA OpenptCalls ==
  /\ A!Calls["openpt"][1] = "probe" /\ A!Calls["openpt"][2] = "master"
  /\ A!Calls["openpt"][3] = "ptsname" /\ A!Calls["openpt"][4] = "grantpt"
  /\ A!Calls["openpt"][5] = "unlockpt" /\ A!Calls["openpt"][6] = "slave"
  /\ A!Calls["openpt"][7] = "to master" /\ A!Calls["openpt"][8] = "to slave"
  /\ A!Calls["openpt"][9] = "exit"
BY DEF A!Calls

LEMMA OtherCalls ==
  /\ A!Calls["ptmx"][1] = "master" /\ A!Calls["ptmx"][2] = "grantpt"
  /\ A!Calls["ptmx"][3] = "unlockpt" /\ A!Calls["ptmx"][4] = "ptsname"
  /\ A!Calls["ptmx"][5] = "slave" /\ A!Calls["ptmx"][6] = "exit"
  /\ A!Calls["bsd"] = A!Calls["ptmx"]
BY DEF A!Calls

\* What a call says of the step.
StepOf(o, call) ==
  IF how[o] = "openpt"
  THEN /\ call = "probe" => step[o] = 1
       /\ call = "master" => step[o] = 2
       /\ call = "ptsname" => step[o] = 3
       /\ call = "grantpt" => step[o] = 4
       /\ call = "unlockpt" => step[o] = 5
       /\ call = "slave" => step[o] = 6
       /\ call = "to master" => step[o] = 7
       /\ call = "to slave" => step[o] = 8
  ELSE /\ call = "master" => step[o] = 1
       /\ call = "grantpt" => step[o] = 2
       /\ call = "unlockpt" => step[o] = 3
       /\ call = "ptsname" => step[o] = 4
       /\ call = "slave" => step[o] = 5
       /\ call \notin {"probe", "to master", "to slave"}

LEMMA CallsInOrder ==
  ASSUME PtyInv, NEW o \in Launches, NEW call, A!At(o, call)
  PROVE  ret[o] = "busy" /\ StepOf(o, call)
<1>1. ret[o] = "busy" /\ call = A!Calls[how[o]][step[o]]
  BY DEF A!At
<1>2. how[o] \in {"openpt", "ptmx", "bsd"} /\ step[o] \in 1..LastCall(o)
  BY DEF PtyInv, PtyTypes, OpenerRun
<1>3. CASE how[o] = "openpt"
  <2>1. step[o] \in 1..9
    BY <1>2, <1>3 DEF LastCall
  <2>2. \/ step[o] = 1
        \/ step[o] = 2
        \/ step[o] = 3
        \/ step[o] = 4
        \/ step[o] = 5
        \/ step[o] = 6
        \/ step[o] = 7
        \/ step[o] = 8
        \/ step[o] = 9
    BY <2>1
  <2> QED
    BY <1>1, <1>3, <2>2, OpenptCalls DEF StepOf
<1>4. CASE how[o] # "openpt"
  <2>1. step[o] \in 1..6
    BY <1>2, <1>4 DEF LastCall
  <2>2. \/ step[o] = 1
        \/ step[o] = 2
        \/ step[o] = 3
        \/ step[o] = 4
        \/ step[o] = 5
        \/ step[o] = 6
    BY <2>1
  <2>3. A!Calls[how[o]] = A!Calls["ptmx"]
    BY <1>2, <1>4, OtherCalls
  <2> QED
    BY <1>1, <1>4, <2>2, <2>3, OtherCalls DEF StepOf
<1> QED
  BY <1>3, <1>4

LEMMA PtyStarts == ASSUME A!PtyInit PROVE PtyInv
<1>1. DOMAIN A!Calls = {"openpt", "ptmx", "bsd"}
  BY DEF A!Calls
<1>2. PtyTypes
  BY <1>1 DEF A!PtyInit, PtyTypes, Terminals, Outcomes, A!None
<1>3. \A o \in Launches : OpenerRun(o)
  BY DEF A!PtyInit, OpenerRun, MasterCall, NameCall, SlaveCall, LastCall, A!None
<1> QED
  BY <1>2, <1>3 DEF PtyInv

\* A step of o alone: the types, and the others, which it leaves alone.
LEMMA OpenerFrame ==
  ASSUME PtyInv, NEW o \in Launches, PtyTypes', OpenerRun(o)',
         UNCHANGED how, UNCHANGED room,
         \A p \in Launches \ {o} :
           /\ step'[p] = step[p] /\ search'[p] = search[p] /\ master'[p] = master[p]
           /\ slave'[p] = slave[p] /\ pname'[p] = pname[p] /\ ret'[p] = ret[p]
  PROVE  PtyInv'
<1>1. \A p \in Launches \ {o} : OpenerRun(p)'
  BY DEF PtyInv, OpenerRun, MasterCall, NameCall, SlaveCall, LastCall
<1> QED
  BY <1>1 DEF PtyInv

\* A call that fails.
LEMMA OpenerFails ==
  ASSUME PtyInv, NEW o \in Launches, NEW call \in {"master", "ptsname", "grantpt", "unlockpt", "slave"},
         A!At(o, call) \/ (call = "master" /\ A!At(o, "probe")), A!Fail(o, call),
         how[o] = "bsd" /\ call = "master" => search[o] > 2
  PROVE  PtyInv'
<1>1. /\ ret' = [ret EXCEPT ![o] = call] /\ master' = [master EXCEPT ![o] = A!None]
      /\ locked' \subseteq locked
      /\ UNCHANGED <<how, room, step, search, slave, pname, typed>>
  BY DEF A!Fail
<1>2. PtyTypes /\ OpenerRun(o)
  BY DEF PtyInv
<1>3. PtyTypes'
  BY <1>1, <1>2 DEF PtyTypes, Outcomes, Terminals
<1>4. slave[o] = A!None
  <2>1. ret[o] = "busy" /\ step[o] <= SlaveCall(o)
    <3>1. ret[o] = "busy" /\ (StepOf(o, call) \/ StepOf(o, "probe"))
      <4>1. CASE A!At(o, call)
        BY <4>1, CallsInOrder
      <4>2. CASE A!At(o, "probe")
        BY <4>2, CallsInOrder
      <4> QED
        BY <4>1, <4>2
    <3>2. StepOf(o, call) => step[o] <= SlaveCall(o)
      <4> SUFFICES ASSUME StepOf(o, call) PROVE step[o] <= SlaveCall(o)
        OBVIOUS
      <4>1. CASE how[o] = "openpt"
        <5>1. step[o] \in {2, 3, 4, 5, 6} /\ SlaveCall(o) = 6
          BY <4>1 DEF StepOf, SlaveCall
        <5> QED
          BY <5>1
      <4>2. CASE how[o] # "openpt"
        <5>1. step[o] \in {1, 2, 3, 4, 5} /\ SlaveCall(o) = 5
          BY <4>2 DEF StepOf, SlaveCall
        <5> QED
          BY <5>1
      <4> QED
        BY <4>1, <4>2
    <3>3. StepOf(o, "probe") => step[o] = 1 /\ SlaveCall(o) = 6
      BY DEF StepOf, SlaveCall
    <3> QED
      BY <3>1, <3>2, <3>3
  <2> QED
    BY <1>2, <2>1 DEF OpenerRun
<1>5. ret'[o] = call /\ master'[o] = A!None /\ slave'[o] = A!None /\ slave[o] = A!None
      /\ how'[o] = how[o] /\ step'[o] = step[o] /\ search'[o] = search[o]
  BY <1>1, <1>2, <1>4 DEF PtyTypes
<1>6. OpenerRun(o)'
  BY <1>2, <1>5 DEF OpenerRun, MasterCall, NameCall, SlaveCall, LastCall
<1>7. \A p \in Launches \ {o} : ret'[p] = ret[p] /\ master'[p] = master[p]
  BY <1>1, <1>2 DEF PtyTypes
<1> QED
  BY <1>1, <1>3, <1>6, <1>7, OpenerFrame

\* A call that succeeds and leaves terminals and names as they are.
LEMMA OpenerGoesOn ==
  ASSUME PtyInv, NEW o \in Launches, ret[o] = "busy", step[o] < LastCall(o),
         step[o] \notin {MasterCall(o), NameCall(o), SlaveCall(o)},
         A!Advance(o), locked' \subseteq Ptys, typed' \in [Launches -> {<<>>, A!Text}],
         UNCHANGED <<how, room, search, master, slave, pname, ret>>
  PROVE  PtyInv'
<1>1. PtyTypes /\ OpenerRun(o)
  BY DEF PtyInv
<1>2. step' = [step EXCEPT ![o] = step[o] + 1] /\ step[o] \in Int /\ how[o] \in {"openpt", "ptmx", "bsd"}
  BY <1>1 DEF A!Advance, PtyTypes
<1>3. PtyTypes'
  BY <1>1, <1>2 DEF PtyTypes
<1>4. step'[o] = step[o] + 1 /\ \A p \in Launches \ {o} : step'[p] = step[p]
  BY <1>1, <1>2 DEF PtyTypes
<1>5. OpenerRun(o)'
  BY <1>1, <1>2, <1>4 DEF OpenerRun, MasterCall, NameCall, SlaveCall, LastCall
<1> QED
  BY <1>3, <1>4, <1>5, OpenerFrame

\* The master is open.
LEMMA OpenerHasMaster ==
  ASSUME PtyInv, NEW o \in Launches, A!At(o, "master"), NEW n \in Terminals,
         master' = [master EXCEPT ![o] = n], A!Advance(o), locked' \subseteq Ptys,
         UNCHANGED <<how, room, search, slave, pname, ret, typed>>
  PROVE  PtyInv'
<1>1. PtyTypes /\ OpenerRun(o)
  BY DEF PtyInv
<1>2. ret[o] = "busy" /\ step[o] = MasterCall(o) /\ step[o] \in Int
  BY <1>1, CallsInOrder DEF StepOf, MasterCall, PtyTypes
<1>3. step' = [step EXCEPT ![o] = step[o] + 1]
  BY DEF A!Advance
<1>4. PtyTypes'
  BY <1>1, <1>2, <1>3 DEF PtyTypes
<1>5. step'[o] = step[o] + 1 /\ \A p \in Launches \ {o} : step'[p] = step[p] /\ master'[p] = master[p]
  BY <1>1, <1>3 DEF PtyTypes
<1>6. OpenerRun(o)'
  BY <1>1, <1>2, <1>5 DEF OpenerRun, MasterCall, NameCall, SlaveCall, LastCall
<1> QED
  BY <1>4, <1>5, <1>6, OpenerFrame

LEMMA OpenerPtmx == ASSUME PtyInv, NEW o \in Launches, A!OpenPtmx(o) PROVE PtyInv'
<1>1. CASE A!Fail(o, "master")
  BY <1>1, OpenerFails DEF A!OpenPtmx
<1>2. CASE ~A!Fail(o, "master")
  <2>1. PICK n \in Ptys : master' = [master EXCEPT ![o] = n] /\ locked' = locked \cup {n}
    BY <1>2 DEF A!OpenPtmx
  <2>2. A!At(o, "master") /\ A!Advance(o) /\ UNCHANGED <<how, room, search, slave, pname, ret, typed>>
    BY <1>2 DEF A!OpenPtmx
  <2>3. locked' \subseteq Ptys /\ n \in Terminals
    BY <2>1 DEF PtyInv, PtyTypes, Terminals
  <2> QED
    BY <2>1, <2>2, <2>3, OpenerHasMaster
<1> QED
  BY <1>1, <1>2

LEMMA OpenerSearches == ASSUME PtyInv, NEW o \in Launches, A!SearchBsd(o) PROVE PtyInv'
<1>1. PtyTypes /\ OpenerRun(o)
  BY DEF PtyInv
<1>2. Len(A!BsdNames) = 2 /\ A!BsdNames[1] = 100 /\ A!BsdNames[2] = 101
  BY DEF A!BsdNames
<1>3. A!At(o, "master") /\ how[o] = "bsd" /\ search[o] \in 1..3
  BY <1>1 DEF A!SearchBsd, OpenerRun
<1>4. CASE search[o] > 2
  BY <1>2, <1>3, <1>4, OpenerFails DEF A!SearchBsd
<1>5. CASE ~(search[o] > 2) /\ search' = [search EXCEPT ![o] = search[o] + 1]
            /\ UNCHANGED <<how, room, step, master, slave, pname, ret, locked, typed>>
  <2>1. PtyTypes'
    BY <1>1, <1>3, <1>5 DEF PtyTypes
  <2>2. ret[o] = "busy"
    BY <1>3 DEF A!At
  <2>3. search'[o] = search[o] + 1 /\ \A p \in Launches \ {o} : search'[p] = search[p]
    BY <1>1, <1>5 DEF PtyTypes
  <2>4. OpenerRun(o)'
    BY <1>1, <1>3, <1>5, <2>2, <2>3 DEF OpenerRun, MasterCall, NameCall, SlaveCall, LastCall
  <2> QED
    BY <1>5, <2>1, <2>3, <2>4, OpenerFrame
<1>6. CASE ~(search[o] > 2) /\ master' = [master EXCEPT ![o] = A!BsdNames[search[o]]] /\ A!Advance(o)
            /\ UNCHANGED <<how, room, search, slave, pname, ret, locked, typed>>
  <2>1. A!BsdNames[search[o]] \in Terminals
    <3>1. search[o] = 1 \/ search[o] = 2
      BY <1>3, <1>6
    <3> QED
      BY <1>2, <3>1 DEF Terminals
  <2>2. locked' \subseteq Ptys
    BY <1>1, <1>6 DEF PtyTypes
  <2> QED
    BY <1>3, <1>6, <2>1, <2>2, OpenerHasMaster
<1> QED
  BY <1>2, <1>4, <1>5, <1>6 DEF A!SearchBsd

LEMMA OpenerNames == ASSUME PtyInv, NEW o \in Launches, A!Ptsname(o) PROVE PtyInv'
<1>1. CASE A!Fail(o, "ptsname")
  BY <1>1, OpenerFails DEF A!Ptsname
<1>2. CASE ~A!Fail(o, "ptsname")
  <2> DEFINE name == IF how[o] = "openpt" THEN master[o] ELSE A!Named(master[o], room[o])
  <2>1. /\ A!At(o, "ptsname") /\ pname' = [pname EXCEPT ![o] = name] /\ A!Advance(o)
        /\ UNCHANGED <<how, room, search, master, slave, ret, locked, typed>>
    BY <1>2 DEF A!Ptsname
  <2>2. PtyTypes /\ OpenerRun(o)
    BY DEF PtyInv
  <2>3. ret[o] = "busy" /\ step[o] = NameCall(o) /\ step[o] \in Int
    BY <2>1, <2>2, CallsInOrder DEF StepOf, NameCall, PtyTypes
  <2>4. Terminals \subseteq Int /\ master[o] \in Int /\ room[o] \in Nat
    BY <2>2, FileAssumption DEF Terminals, A!None, PtyTypes
  <2>5. name \in Int /\ (name = master[o] \/ room[o] <= 11)
    BY <2>4 DEF A!Named
  <2> HIDE DEF name
  <2>6. step' = [step EXCEPT ![o] = step[o] + 1]
    BY <2>1 DEF A!Advance
  <2>7. PtyTypes'
    BY <2>1, <2>2, <2>3, <2>5, <2>6 DEF PtyTypes
  <2>8. /\ step'[o] = step[o] + 1 /\ pname'[o] = name
        /\ \A p \in Launches \ {o} : step'[p] = step[p] /\ pname'[p] = pname[p]
    BY <2>1, <2>2, <2>6 DEF PtyTypes
  <2>9. OpenerRun(o)'
    BY <2>1, <2>2, <2>3, <2>4, <2>5, <2>8 DEF OpenerRun, MasterCall, NameCall, SlaveCall, LastCall
  <2> QED
    BY <2>1, <2>7, <2>8, <2>9, OpenerFrame
<1> QED
  BY <1>1, <1>2

LEMMA OpenerOpensSlave == ASSUME PtyInv, NEW o \in Launches, A!Ptysopen(o) PROVE PtyInv'
<1>1. PtyTypes /\ OpenerRun(o)
  BY DEF PtyInv
<1>2. A!At(o, "slave") /\ ret[o] = "busy" /\ step[o] = SlaveCall(o) /\ step[o] \in Int
  BY <1>1, CallsInOrder DEF StepOf, A!Ptysopen, SlaveCall, PtyTypes
<1>3. CASE A!Fail(o, "slave")
  BY <1>2, <1>3, OpenerFails
<1>4. CASE ret' = [ret EXCEPT ![o] = "slave"]
           /\ UNCHANGED <<how, room, step, search, master, slave, pname, locked, typed>>
  <2>1. PtyTypes'
    BY <1>1, <1>4 DEF PtyTypes, Outcomes
  <2>2. ret'[o] = "slave" /\ \A p \in Launches \ {o} : ret'[p] = ret[p]
    BY <1>1, <1>4 DEF PtyTypes
  <2>3. OpenerRun(o)'
    BY <1>1, <1>2, <1>4, <2>2 DEF OpenerRun, MasterCall, NameCall, SlaveCall, LastCall
  <2> QED
    BY <1>4, <2>1, <2>2, <2>3, OpenerFrame
<1>5. CASE pname[o] \in A!Masters /\ slave' = [slave EXCEPT ![o] = pname[o]] /\ A!Advance(o)
           /\ UNCHANGED <<how, room, search, master, pname, ret, locked, typed>>
  <2>1. pname[o] \in Terminals
    BY <1>1, <1>5 DEF A!Masters, PtyTypes
  <2>2. step' = [step EXCEPT ![o] = step[o] + 1]
    BY <1>5 DEF A!Advance
  <2>3. PtyTypes'
    BY <1>1, <1>2, <1>5, <2>1, <2>2 DEF PtyTypes
  <2>4. /\ step'[o] = step[o] + 1 /\ slave'[o] = pname[o]
        /\ \A p \in Launches \ {o} : step'[p] = step[p] /\ slave'[p] = slave[p]
    BY <1>1, <1>5, <2>2 DEF PtyTypes
  <2>5. room[o] \in Nat /\ (pname[o] = master[o] \/ ~(room[o] > 11))
    <3>1. room[o] \in Nat
      BY <1>1, FileAssumption DEF PtyTypes
    <3>2. pname[o] = master[o] \/ room[o] <= 11
      BY <1>1, <1>2 DEF OpenerRun, SlaveCall, NameCall
    <3> QED
      BY <3>1, <3>2
  <2>6. OpenerRun(o)'
    BY <1>1, <1>2, <1>5, <2>4, <2>5 DEF OpenerRun, MasterCall, NameCall, SlaveCall, LastCall
  <2> QED
    BY <1>5, <2>3, <2>4, <2>6, OpenerFrame
<1> QED
  BY <1>3, <1>4, <1>5 DEF A!Ptysopen

\* Whoever closes its master has no slave afterwards.
LEMMA OpenerEnds ==
  ASSUME PtyInv, NEW o \in Launches, A!Exit(o) \/ A!CallerCloses(o) PROVE PtyInv'
<1>1. PtyTypes /\ OpenerRun(o)
  BY DEF PtyInv
<1>2. /\ UNCHANGED <<how, room, step, search, pname, typed>> /\ locked' \subseteq locked
      /\ ret' = [ret EXCEPT ![o] = "fd"] \/ ret' = ret
      /\ \/ master' = [master EXCEPT ![o] = A!None] /\ slave' = [slave EXCEPT ![o] = A!None]
         \/ UNCHANGED <<master, slave>>
  BY DEF A!Exit, A!CallerCloses
<1>3. PtyTypes'
  BY <1>1, <1>2 DEF PtyTypes, Outcomes, Terminals
<1>4. /\ ret'[o] = "fd" \/ (ret'[o] = ret[o] /\ ret[o] \in {"fd", "slave"})
      /\ \/ master'[o] = A!None /\ slave'[o] = A!None
         \/ master'[o] = master[o] /\ slave'[o] = slave[o]
      /\ \A p \in Launches \ {o} :
           ret'[p] = ret[p] /\ master'[p] = master[p] /\ slave'[p] = slave[p]
  BY <1>1, <1>2 DEF PtyTypes, A!Exit, A!CallerCloses
<1>5. OpenerRun(o)'
  BY <1>1, <1>2, <1>4 DEF OpenerRun, MasterCall, NameCall, SlaveCall, LastCall
<1> QED
  BY <1>2, <1>3, <1>4, <1>5, OpenerFrame

LEMMA OpenerTalks ==
  ASSUME PtyInv, NEW o \in Launches, A!ToMaster(o) \/ A!ToSlave(o) PROVE PtyInv'
<1>1. PtyTypes /\ OpenerRun(o)
  BY DEF PtyInv
<1>2. CASE A!Advance(o)
  <2>1. ret[o] = "busy" /\ step[o] \in {7, 8} /\ how[o] = "openpt"
    <3>1. CASE A!ToMaster(o)
      BY <1>1, <3>1, CallsInOrder DEF StepOf, A!ToMaster, PtyTypes
    <3>2. CASE A!ToSlave(o)
      BY <1>1, <3>2, CallsInOrder DEF StepOf, A!ToSlave, PtyTypes
    <3> QED
      BY <3>1, <3>2
  <2>2. step[o] < LastCall(o) /\ step[o] \notin {MasterCall(o), NameCall(o), SlaveCall(o)}
    BY <2>1 DEF LastCall, MasterCall, NameCall, SlaveCall
  <2>3. UNCHANGED <<how, room, search, master, slave, pname, ret, locked>>
    BY DEF A!ToMaster, A!ToSlave
  <2>4. typed' \in [Launches -> {<<>>, A!Text}] /\ locked' \subseteq Ptys
    BY <1>1, <2>3 DEF A!ToMaster, A!ToSlave, PtyTypes
  <2> QED
    BY <1>2, <2>1, <2>2, <2>3, <2>4, OpenerGoesOn
<1>3. CASE ~A!Advance(o)
  <2>1. UNCHANGED <<how, room, step, search, master, slave, pname, ret, locked>>
    BY <1>3 DEF A!ToMaster, A!ToSlave
  <2>2. PtyTypes'
    BY <1>1, <1>3, <2>1 DEF A!ToMaster, A!ToSlave, PtyTypes
  <2>3. OpenerRun(o)'
    BY <1>1, <2>1 DEF OpenerRun, MasterCall, NameCall, SlaveCall, LastCall
  <2> QED
    BY <2>1, <2>2, <2>3, OpenerFrame
<1> QED
  BY <1>2, <1>3

LEMMA OpenerPrepares ==
  ASSUME PtyInv, NEW o \in Launches, A!Probe(o) \/ A!Grantpt(o) \/ A!Unlockpt(o) PROVE PtyInv'
<1>1. PtyTypes /\ OpenerRun(o)
  BY DEF PtyInv
<1>2. CASE A!Advance(o) /\ UNCHANGED <<how, room, search, master, slave, pname, ret, typed>>
           /\ locked' \subseteq locked
  <2>1. /\ ret[o] = "busy" /\ step[o] < LastCall(o)
        /\ step[o] \notin {MasterCall(o), NameCall(o), SlaveCall(o)}
    <3>1. CASE A!Probe(o)
      <4>1. ret[o] = "busy" /\ StepOf(o, "probe")
        BY <3>1, CallsInOrder DEF A!Probe
      <4> QED
        BY <4>1 DEF StepOf, LastCall, MasterCall, NameCall, SlaveCall
    <3>2. CASE A!Grantpt(o)
      <4>1. ret[o] = "busy" /\ StepOf(o, "grantpt")
        BY <3>2, CallsInOrder DEF A!Grantpt
      <4> QED
        BY <4>1 DEF StepOf, LastCall, MasterCall, NameCall, SlaveCall
    <3>3. CASE A!Unlockpt(o)
      <4>1. ret[o] = "busy" /\ StepOf(o, "unlockpt")
        BY <3>3, CallsInOrder DEF A!Unlockpt
      <4> QED
        BY <4>1 DEF StepOf, LastCall, MasterCall, NameCall, SlaveCall
    <3> QED
      BY <3>1, <3>2, <3>3
  <2>2. typed' \in [Launches -> {<<>>, A!Text}] /\ locked' \subseteq Ptys
    BY <1>1, <1>2 DEF PtyTypes
  <2> QED
    BY <1>2, <2>1, <2>2, OpenerGoesOn
<1>3. CASE A!Probe(o) /\ A!Fail(o, "master")
  <2>1. A!At(o, "probe") /\ how[o] # "bsd"
    BY <1>1, <1>3, CallsInOrder DEF StepOf, A!Probe, PtyTypes
  <2> QED
    BY <1>3, <2>1, OpenerFails
<1>4. CASE A!Grantpt(o) /\ A!Fail(o, "grantpt")
  BY <1>4, OpenerFails DEF A!Grantpt
<1>5. CASE A!Unlockpt(o) /\ A!Fail(o, "unlockpt")
  BY <1>5, OpenerFails DEF A!Unlockpt
<1> QED
  BY <1>2, <1>3, <1>4, <1>5 DEF A!Probe, A!Grantpt, A!Unlockpt

LEMMA PtySteps == ASSUME PtyInv, A!PtyNext PROVE PtyInv'
BY OpenerPtmx, OpenerSearches, OpenerNames, OpenerOpensSlave, OpenerEnds, OpenerTalks, OpenerPrepares
   DEF A!PtyNext, A!Open

LEMMA PtyHolds ==
  ASSUME PtyInv
  PROVE  A!PtyTypeOK /\ A!FailedKeepsNothing /\ A!SlaveOfMaster /\ A!SearchGivesUpLast
<1>1. DOMAIN A!Calls = {"openpt", "ptmx", "bsd"}
  BY DEF A!Calls
<1>2. Len(A!BsdNames) = 2 /\ {A!BsdNames[i] : i \in DOMAIN A!BsdNames} = {100, 101}
  BY DEF A!BsdNames
<1>3. A!PtyTypeOK
  <2>1. \A o \in Launches : step[o] \in 1..9 /\ search[o] \in 1..3
    BY DEF PtyInv, OpenerRun, LastCall
  <2>2. Terminals = Ptys \cup {A!BsdNames[i] : i \in DOMAIN A!BsdNames} \cup {A!None}
    BY <1>2 DEF Terminals
  <2>3. step \in [Launches -> 1..9] /\ search \in [Launches -> 1..Len(A!BsdNames) + 1]
    BY <1>2, <2>1 DEF PtyInv, PtyTypes
  <2> QED
    BY <1>1, <2>2, <2>3 DEF A!PtyTypeOK, PtyInv, PtyTypes
<1> QED
  BY <1>2, <1>3 DEF PtyInv, OpenerRun, A!FailedKeepsNothing, A!SlaveOfMaster, A!SearchGivesUpLast

LEMMA PtyCause == ASSUME PtyInv, A!PtyNext PROVE A!PassesOverBusy
<1> SUFFICES ASSUME NEW o \in Launches, search'[o] # search[o]
             PROVE  \E p \in Launches \ {o} : master[p] = A!BsdNames[search[o]]
  BY DEF A!PassesOverBusy
<1>1. search \in [Launches -> Int]
  BY DEF PtyInv, PtyTypes
<1>2. PICK q \in Launches : A!SearchBsd(q) /\ search' = [search EXCEPT ![q] = @ + 1]
                            /\ A!BsdNames[search[q]] \in A!Masters
  BY DEF A!PtyNext, A!Open, A!Probe, A!OpenPtmx, A!SearchBsd, A!Ptsname, A!Grantpt, A!Unlockpt,
         A!Ptysopen, A!ToMaster, A!ToSlave, A!Exit, A!CallerCloses, A!Fail
<1>3. q = o
  BY <1>1, <1>2
<1>4. master[o] = A!None
  <2>1. A!At(o, "master")
    BY <1>2, <1>3 DEF A!SearchBsd
  <2>2. ret[o] = "busy" /\ step[o] <= MasterCall(o) /\ OpenerRun(o)
    <3>1. ret[o] = "busy" /\ StepOf(o, "master") /\ OpenerRun(o)
      BY <2>1, CallsInOrder DEF PtyInv
    <3> QED
      BY <3>1 DEF StepOf, MasterCall
  <2> QED
    BY <2>2 DEF OpenerRun
<1>5. PICK p \in Launches : master[p] = A!BsdNames[search[o]] /\ master[p] # A!None
  BY <1>2, <1>3 DEF A!Masters
<1> QED
  BY <1>4, <1>5

------------------------------------------------------------------------------
(* The programs together *)

Programs == {"filelock", "implyIR", "lockEOF", "mandlock", "semaph", "nonblock", "select",
             "rdwrv", "mmap", "dup2", "pty"}

\* The invariant of the program that runs.
IInv ==
  /\ prog \in Programs
  /\ prog = "filelock" => FileLockInv
  /\ prog = "implyIR" => ImplyInv
  /\ prog = "lockEOF" => EofInv
  /\ prog = "mandlock" => MandInv
  /\ prog = "semaph" => SemInv
  /\ prog = "nonblock" => NonInv
  /\ prog = "select" => SelInv
  /\ prog = "rdwrv" => VecInv
  /\ prog = "mmap" => MapInv
  /\ prog = "dup2" => DupInv
  /\ prog = "pty" => PtyInv

LEMMA InvStarts == Init => IInv
<1> SUFFICES ASSUME Init PROVE IInv
  OBVIOUS
<1>1. prog \in Programs /\ A!NonblockInit /\ A!SelectInit
  BY DEF Init, Programs
<1>2. /\ prog = "filelock" => R!FileLockInit
      /\ prog = "implyIR" => R!ImplyInit
      /\ prog = "lockEOF" => R!EofInit
      /\ prog = "mandlock" => R!MandInit
      /\ prog = "semaph" => S!Init
  BY DEF Init
<1>3. /\ prog = "rdwrv" => A!VecInit
      /\ prog = "mmap" => A!MapInit
      /\ prog = "dup2" => A!DupInit
      /\ prog = "pty" => A!PtyInit
  BY DEF Init
<1> QED
  BY <1>1, <1>2, <1>3, FileLockStarts, ImplyStarts, EofStarts, MandStarts, SemStarts, NonStarts, SelStarts,
     VecStarts, MapStarts, DupStarts, PtyStarts DEF IInv

\* The step of a program is that of the program that runs.
LEMMA WhoseStep ==
  ASSUME Next
  PROVE  /\ prog' = prog
         /\ \/ prog = "filelock" /\ R!FileLockNext
            \/ prog = "implyIR" /\ R!ImplyNext
            \/ prog = "lockEOF" /\ R!EofNext
            \/ prog = "mandlock" /\ R!MandNext
            \/ prog = "semaph" /\ S!Next
            \/ prog = "nonblock" /\ A!NonblockNext
            \/ prog = "select" /\ A!SelectNext
            \/ prog = "rdwrv" /\ A!VecNext
            \/ prog = "mmap" /\ A!MapNext
            \/ prog = "dup2" /\ A!DupNext
            \/ prog = "pty" /\ A!PtyNext
BY DEF Next, InFileLock, InImplyLock, InEofLock, InMandLock, InSem, InIo, InNonblock, InSelect, InVec,
       InMap, InDup, InPty

\* Nothing changes.
LEMMA InvStutters == ASSUME IInv, UNCHANGED vars PROVE IInv'
<1> USE DEF vars, lockVars, eofVars, mandVars, semVars, ioVars, nonblockVars, selectVars, vecVars,
            mapVars, dupVars, ptyVars
<1>1. FileLockInv => FileLockInv'
  BY DEF FileLockInv, Locked, Wanted
<1>2. ImplyInv => ImplyInv'
  BY DEF ImplyInv, Locked
<1>3. EofInv => EofInv'
  BY DEF EofInv, EofTypes, EofRun, Locked
<1>4. MandInv => MandInv'
  BY DEF MandInv, MandRun, MandText, MandWritten
<1>5. SemInv => SemInv'
  BY DEF SemInv, SemTypes, SemOrder, SemUndone, SemAlone, SemBalanced, SemNeeded, SemBusy, SemRemoved,
         SemAdjusted, Mine, SemUses, SemIn
<1>6. NonInv => NonInv'
  BY DEF NonInv, NonTypes, CopyRun, Out, A!BlocksAgain
<1>7. SelInv => SelInv'
  BY DEF SelInv
<1>8. VecInv => VecInv'
  BY DEF VecInv
<1>9. MapInv => MapInv'
  BY DEF MapInv
<1>10. DupInv => DupInv'
  BY DEF DupInv, DupTypes, DupKept, Extra
<1>11. PtyInv => PtyInv'
  BY DEF PtyInv, PtyTypes, OpenerRun, MasterCall, NameCall, SlaveCall, LastCall
<1>12. prog' = prog
  OBVIOUS
<1> QED
  BY <1>1, <1>2, <1>3, <1>4, <1>5, <1>6, <1>7, <1>8, <1>9, <1>10, <1>11, <1>12 DEF IInv

LEMMA InvSteps == ASSUME IInv, [Next]_vars PROVE IInv'
<1>1. CASE Next
  BY <1>1, WhoseStep, FileLockSteps, ImplySteps, EofSteps, MandSteps, SemSteps, NonSteps, SelSteps,
     VecSteps, MapSteps, DupSteps, PtySteps DEF IInv
<1> QED
  BY <1>1, InvStutters

LEMMA InvHolds == ASSUME IInv PROVE TypeOK /\ FilesKept
<1>1. TypeOK
  BY FileLockHolds, ImplyHolds, EofHolds, MandHolds, SemHolds, NonHolds, SelHolds, VecHolds, MapHolds,
     DupHolds, PtyHolds DEF IInv, Programs, TypeOK
<1>2. FilesKept
  BY FileLockHolds, ImplyHolds, EofHolds, MandHolds, SemHolds, NonHolds, VecHolds, MapHolds, PtyHolds
     DEF IInv, FilesKept, LocksExclude, OutputIsInput
<1> QED
  BY <1>1, <1>2

\* Each program keeps the types of what it shares: the labels of its processes, the
\* kinds of locks on each byte of the file, the value of the semaphore and its
\* adjustments, the bytes in the pipe, the table of descriptors and the calls that
\* open a pseudo terminal, for any number of runs, bytes and descriptors.
THEOREM TypeCorrect == Spec => []TypeOK
<1>1. IInv => TypeOK
  BY InvHolds
<1>2. IInv /\ [Next]_vars => IInv'
  BY InvSteps
<1> QED
  BY InvStarts, <1>1, <1>2, PTL DEF Spec

\* No run of a program that locks or copies disturbs the files of another: two
\* processes are never both past lockabyte() with a byte in common, a parent of
\* implyIR.c reads undisturbed, lockEOF.c keeps its first byte, one run of mandlock.c
\* forks, semop() lets one process in and loses no unit, nonblock.c writes what it
\* has read in order, rdwrv.c and mmap.c write what was read, and an opener of a
\* pseudo terminal with room for its name gets its own slave.
THEOREM FilesAlways == Spec => []FilesKept
<1>1. IInv => FilesKept
  BY InvHolds
<1>2. IInv /\ [Next]_vars => IInv'
  BY InvSteps
<1> QED
  BY InvStarts, <1>1, <1>2, PTL DEF Spec

\* EDEADLK, the second lock of a child, a failing semop(), the end of select.c, the
\* next name of the BSD search and a failing dup2_l() have the cause that the
\* programs count on, whatever other runs do meanwhile.
THEOREM GrantedAlways == Spec => GrantedForCause
<1> DEFINE Cause == /\ prog = "filelock" => R!VictimReleasesWaiter
                    /\ prog = "implyIR" => R!ChildAfterClose
                    /\ prog = "lockEOF" => R!ChildGetsLater /\ R!AppendsAtEnd
                    /\ prog = "semaph" => S!FailsOnlyIfRemoved
                    /\ prog = "select" => A!InputSeen
                    /\ prog = "pty" => A!PassesOverBusy
                    /\ prog = "dup2" => A!SameAsDup2 /\ A!FailureLeavesOne
<1>1. IInv /\ [Next]_vars => [Cause]_vars
  <2> SUFFICES ASSUME IInv, Next PROVE Cause
    OBVIOUS
  <2> QED
    BY WhoseStep, FileLockVictim, ImplyCause, EofCause, SemCause, SelCause, PtyCause, DupCause DEF IInv
<1>2. IInv /\ [Next]_vars => IInv'
  BY InvSteps
<1> QED
  BY InvStarts, <1>1, <1>2, PTL DEF Spec, GrantedForCause
=============================================================================
