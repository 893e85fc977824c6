----------------------------- MODULE RecordLocks -----------------------------
(***************************************************************************)
(* fcntl() record locks, as the programs of 14-advanio use them through    *)
(* lock_reg(): a lock belongs to a process and a byte, a new lock of the   *)
(* process replaces its old one, F_SETLK fails and F_SETLKW waits while    *)
(* another process is in the way, a closed circle of waiters is refused,   *)
(* and a process that ends or closes the file loses all its locks.         *)
(***************************************************************************)
EXTENDS Naturals, FiniteSets

CONSTANTS Procs,
          LastByte, \* stands for every byte from there on
          NoOne

VARIABLES locks,  \* the lock of each process on each byte
          waits   \* whom a process that sleeps in F_SETLKW waits for

lockVars == <<locks, waits>>

Bytes    == 0..LastByte
Locks    == {"none", "read", "write"}
From(b)  == b..LastByte   \* a length of 0 reaches to the end, however far
Unlocked == [b \in Bytes |-> "none"]

LocksInit == locks = [p \in Procs |-> Unlocked] /\ waits = [p \in Procs |-> NoOne]

LocksTypeOK == /\ locks \in [Procs -> [Bytes -> Locks]]
               /\ waits \in [Procs -> Procs \cup {NoOne}]

\* Mutant: a read lock of another process does not matter.
Owners_Writers(p, type, region) ==
  {q \in Procs \ {p} : \E b \in region : locks[q][b] = "write"}

\* Mutant: locks of other processes do not count at all.
Owners_None(p, type, region) == {}

\* Processes whose locks are in the way.
Owners(p, type, region) ==
  {q \in Procs \ {p} : \E b \in region :
     locks[q][b] = "write" \/ (type = "write" /\ locks[q][b] = "read")}

\* What a process gets, and what becomes of its old locks there.
Put(p, type, region) ==
  locks' = [locks EXCEPT ![p] = [b \in Bytes |-> IF b \in region THEN type ELSE @[b]]]

\* Whoever waits for p is woken up, and looks again.
Wake(p) == waits' = [q \in Procs |-> IF q = p \/ waits[q] = p THEN NoOne ELSE waits[q]]

\* The end of the process, and any close() of the file.
DropAll(p) == locks' = [locks EXCEPT ![p] = Unlocked] /\ Wake(p)

Unlock(p, region) == Put(p, "none", region) /\ Wake(p)

\* Mutant: no deadlock detection.
Deadlocks_Never(p, q) == FALSE

\* p may not begin to wait for q when q waits, by however many, for p: one comes
\* to p by going from q to the one it waits for, and on.
Deadlocks(p, q) ==
  \A s \in SUBSET Procs :
    q \in s /\ (\A r \in s : waits[r] \in s \cup {NoOne}) => p \in s

\* A request that is granted, F_SETLK or F_SETLKW.
Granted(p, type, region) ==
  /\ Owners(p, type, region) = {}
  /\ Put(p, type, region)
  /\ waits' = [waits EXCEPT ![p] = NoOne]

\* F_SETLK is refused.
Denied(p, type, region) == Owners(p, type, region) # {} /\ UNCHANGED lockVars

\* F_SETLKW goes to sleep, at first or after the one it waited for is gone.
Sleeps(p, type, region) ==
  /\ waits[p] \notin Owners(p, type, region)
  /\ \E q \in Owners(p, type, region) : /\ ~Deadlocks(p, q)
                                        /\ waits' = [waits EXCEPT ![p] = q]
  /\ UNCHANGED locks

\* F_SETLKW would close a circle: EDEADLK.
Circle(p, type, region) ==
  /\ waits[p] \notin Owners(p, type, region)
  /\ \E q \in Owners(p, type, region) : Deadlocks(p, q)

\* No process ends with a lock another one has excluded.
Compatible ==
  \A p, q \in Procs : \A b \in Bytes :
    p # q /\ locks[p][b] = "write" => locks[q][b] = "none"
==============================================================================
