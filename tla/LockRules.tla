------------------------------ MODULE LockRules ------------------------------
(***************************************************************************)
(* Programs of 14-advanio that show one rule of record locks each, run     *)
(* several times on one file: filelock.c (2-filelock), implyIR.c           *)
(* (3-implyIR), lockEOF.c (4-lockEOF) and mandlock.c (5-mandlock), each a  *)
(* parent and its child.                                                   *)
(***************************************************************************)
EXTENDS Naturals, FiniteSets

CONSTANTS Launches, \* runs of the program
          NoOne

VARIABLES pc,     \* what each process does next
          locks, waits,
          off,    \* of lockEOF.c: the file offset a parent and its child share
          size,   \* length of the file
          cut,    \* launches that saw another one change the file's length
          got,    \* bytes each child has been able to lock
          text,   \* of mandlock.c: length of the file
          holder  \* the run that has the lock of the whole file, or NoOne

Procs == Launches \X {"parent", "child"}

Parent(l) == <<l, "parent">>
Child(l)  == <<l, "child">>

Go(p, from, to) == pc[p] = from /\ pc' = [pc EXCEPT ![p] = to]

------------------------------------------------------------------------------
(***************************************************************************)
(* filelock.c: a parent and its child lock two bytes of tempfile in        *)
(* opposite orders, and fcntl() has to get them out of it.  The sleep()    *)
(* calls of the program only make one order likely, so they are left out.  *)
(***************************************************************************)

FileLockRL == INSTANCE RecordLocks WITH LastByte <- 1

FileLockEnded == {"done", "deadlock", "killed", "nofork"}

FileLockInit ==
  /\ pc = [p \in Procs |-> IF p[2] = "parent" THEN "fork" ELSE "unborn"]
  /\ FileLockRL!LocksInit

\* The child locks byte 0 and then 1, the parent 1 and then 0.
ByteOf(p) == IF (pc[p] = "first") = (p[2] = "child") THEN 0 ELSE 1

Locking(p) == pc[p] \in {"first", "second"}
Goto(p, s) == pc' = [pc EXCEPT ![p] = s]

\* fork(), or its failure and the end of the program.
FileLockFork(l) ==
  /\ pc[Parent(l)] = "fork"
  /\ \/ pc' = [pc EXCEPT ![Parent(l)] = "first", ![Child(l)] = "first"]
     \/ Goto(Parent(l), "nofork")
  /\ UNCHANGED <<locks, waits>>

\* lockabyte() gets its byte; after the second one the process returns.
GetsByte(p) ==
  /\ Locking(p)
  /\ FileLockRL!Granted(p, "write", {ByteOf(p)})
  /\ Goto(p, IF pc[p] = "first" THEN "second" ELSE "return")

SleepsForByte(p) ==
  /\ Locking(p)
  /\ FileLockRL!Sleeps(p, "write", {ByteOf(p)})
  /\ UNCHANGED pc

\* Mutant: a process gives up as soon as it would have to wait.
Deadlock_Eager(p) ==
  /\ Locking(p) /\ FileLockRL!Owners(p, "write", {ByteOf(p)}) # {}
  /\ Goto(p, "deadlock")
  /\ FileLockRL!DropAll(p)

\* writew_lock() fails with EDEADLK: exit(1), and the locks are gone.
Deadlock(p) ==
  /\ Locking(p)
  /\ FileLockRL!Circle(p, "write", {ByteOf(p)})
  /\ Goto(p, "deadlock")
  /\ FileLockRL!DropAll(p)

FileLockReturn(p) == pc[p] = "return" /\ Goto(p, "done") /\ FileLockRL!DropAll(p)

\* Ctrl-C or kill(1), at any moment.
FileLockKilled(p) == /\ pc[p] \notin FileLockEnded \cup {"unborn"} /\ Goto(p, "killed")
                     /\ FileLockRL!DropAll(p)

FileLockProcess(p) == GetsByte(p) \/ SleepsForByte(p) \/ Deadlock(p) \/ FileLockReturn(p)

FileLockNext == \/ \E l \in Launches : FileLockFork(l)
                \/ \E p \in Procs : FileLockProcess(p) \/ FileLockKilled(p)

FileLockTypeOK ==
  /\ \A p \in Procs :
       pc[p] \in {"first", "second", "return", "done", "deadlock", "killed"} \cup
                 IF p[2] = "parent" THEN {"fork", "nofork"} ELSE {"unborn"}
  /\ FileLockRL!LocksTypeOK

\* lockabyte() returns with the lock: whoever passed it twice has both bytes,
\* alone.
BothAlone ==
  /\ FileLockRL!Compatible
  /\ \A p \in Procs : pc[p] = "return" => locks[p] = [b \in {0, 1} |-> "write"]

\* Lines 65-75: EDEADLK comes only when it is needed, that is, it releases a
\* process that sleeps for a lock of the victim.
VictimReleasesWaiter ==
  \A p \in Procs : pc[p] # "deadlock" /\ pc'[p] = "deadlock"
    => \E q \in Procs \ {p} : waits[q] = p /\ FileLockRL!Owners(q, "write", {ByteOf(q)}) = {p}

------------------------------------------------------------------------------
(***************************************************************************)
(* implyIR.c: the parent's read lock is not inherited by its child, keeps  *)
(* the child's write lock waiting, and goes when the parent opens the file *)
(* once more and closes that descriptor.                                   *)
(***************************************************************************)

ImplyRL == INSTANCE RecordLocks WITH LastByte <- 0

Whole == ImplyRL!From(0)   \* offset 0, length 0
ImplyEnded == {"done", "failed", "killed"}

ImplyInit == /\ pc = [p \in Procs |-> IF p[2] = "parent" THEN "lock" ELSE "unborn"]
             /\ ImplyRL!LocksInit

\* read_lock() of the parent, with F_SETLK.
ReadLock(l) == /\ ImplyRL!Granted(Parent(l), "read", Whole)
               /\ Go(Parent(l), "lock", "fork")

\* Line 73: it fails while some child has the file, and the program ends.
ReadLockFails(l) == /\ ImplyRL!Owners(Parent(l), "read", Whole) # {}
                    /\ Go(Parent(l), "lock", "failed")
                    /\ ImplyRL!DropAll(Parent(l))

\* fork(): the child starts without a lock.
ImplyFork(l) ==
  /\ pc[Parent(l)] = "fork"
  /\ pc' = [pc EXCEPT ![Parent(l)] = "open", ![Child(l)] = "writew"]
  /\ UNCHANGED <<locks, waits>>

ForkFails(l) == Go(Parent(l), "fork", "failed") /\ ImplyRL!DropAll(Parent(l))

\* writew_lock() of the child, with F_SETLKW.
WriteLock(l) == /\ ImplyRL!Granted(Child(l), "write", Whole)
                /\ Go(Child(l), "writew", "got")

WriteLockSleeps(l) == /\ pc[Child(l)] = "writew"
                      /\ ImplyRL!Sleeps(Child(l), "write", Whole)
                      /\ UNCHANGED pc

ImplyChildReturns(l) == Go(Child(l), "got", "done") /\ ImplyRL!DropAll(Child(l))

\* Mutant: the parent waits for its child before it goes on.
Open_Waits(l) ==
  /\ pc[Child(l)] \in ImplyEnded
  /\ Go(Parent(l), "open", "close") /\ UNCHANGED <<locks, waits>>

\* The parent opens the file again; the descriptor may not be there.
Open(l) ==
  \/ Go(Parent(l), "open", "close") /\ UNCHANGED <<locks, waits>>
  \/ Go(Parent(l), "open", "failed") /\ ImplyRL!DropAll(Parent(l))

\* Mutant: only the close() of fd1 would give the lock back.
CloseOther_Keeps(l) ==
  Go(Parent(l), "close", "closed") /\ UNCHANGED <<locks, waits>>

\* close(fd2) drops the lock taken through fd1.
CloseOther(l) == Go(Parent(l), "close", "closed") /\ ImplyRL!DropAll(Parent(l))

ParentReturns(l) == Go(Parent(l), "closed", "done") /\ ImplyRL!DropAll(Parent(l))

Killed(p) == \E s \in {"lock", "fork", "open", "close", "closed", "writew", "got"} :
               Go(p, s, "killed") /\ ImplyRL!DropAll(p)

ParentStep(l) == \/ ReadLock(l) \/ ReadLockFails(l) \/ ImplyFork(l) \/ ForkFails(l)
                 \/ Open(l) \/ CloseOther(l) \/ ParentReturns(l)
ChildStep(l)  == WriteLock(l) \/ WriteLockSleeps(l) \/ ImplyChildReturns(l)

ImplyNext == \/ \E l \in Launches : ParentStep(l) \/ ChildStep(l)
             \/ \E p \in Procs : Killed(p)

(* What must hold *)

ImplyTypeOK == /\ \A l \in Launches :
                    /\ pc[Parent(l)] \in ImplyEnded \cup {"lock", "fork", "open", "close", "closed"}
                    /\ pc[Child(l)] \in {"unborn", "writew", "got", "done", "killed"}
               /\ ImplyRL!LocksTypeOK

\* Lines 29-50 and 86-90: the child gets its lock only when its parent has
\* closed fd2 or has ended, and then no other parent reads.
ChildAfterClose ==
  \A l \in Launches : pc[Child(l)] = "writew" /\ pc'[Child(l)] = "got" =>
    /\ pc[Parent(l)] \in ImplyEnded \cup {"closed"}
    /\ \A m \in Launches : pc[Parent(m)] \notin {"fork", "open", "close"}

\* A parent between lock and close still has it, whatever its own child and
\* the other launches do.
ReaderUndisturbed ==
  \A l \in Launches : pc[Parent(l)] \in {"fork", "open", "close"} =>
    /\ locks[Parent(l)] = [b \in Whole |-> "read"]
    /\ ImplyRL!Compatible

\* The child gets its lock although fd1 stays open in the parent, and ends.
ChildEnds == \A l \in Launches : pc[Child(l)] = "writew" ~> pc[Child(l)] \in ImplyEnded

\* While it is closed, fd1 holds nothing: a parent that has closed fd2 does
\* not stand in the way of a child.
NothingAfterClose ==
  \A l \in Launches, p \in Procs :
    pc[Parent(l)] = "closed" => Parent(l) \notin ImplyRL!Owners(p, "write", Whole)

------------------------------------------------------------------------------
(***************************************************************************)
(* lockEOF.c: a lock "from the end of the file on" is a lock on bytes; what*)
(* the end is when it is taken and when it is given back decides which byte*)
(* stays locked.  Each run truncates the file, and the locks do not care.  *)
(***************************************************************************)

EofRL == INSTANCE RecordLocks WITH LastByte <- 3

EofEnded == {"failed", "done"}

EofInit == /\ pc = [p \in Procs |-> IF p[2] = "parent" THEN "creat" ELSE "unborn"]
           /\ off = [l \in Launches |-> 0] /\ size = 0
           /\ EofRL!LocksInit
           /\ cut = {} /\ got = [l \in Launches |-> {}]

\* Launches under way that a change of the length by l disturbs.
Others(l) == {m \in Launches \ {l} : pc[Parent(m)] # "creat"}

\* creat() truncates the file for everyone.
Creat(l) ==
  /\ Go(Parent(l), "creat", "lock")
  /\ size' = 0
  /\ cut' = (cut \cup Others(l)) \ {l}
  /\ UNCHANGED <<off, locks, waits, got>>

\* write_lock(fd, 0, SEEK_END, 0): from the end onward.
LockEnd(l) ==
  /\ \/ EofRL!Granted(Parent(l), "write", EofRL!From(size)) /\ Go(Parent(l), "lock", "a")
     \/ EofRL!Owners(Parent(l), "write", EofRL!From(size)) # {} /\ Go(Parent(l), "lock", "failed")
        /\ EofRL!DropAll(Parent(l))
  /\ UNCHANGED <<off, size, cut, got>>

\* One character at the shared offset, which may lie beyond the end.
Write(l, from, to) ==
  /\ Go(Parent(l), from, to)
  /\ off' = [off EXCEPT ![l] = @ + 1]
  /\ size' = IF off[l] + 1 > size THEN off[l] + 1 ELSE size
  /\ cut' = IF size' # size THEN cut \cup Others(l) ELSE cut
  /\ IF to = "done" THEN EofRL!DropAll(Parent(l)) ELSE UNCHANGED <<locks, waits>>
  /\ UNCHANGED got

\* Mutant: the lock is given back from the start.
UnlockEnd_Start(l) ==
  /\ Go(Parent(l), "unlock", "b")
  /\ EofRL!Unlock(Parent(l), EofRL!From(0))
  /\ UNCHANGED <<off, size, cut, got>>

\* un_lock(fd, 0, SEEK_END, 0): the byte written in between stays locked.
UnlockEnd(l) ==
  /\ Go(Parent(l), "unlock", "b")
  /\ EofRL!Unlock(Parent(l), EofRL!From(size))
  /\ UNCHANGED <<off, size, cut, got>>

EofFork(l) ==
  /\ pc[Parent(l)] = "fork"
  /\ \/ /\ pc' = [pc EXCEPT ![Parent(l)] = "lseek", ![Child(l)] = "lock0"]
        /\ UNCHANGED <<locks, waits>>
     \/ /\ Go(Parent(l), "fork", "failed") /\ EofRL!DropAll(Parent(l))
  /\ UNCHANGED <<off, size, cut, got>>

\* write_lock() of the child on one byte; it goes on either way.
ChildLock(l, from, byte, to) ==
  /\ Go(Child(l), from, to)
  /\ \/ /\ EofRL!Granted(Child(l), "write", {byte})
        /\ got' = [got EXCEPT ![l] = @ \cup {byte}]
     \/ EofRL!Denied(Child(l), "write", {byte}) /\ UNCHANGED got
  /\ UNCHANGED <<off, size, cut>>

ChildLock0(l) == ChildLock(l, "lock0", 0, "lock1")

\* Mutant: both bytes at once.
ChildLock1_Both(l) ==
  /\ Go(Child(l), "lock1", "return")
  /\ \/ /\ EofRL!Granted(Child(l), "write", {0, 2})
        /\ got' = [got EXCEPT ![l] = @ \cup {2}]
     \/ EofRL!Denied(Child(l), "write", {0, 2}) /\ UNCHANGED got
  /\ UNCHANGED <<off, size, cut>>

\* The byte at offset 2, which is not the second one.
ChildLock1(l) == ChildLock(l, "lock1", 2, "return")

\* close(fd) if it has the second lock, and the return, drop what it has.
EofChildReturns(l) == /\ Go(Child(l), "return", "done")
                      /\ EofRL!DropAll(Child(l))
                      /\ UNCHANGED <<off, size, cut, got>>

\* Mutant: to the beginning.
Lseek_Start(l) == /\ Go(Parent(l), "lseek", "c")
                  /\ off' = [off EXCEPT ![l] = 0]
                  /\ UNCHANGED <<size, locks, waits, cut, got>>

\* lseek(fd, SEEK_END, 0) has its arguments the wrong way round: SEEK_END is
\* 2 and 0 is SEEK_SET.
Lseek(l) == /\ Go(Parent(l), "lseek", "c")
            /\ off' = [off EXCEPT ![l] = 2]
            /\ UNCHANGED <<size, locks, waits, cut, got>>

EofNext ==
  \E l \in Launches :
    \/ Creat(l) \/ LockEnd(l)
    \/ Write(l, "a", "unlock") \/ UnlockEnd(l) \/ Write(l, "b", "fork")
    \/ EofFork(l) \/ ChildLock0(l) \/ ChildLock1(l) \/ EofChildReturns(l)
    \/ Lseek(l) \/ Write(l, "c", "done")

(* What must hold *)

AfterUnlock == {"b", "fork", "lseek", "c"}

EofTypeOK ==
  /\ \A l \in Launches :
       /\ pc[Parent(l)] \in EofEnded \cup AfterUnlock \cup {"creat", "lock", "a", "unlock"}
       /\ pc[Child(l)] \in {"unborn", "lock0", "lock1", "return", "done"}
  /\ off \in [Launches -> 0..3] /\ size \in 0..3
  /\ EofRL!LocksTypeOK
  /\ cut \subseteq Launches /\ got \in [Launches -> SUBSET EofRL!Bytes]

\* Lines 28-40 and 73-96: when nobody else changes the length, the byte that
\* was written between lock and unlock is locked and no other is.
FirstByteStays ==
  \A l \in Launches \ cut : pc[Parent(l)] \in AfterUnlock =>
    locks[Parent(l)] = [b \in EofRL!Bytes |-> IF b = 0 THEN "write" ELSE "none"]

\* Line 129 gets a lock of its own: apart from the first byte, the parent of
\* a child is never in the way (unless the file was disturbed).
ChildGetsLater ==
  \A l \in Launches \ cut :
    pc[Child(l)] = "lock1" /\ pc'[Child(l)] = "return" /\ 2 \notin got'[l]
    => EofRL!Owners(Child(l), "write", {2}) \ {Parent(l)} # {}

\* Lines 120-126: the child's lock on byte 0 is refused while its parent runs
\* and nobody else changes the length.
ChildRefused ==
  \A l \in Launches \ cut : 0 \in got[l] => pc[Parent(l)] \in EofEnded

\* Lines 142-147: 'c' is appended, never written over what is there, unless
\* another launch changes the length.
AppendsAtEnd ==
  \A l \in Launches \ cut :
    pc[Parent(l)] = "c" /\ pc'[Parent(l)] = "done" => size' = off[l] + 1

------------------------------------------------------------------------------
(***************************************************************************)
(* mandlock.c: the parent empties the file, locks all of it and waits for  *)
(* its child, which tries to lock and to read.                             *)
(***************************************************************************)

MandEnded == {"exit0", "exit1", "killed"}

MandInit == /\ pc = [p \in Procs |-> IF p[2] = "parent" THEN "open" ELSE "unborn"]
            /\ text = 0 /\ holder = NoOne

MandGoes(p, label) == pc' = [pc EXCEPT ![p] = label]

\* exit() releases the locks of the process.
MandEnds(p, how) == /\ MandGoes(p, how)
                    /\ holder' = IF holder = p[1] /\ p[2] = "parent" THEN NoOne ELSE holder

\* Line 81: O_TRUNC, before there is a lock.
MandOpen(c) == /\ pc[Parent(c)] = "open"
               /\ \/ MandGoes(Parent(c), "write") /\ text' = 0
                  \/ MandGoes(Parent(c), "exit1") /\ UNCHANGED text
               /\ UNCHANGED holder

\* Lines 85-101: six bytes, and the mode bits.
MandWrite(c) == /\ pc[Parent(c)] = "write"
                /\ \/ MandGoes(Parent(c), "write_lock") /\ text' = 6 /\ UNCHANGED holder
                   \/ MandEnds(Parent(c), "exit1") /\ UNCHANGED text

\* Mutant: the lock is tried, and its failure is not looked at.
MandWriteLock_Anyway(c) == /\ pc[Parent(c)] = "write_lock"
                           /\ holder' = IF holder = NoOne THEN c ELSE holder
                           /\ MandGoes(Parent(c), "fork")
                           /\ UNCHANGED text

\* Lines 103-106: F_SETLK does not wait; a child that has its read lock is in
\* the way too.
MandWriteLock(c) == /\ pc[Parent(c)] = "write_lock"
                    /\ IF holder = NoOne /\ \A d \in Launches : pc[Child(d)] # "locked"
                       THEN holder' = c /\ MandGoes(Parent(c), "fork")
                       ELSE MandEnds(Parent(c), "exit1")
                    /\ UNCHANGED text

MandFork(c) == /\ pc[Parent(c)] = "fork"
               /\ \/ /\ pc' = [pc EXCEPT ![Parent(c)] = "waitpid", ![Child(c)] = "read_lock"]
                     /\ UNCHANGED holder
                  \/ MandEnds(Parent(c), "exit1")
               /\ UNCHANGED text

\* Lines 113-116.
MandWait(c) == /\ pc[Parent(c)] = "waitpid" /\ pc[Child(c)] \in MandEnded
               /\ MandEnds(Parent(c), "exit0") /\ UNCHANGED text

\* Lines 119-126: the child does not own the locks of its parent.
MandReadLock(c) == /\ pc[Child(c)] = "read_lock"
                   /\ MandGoes(Child(c), IF holder = NoOne THEN "locked" ELSE "read")
                   /\ UNCHANGED <<text, holder>>

\* Line 123: "read_lock successed", exit(1).
LockedExit(c) == pc[Child(c)] = "locked" /\ MandGoes(Child(c), "exit1") /\ UNCHANGED <<text, holder>>

\* Lines 129-139: the read fails where mandatory locking works; without it nothing
\* keeps the child from reading.
MandRead(c) == /\ pc[Child(c)] = "read"
               /\ MandGoes(Child(c), "exit0") \/ MandGoes(Child(c), "exit1")
               /\ UNCHANGED <<text, holder>>

MandKilled(p) == /\ pc[p] \notin MandEnded \cup {"unborn"} /\ MandEnds(p, "killed")
                 /\ UNCHANGED text

MandStep(c) == \/ MandOpen(c) \/ MandWrite(c) \/ MandWriteLock(c) \/ MandFork(c) \/ MandWait(c)
               \/ MandReadLock(c) \/ LockedExit(c) \/ MandRead(c)

MandNext == \/ \E c \in Launches : MandStep(c)
            \/ \E p \in Procs : MandKilled(p)

MandTypeOK == text \in {0, 6} /\ holder \in Launches \cup {NoOne} /\ DOMAIN pc = Procs

\* Lines 103-126: one run at a time gets as far as fork(), and the lock is refused to
\* its child as long as that parent lives.
OneRunForks ==
  /\ \A c, d \in Launches :
       {pc[Parent(c)], pc[Parent(d)]} \subseteq {"fork", "waitpid"} => c = d
  /\ \A c \in Launches : pc[Child(c)] = "locked" => pc[Parent(c)] = "killed"

\* Lines 133-138 and 81: the child finds its text unless another run, which
\* need not get the lock, has just emptied the file.
TextForCause ==
  \A c \in Launches : pc[Child(c)] = "read" /\ text = 0 =>
    \E d \in Launches \ {c} : pc[Parent(d)] \in {"write", "exit1", "killed"}
==============================================================================
