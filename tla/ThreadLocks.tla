----------------------------- MODULE ThreadLocks -----------------------------
(***************************************************************************)
(* Two threads and main with locks: the reader-writer lock of              *)
(* 11-thread/9-rwlock/rwlock.c, the mutex of 11-thread/7-mutex/mutex.c and *)
(* the two mutexes of 12-thrctl/9-thrfork/thrfork.c.                       *)
(***************************************************************************)
EXTENDS Naturals, FiniteSets

VARIABLES main, thr1, thr2, \* what each thread does next
          readers,          \* threads that have the lock in read mode
          writer,           \* the thread that has it in write mode, or 0
          misused,          \* unlocked by somebody while nobody had it
          i1, i2,           \* of mutex.c: the i of each thread
          number,
          holder,           \* of the mutex: 0, 1, or 2
          at,               \* of thrfork.c: what each thread does next
          lock              \* lock[process][k]: the thread that holds lock k there

------------------------------------------------------------------------------
(***************************************************************************)
(* rwlock.c: two threads read-lock, try for more, and one of them may end  *)
(* with a read lock that only main gives back.                             *)
(***************************************************************************)

rwVars == <<main, thr1, thr2, readers, writer, misused>>

RwInit == /\ main = "create" /\ thr1 = "unborn" /\ thr2 = "unborn"
          /\ readers = {} /\ writer = 0 /\ misused = FALSE

rwLock == <<readers, writer, misused>>

\* Lines 119-129; main returns if a thread cannot be created, and the process
\* ends with whatever threads it has.
RwCreate ==
  \/ /\ main = "create" /\ main' = "create2" /\ thr1' = "rdlock" /\ UNCHANGED <<thr2, rwLock>>
  \/ /\ main = "create2" /\ main' = "join1" /\ thr2' = "rdlock" /\ UNCHANGED <<thr1, rwLock>>
  \/ /\ main \in {"create", "create2"} /\ main' = "failed" /\ UNCHANGED <<thr1, thr2, rwLock>>

Alive == main # "failed" /\ main # "done"

\* The lock is free for a writer; one's own read lock is in the way as well.
WriteFree(t) == writer = 0 /\ readers = {}

\* pthread_rwlock_unlock(): what the thread has, or what is left of it.
Unlock(t) ==
  /\ IF writer = t THEN writer' = 0 /\ UNCHANGED readers
                   ELSE readers' = readers \ {t} /\ UNCHANGED writer
  /\ misused' = (misused \/ (writer # t /\ t \notin readers))

RwGo1(from, to) == Alive /\ thr1 = from /\ thr1' = to /\ UNCHANGED <<main, thr2>>
RwGo2(from, to) == Alive /\ thr2 = from /\ thr2' = to /\ UNCHANGED <<main, thr1>>

ReadLock1 == /\ RwGo1("rdlock", "trywrlock") /\ writer = 0
             /\ readers' = readers \cup {1} /\ UNCHANGED <<writer, misused>>

TryWriteLock == /\ RwGo1("trywrlock", "unlock")
                /\ IF WriteFree(1) THEN writer' = 1 ELSE UNCHANGED writer
                /\ UNCHANGED <<readers, misused>>

RwUnlock1 == RwGo1("unlock", "tryrdlock") /\ Unlock(1)

\* Line 28.  It fails while thread 2 writes; a lock that prefers writers also
\* lets it fail while thread 2 waits.
TryReadLock ==
  /\ RwGo1("tryrdlock", "exit")
  /\ \/ writer = 0 /\ readers' = readers \cup {1}
     \/ (writer # 0 \/ thr2 = "wrlock") /\ UNCHANGED readers
  /\ UNCHANGED <<writer, misused>>

Exit1 == RwGo1("exit", "ended") /\ UNCHANGED rwLock

ReadLock2 == /\ RwGo2("rdlock", "unlock") /\ writer = 0
             /\ readers' = readers \cup {2} /\ UNCHANGED <<writer, misused>>

RwUnlock2 == RwGo2("unlock", "wrlock") /\ Unlock(2)

\* Mutant: a writer does not wait for readers.
WriteLock_AmongReaders == /\ RwGo2("wrlock", "unlock2") /\ writer = 0
                          /\ writer' = 2 /\ UNCHANGED <<readers, misused>>

WriteLock == /\ RwGo2("wrlock", "unlock2") /\ WriteFree(2)
             /\ writer' = 2 /\ UNCHANGED <<readers, misused>>

\* Mutant: thread 2 leaves with the write lock.
UnlockWriter_Skipped == RwGo2("unlock2", "exit") /\ UNCHANGED rwLock

UnlockWriter == RwGo2("unlock2", "exit") /\ Unlock(2)

Exit2 == RwGo2("exit", "ended") /\ UNCHANGED rwLock

\* Lines 131-132.
RwJoin == \/ /\ main = "join1" /\ thr1 = "ended" /\ main' = "join2"
             /\ UNCHANGED <<thr1, thr2, rwLock>>
          \/ /\ main = "join2" /\ thr2 = "ended" /\ main' = "unlock"
             /\ UNCHANGED <<thr1, thr2, rwLock>>

\* Line 134: main has no lock; what thread 1 may have left is given back, and
\* otherwise the lock is not in a defined state any more.
MainUnlock == /\ main = "unlock" /\ main' = "destroy"
              /\ IF readers # {} THEN readers' = {} /\ UNCHANGED misused
                                 ELSE misused' = TRUE /\ UNCHANGED readers
              /\ UNCHANGED <<thr1, thr2, writer>>

\* Lines 135-141.
RwDestroy == /\ main = "destroy" /\ main' = "done" /\ UNCHANGED <<thr1, thr2, rwLock>>

RwMain    == RwCreate \/ RwJoin \/ MainUnlock \/ RwDestroy
RwThread1 == ReadLock1 \/ TryWriteLock \/ RwUnlock1 \/ TryReadLock \/ Exit1
RwThread2 == ReadLock2 \/ RwUnlock2 \/ WriteLock \/ UnlockWriter \/ Exit2

RwNext == RwMain \/ RwThread1 \/ RwThread2

RwSpec == RwInit /\ [][RwNext]_rwVars

RwFairSpec == RwSpec /\ WF_rwVars(RwMain) /\ WF_rwVars(RwThread1) /\ WF_rwVars(RwThread2)

(* What must hold *)

RwTypeOK ==
  /\ main \in {"create", "create2", "join1", "join2", "unlock", "destroy", "failed", "done"}
  /\ thr1 \in {"unborn", "rdlock", "trywrlock", "unlock", "tryrdlock", "exit", "ended"}
  /\ thr2 \in {"unborn", "rdlock", "unlock", "wrlock", "unlock2", "exit", "ended"}
  /\ readers \subseteq {1, 2} /\ writer \in 0..2 /\ misused \in BOOLEAN

\* Lines 58-69: a writer is alone, and each thread has in its lines 18-24, 44
\* and 53 the lock that the next unlock gives back.
EachHasWhatItUnlocks ==
  /\ writer # 0 => readers = {}
  /\ thr1 \in {"trywrlock", "unlock"} => 1 \in readers
  /\ thr2 = "unlock" => 2 \in readers
  /\ thr2 = "unlock2" => writer = 2

\* Nobody unlocks a lock that nobody has, except main at line 134, which is
\* right only if thread 1 has ended with the read lock of line 28.
OnlyMainMisuses ==
  /\ misused => main \in {"destroy", "done"}
  /\ main = "unlock" => writer = 0 /\ readers \subseteq {1}

\* The program ends, or thread 2 waits for ever for the write lock, because
\* thread 1 has ended with the read lock that main would give back.
EndsUnlessLeft == \/ <>~Alive
                  \/ <>[](thr1 = "ended" /\ thr2 = "wrlock" /\ readers = {1})

------------------------------------------------------------------------------
(***************************************************************************)
(* mutex.c: thread 1 writes number without the mutex and then with it,     *)
(* thread 2 only with it.                                                  *)
(***************************************************************************)

mutexVars == <<main, thr1, thr2, i1, i2, number, holder>>

MutexInit == /\ main = "create1" /\ thr1 = "unborn" /\ thr2 = "unborn"
             /\ i1 = 0 /\ i2 = 20 /\ number = 0 /\ holder = 0

Running == main \notin {"failed", "done"}

\* Lines 135-145; a thread that cannot be created ends the process.
MutexCreate ==
  /\ \/ main = "create1" /\ main' = "create2" /\ thr1' = "write" /\ UNCHANGED thr2
     \/ main = "create2" /\ main' = "join1" /\ thr2' = "lock" /\ UNCHANGED thr1
     \/ main \in {"create1", "create2"} /\ main' = "failed" /\ UNCHANGED <<thr1, thr2>>
  /\ UNCHANGED <<i1, i2, number, holder>>

MutexGo1(from, to) == Running /\ thr1 = from /\ thr1' = to /\ UNCHANGED <<main, thr2, i2>>
MutexGo2(from, to) == Running /\ thr2 = from /\ thr2' = to /\ UNCHANGED <<main, thr1, i1>>

\* number = i, in the loop of lines 24-29 and in that of lines 38-43.
Write1 == /\ MutexGo1("write", "show") /\ number' = i1 /\ UNCHANGED <<i1, holder>>

\* The end of an iteration; after the first loop comes the mutex, after the
\* second its release.
Show1 == /\ MutexGo1("show", CASE i1 = 2 -> "lock" [] i1 = 12 -> "unlock" [] OTHER -> "write")
         /\ i1' = (IF i1 = 2 THEN 10 ELSE IF i1 = 12 THEN 12 ELSE i1 + 1)
         /\ UNCHANGED <<number, holder>>

\* Mutant: line 36 is missing.
Lock1_None == MutexGo1("lock", "write") /\ UNCHANGED <<i1, number, holder>>

Lock1   == MutexGo1("lock", "write") /\ holder = 0 /\ holder' = 1 /\ UNCHANGED <<i1, number>>

\* Mutant: an early return between lines 38 and 44.
Unlock1_Returns == MutexGo1("unlock", "ended") /\ UNCHANGED <<i1, number, holder>>

MutexUnlock1 == MutexGo1("unlock", "ended") /\ holder' = 0 /\ UNCHANGED <<i1, number>>

Lock2   == MutexGo2("lock", "write") /\ holder = 0 /\ holder' = 2 /\ UNCHANGED <<i2, number>>
Write2  == MutexGo2("write", "show") /\ number' = i2 /\ UNCHANGED <<i2, holder>>
Show2   == /\ MutexGo2("show", IF i2 = 24 THEN "unlock" ELSE "write")
           /\ i2' = (IF i2 = 24 THEN 24 ELSE i2 + 1)
           /\ UNCHANGED <<number, holder>>
MutexUnlock2 == MutexGo2("unlock", "ended") /\ holder' = 0 /\ UNCHANGED <<i2, number>>

\* Mutant: main joins thread 1 only.
Join_First == /\ main = "join1" /\ thr1 = "ended" /\ main' = "destroy"
              /\ UNCHANGED <<thr1, thr2, i1, i2, number, holder>>

\* Lines 152-162.
MutexJoin == /\ \/ main = "join1" /\ thr1 = "ended" /\ main' = "join2"
                \/ main = "join2" /\ thr2 = "ended" /\ main' = "destroy"
             /\ UNCHANGED <<thr1, thr2, i1, i2, number, holder>>

MutexDestroy == /\ main = "destroy" /\ main' = "done"
                /\ UNCHANGED <<thr1, thr2, i1, i2, number, holder>>

MutexMain    == MutexCreate \/ MutexJoin \/ MutexDestroy
MutexThread1 == Write1 \/ Show1 \/ Lock1 \/ MutexUnlock1
MutexThread2 == Lock2 \/ Write2 \/ Show2 \/ MutexUnlock2

MutexNext == MutexMain \/ MutexThread1 \/ MutexThread2

MutexSpec == MutexInit /\ [][MutexNext]_mutexVars

MutexFairSpec == /\ MutexSpec /\ WF_mutexVars(MutexMain)
                 /\ WF_mutexVars(MutexThread1) /\ WF_mutexVars(MutexThread2)

(* What must hold *)

MutexTypeOK == /\ main \in {"create1", "create2", "join1", "join2", "destroy", "failed", "done"}
               /\ thr1 \in {"unborn", "write", "show", "lock", "unlock", "ended"}
               /\ thr2 \in {"unborn", "write", "show", "lock", "unlock", "ended"}
               /\ i1 \in 0..2 \cup 10..12 /\ i2 \in 20..24
               /\ number \in 0..2 \cup 10..12 \cup 20..24 /\ holder \in 0..2

\* Lines 14-22, 33-35 and 54-61: with the mutex a thread finds number as it has
\* left it, both times it prints it; thread 2 cannot rely on that before
\* thread 1 is done with the loop in which it does not take the mutex.
UndisturbedWithMutex ==
  /\ thr1 = "show" /\ i1 >= 10 => number = i1
  /\ thr2 = "show" /\ (i1 >= 10 \/ thr1 = "unborn") => number \in {i2, 2}
  /\ thr1 \in {"write", "show", "unlock"} /\ i1 >= 10 => holder = 1
  /\ thr2 \in {"write", "show", "unlock"} => holder = 2

\* Lines 147-168: the mutex is free when main destroys it.
DestroyedFree == main \in {"destroy", "done"} => holder = 0 /\ thr1 = "ended" /\ thr2 = "ended"

Ends == <>~Running
------------------------------------------------------------------------------
(***************************************************************************)
(* thrfork.c: thread 2 takes lock1 while main forks with pthread_atfork()  *)
(* handlers that take both locks before the fork and release them after    *)
(* it, in both processes.  The child has a copy of the locks and of main   *)
(* only.                                                                   *)
(***************************************************************************)

ForkThreads == {"main", "thread2", "thread1", "child"}   \* child: main's copy
Locks   == {1, 2}
Free    == "free"

ForkInit ==
  /\ at = [t \in ForkThreads |-> IF t = "main" THEN "create2" ELSE "none"]
  /\ lock = [proc \in {"parent", "child"} |-> [k \in Locks |-> Free]]

At(t, lbl)  == at[t] = lbl
Goto(t, to) == at' = [at EXCEPT ![t] = to]

\* Return from main() ends the threads of the parent.
EndParent == at' = [t \in ForkThreads |-> IF t = "child" THEN at[t] ELSE "gone"]

Acquire(t, k)    == lock["parent"][k] = Free /\ lock' = [lock EXCEPT !["parent"][k] = t]
Release(proc, k) == lock' = [lock EXCEPT ![proc][k] = Free]

\* main() up to the fork.

\* The result of this pthread_create() is not looked at; sleep(1) orders
\* nothing.
Create2 ==
  /\ At("main", "create2")
  /\ \/ at' = [at EXCEPT !["main"] = "atfork", !["thread2"] = "lock"]
     \/ Goto("main", "atfork")
  /\ UNCHANGED lock

AtFork ==
  /\ At("main", "atfork")
  /\ Goto("main", "create1") \/ EndParent
  /\ UNCHANGED lock

Create1 ==
  /\ At("main", "create1")
  /\ \/ at' = [at EXCEPT !["main"] = "prepare1", !["thread1"] = "start"]
     \/ EndParent
  /\ UNCHANGED lock

\* Mutant: prepare() does not take lock1.
Prepare1_Skipped ==
  /\ At("main", "prepare1")
  /\ Goto("main", "prepare2")
  /\ UNCHANGED lock

\* prepare(): lock1, then lock2.
Prepare1 ==
  /\ At("main", "prepare1")
  /\ Acquire("main", 1)
  /\ Goto("main", "prepare2")

Prepare2 ==
  /\ At("main", "prepare2")
  /\ Acquire("main", 2)
  /\ Goto("main", "fork")

\* The child's only thread is a copy of main and so holds what main holds;
\* when fork() fails parent() runs all the same and main returns 1.
Fork ==
  /\ At("main", "fork")
  /\ \/ /\ at' = [at EXCEPT !["main"] = "parent1", !["child"] = "child1"]
        /\ lock' = [lock EXCEPT !["child"] = lock["parent"]]
     \/ Goto("main", "parent1") /\ UNCHANGED lock

\* Mutant: parent() releases lock2 first, and twice.
Parent1_Swapped == At("main", "parent1") /\ Goto("main", "parent2") /\ Release("parent", 2)

Parent1 == At("main", "parent1") /\ Goto("main", "parent2") /\ Release("parent", 1)
Parent2 == At("main", "parent2") /\ Goto("main", "return") /\ Release("parent", 2)
ForkReturn == At("main", "return") /\ EndParent /\ UNCHANGED lock

\* child(), and its return from main().
Child1 == At("child", "child1") /\ Goto("child", "child2") /\ Release("child", 1)

Child2      == At("child", "child2") /\ Goto("child", "return") /\ Release("child", 2)
ChildReturn == At("child", "return") /\ Goto("child", "gone") /\ UNCHANGED lock

\* thr_rtn() stays in pause(); thr_rtn2().

ForkThread1 == At("thread1", "start") /\ Goto("thread1", "pause") /\ UNCHANGED lock

Thread2Lock == At("thread2", "lock") /\ Acquire("thread2", 1) /\ Goto("thread2", "sleep")

\* Mutant: thread 2 returns with the lock.
Thread2Unlock_Returns == At("thread2", "sleep") /\ Goto("thread2", "done") /\ UNCHANGED lock

Thread2Unlock == At("thread2", "sleep") /\ Release("parent", 1) /\ Goto("thread2", "done")

ForkMain    == \/ Create2 \/ AtFork \/ Create1 \/ Prepare1 \/ Prepare2 \/ Fork
               \/ Parent1 \/ Parent2 \/ ForkReturn
ForkChild   == Child1 \/ Child2 \/ ChildReturn
ForkThread2 == Thread2Lock \/ Thread2Unlock

ForkNext == ForkMain \/ ForkChild \/ ForkThread1 \/ ForkThread2

(* What must hold *)

ForkTypeOK ==
  /\ at \in [ForkThreads -> {"none", "create2", "atfork", "create1", "prepare1", "prepare2", "fork",
                             "parent1", "parent2", "child1", "child2", "return", "start", "pause", "lock",
                             "sleep", "done", "gone"}]
  /\ lock \in [{"parent", "child"} -> [Locks -> {Free, "main", "thread2"}]]

\* Lines 119-128: the child never has a lock of a thread that was not copied,
\* and is rid of them all when its fork() returns.
NoOrphanLock == /\ \A k \in Locks : lock["child"][k] # "thread2"
                /\ At("child", "return") => \A k \in Locks : lock["child"][k] = Free

\* The handlers unlock what prepare() locked: unlocking the mutex of another
\* thread is undefined.
HandlersUnlockOwn ==
  /\ \A k \in Locks : At("main", IF k = 1 THEN "parent1" ELSE "parent2") => lock["parent"][k] = "main"
  /\ \A k \in Locks : At("child", IF k = 1 THEN "child1" ELSE "child2") => lock["child"][k] = "main"

\* Neither fork() nor the child ever waits for ever for a lock.
ForkEnds == <>[](at["main"] = "gone" /\ at["child"] \in {"none", "gone"})
==============================================================================
