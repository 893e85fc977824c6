----------------------------- MODULE FilePrograms -----------------------------
(***************************************************************************)
(* Programs whose processes share a file, a terminal or a lock, one at a   *)
(* time and most of them launched several times: filelock.c, implyIR.c,    *)
(* lockEOF.c, mandlock.c, nonblock.c, select.c, rdwrv.c and mmap.c of      *)
(* 14-advanio, semaph.c of 15-ipc, dup2.c of 3-fileio and the pseudo       *)
(* terminals of 19-pseudo.                                                 *)
(***************************************************************************)
EXTENDS Integers, FiniteSets

CONSTANTS Launches,        \* runs of the program
          NoOne,
          MaxBytes, Space, \* bounds of FileIo
          MaxTable, Files,
          Ptys, Sizes

\* A process is a run and "parent" or "child", and NoOne is neither that nor a
\* run; the numbers of new pseudo terminals are not the names of BSD.
ASSUME FileAssumption ==
  /\ NoOne \notin Launches \cup (Launches \X {"parent", "child"})
  /\ MaxBytes \in Nat /\ Space \in Nat /\ MaxTable \in Nat \ {0}
  /\ "closed" \notin Files /\ Ptys \subseteq Nat \ {100, 101} /\ Sizes \subseteq Nat

VARIABLES prog,               \* the program that runs
          pc,                 \* of every program that locks, and of semaph.c
          locks, waits,       \* of the programs that lock a file
          off, size, cut, got,\* of lockEOF.c
          text, holder,       \* of mandlock.c
          id, sem, val, undo, made, reset, \* of semaph.c
          run, nonblock, flags, todo, total, stream, taken, \* of nonblock.c
          sel, rset, input,   \* of select.c
          vec, long, pieces,  \* of rdwrv.c
          map, same, infile, outfile, statsize, altered, \* of mmap.c
          table, limit, before, args, fd, result,        \* of dup2.c
          how, room, step, search, master, slave, pname, ret, locked, typed \* of 19-pseudo

R == INSTANCE LockRules
S == INSTANCE Semaphore
A == INSTANCE FileIo WITH Copies <- Launches, Openers <- Launches, val <- flags, size <- long

lockVars == <<locks, waits>>
eofVars  == <<off, size, cut, got>>
mandVars == <<text, holder>>
semVars  == <<id, sem, val, undo, made, reset>>
nonblockVars == <<run, nonblock, flags, todo, total, stream, taken>>
selectVars   == <<sel, rset, input>>
vecVars      == <<vec, long, pieces>>
mapVars      == <<map, same, infile, outfile, statsize, altered>>
dupVars      == <<table, limit, before, args, fd, result>>
ptyVars      == <<how, room, step, search, master, slave, pname, ret, locked, typed>>
ioVars == <<nonblockVars, selectVars, vecVars, mapVars, dupVars, ptyVars>>
vars == <<prog, pc, lockVars, eofVars, mandVars, semVars, ioVars>>

\* What a program does not have keeps its first value.
NoLocks == locks = <<>> /\ waits = <<>>
NoEof   == off = <<>> /\ size = 0 /\ cut = {} /\ got = <<>>
NoMand  == text = 0 /\ holder = NoOne
NoSem   == id = <<>> /\ sem = 0 /\ val = 0 /\ undo = <<>> /\ made = 0 /\ reset = {}
NoVec   == vec = "writev" /\ long = 0 /\ pieces = <<>>
NoMap   == /\ map = "open" /\ same = FALSE /\ infile = 0 /\ outfile = <<>>
           /\ statsize = 0 /\ altered = FALSE
NoDup   == /\ table = [d \in A!Fds |-> A!Closed] /\ limit = 1 /\ before = table
           /\ args = <<>> /\ fd = <<>> /\ result = 0
NoPty   == /\ how = <<>> /\ room = <<>> /\ step = <<>> /\ search = <<>> /\ master = <<>>
           /\ slave = <<>> /\ pname = <<>> /\ ret = [l \in Launches |-> "none"]
           /\ locked = {} /\ typed = <<>>

Init ==
  /\ prog \in {"filelock", "implyIR", "lockEOF", "mandlock", "semaph", "nonblock", "select",
               "rdwrv", "mmap", "dup2", "pty"}
  /\ CASE prog = "filelock" -> R!FileLockInit /\ NoEof /\ NoMand /\ NoSem
       [] prog = "implyIR"  -> R!ImplyInit /\ NoEof /\ NoMand /\ NoSem
       [] prog = "lockEOF"  -> R!EofInit /\ NoMand /\ NoSem
       [] prog = "mandlock" -> R!MandInit /\ NoLocks /\ NoEof /\ NoSem
       [] prog = "semaph"   -> S!Init /\ NoLocks /\ NoEof /\ NoMand
       [] OTHER             -> pc = [p \in R!Procs |-> "unborn"] /\ NoLocks /\ NoEof /\ NoMand /\ NoSem
  /\ A!NonblockInit /\ A!SelectInit
  /\ IF prog = "rdwrv" THEN A!VecInit ELSE NoVec
  /\ IF prog = "mmap" THEN A!MapInit ELSE NoMap
  /\ IF prog = "dup2" THEN A!DupInit ELSE NoDup
  /\ IF prog = "pty" THEN A!PtyInit ELSE NoPty

\* The programs with processes that lock or wait, and those that do not.
InFileLock(Step)  == prog = "filelock" /\ Step /\ UNCHANGED <<prog, eofVars, mandVars, semVars, ioVars>>
InImplyLock(Step) == prog = "implyIR" /\ Step /\ UNCHANGED <<prog, eofVars, mandVars, semVars, ioVars>>
InEofLock(Step)   == prog = "lockEOF" /\ Step /\ UNCHANGED <<prog, mandVars, semVars, ioVars>>
InMandLock(Step)  == prog = "mandlock" /\ Step /\ UNCHANGED <<prog, lockVars, eofVars, semVars, ioVars>>
InSem(Step)       == prog = "semaph" /\ Step /\ UNCHANGED <<prog, lockVars, eofVars, mandVars, ioVars>>
InIo(Step)        == Step /\ UNCHANGED <<prog, pc, lockVars, eofVars, mandVars, semVars>>

InNonblock(Step) == /\ prog = "nonblock" /\ InIo(Step)
                    /\ UNCHANGED <<selectVars, vecVars, mapVars, dupVars, ptyVars>>
InSelect(Step)   == /\ prog = "select" /\ InIo(Step)
                    /\ UNCHANGED <<nonblockVars, vecVars, mapVars, dupVars, ptyVars>>
InVec(Step)      == /\ prog = "rdwrv" /\ InIo(Step)
                    /\ UNCHANGED <<nonblockVars, selectVars, mapVars, dupVars, ptyVars>>
InMap(Step)      == /\ prog = "mmap" /\ InIo(Step)
                    /\ UNCHANGED <<nonblockVars, selectVars, vecVars, dupVars, ptyVars>>
InDup(Step)      == /\ prog = "dup2" /\ InIo(Step)
                    /\ UNCHANGED <<nonblockVars, selectVars, vecVars, mapVars, ptyVars>>
InPty(Step)      == /\ prog = "pty" /\ InIo(Step)
                    /\ UNCHANGED <<nonblockVars, selectVars, vecVars, mapVars, dupVars>>

Next == \/ InFileLock(R!FileLockNext) \/ InImplyLock(R!ImplyNext) \/ InEofLock(R!EofNext)
        \/ InMandLock(R!MandNext) \/ InSem(S!Next)
        \/ InNonblock(A!NonblockNext) \/ InSelect(A!SelectNext) \/ InVec(A!VecNext)
        \/ InMap(A!MapNext) \/ InDup(A!DupNext) \/ InPty(A!PtyNext)

\* What a parent and what a child does by itself.
ParentStep(l) == InFileLock(R!FileLockProcess(R!Parent(l))) \/ InImplyLock(R!ParentStep(l)) \/ InSem(S!Launch(l))
ChildStep(l)  == InFileLock(R!FileLockProcess(R!Child(l))) \/ InImplyLock(R!ChildStep(l))

Spec == Init /\ [][Next]_vars

\* Processes are scheduled, and a semop() that can go on again and again does;
\* somebody reads the pipe of nonblock.c.  Nobody has to be killed.
FairSpec == /\ Spec
            /\ \A l \in Launches : WF_vars(ParentStep(l)) /\ WF_vars(ChildStep(l))
            /\ \A p \in S!Procs : SF_vars(InSem(S!Process(p)))
            /\ WF_vars(InNonblock(A!Drain))
            /\ \A l \in Launches : WF_vars(InNonblock(A!Copy(l))) /\ WF_vars(InPty(A!Open(l)))

------------------------------------------------------------------------------
(* What must hold, program by program *)

TypeOK == CASE prog = "filelock" -> R!FileLockTypeOK
            [] prog = "implyIR"  -> R!ImplyTypeOK
            [] prog = "lockEOF"  -> R!EofTypeOK
            [] prog = "mandlock" -> R!MandTypeOK
            [] prog = "semaph"   -> S!TypeOK
            [] prog = "nonblock" -> A!NonblockTypeOK
            [] prog = "select"   -> A!SelectTypeOK
            [] prog = "rdwrv"    -> A!VecTypeOK
            [] prog = "mmap"     -> A!MapTypeOK
            [] prog = "dup2"     -> A!DupTypeOK
            [] prog = "pty"      -> A!PtyTypeOK

\* filelock.c, lines 21-29: whoever has passed lockabyte() twice has both bytes,
\* alone.  implyIR.c, lines 29-50: a parent between its lock and its close() has
\* the read lock, and after the close() it is in nobody's way.  lockEOF.c, lines
\* 28-40 and 73-96: the byte written between lock and unlock stays locked and no
\* other.  mandlock.c, lines 81-126: one run at a time goes on, and its child
\* misses the text only when another run has just emptied the file.  semaph.c,
\* lines 71-81 and 100-134: one process at a time is between its two semop()
\* calls unless another run sets or removes the semaphore, and SEM_UNDO loses no
\* unit and makes none, whoever died.
LocksExclude ==
  /\ prog = "filelock" => R!BothAlone
  /\ prog = "implyIR" => R!ReaderUndisturbed /\ R!NothingAfterClose
  /\ prog = "lockEOF" => R!FirstByteStays /\ R!ChildRefused
  /\ prog = "mandlock" => R!OneRunForks /\ R!TextForCause
  /\ prog = "semaph" => S!TakeTurns /\ S!UnitsConserved

\* nonblock.c, lines 8-40 and 97-104: whoever ends has written all it read, in
\* order, and standard output blocks again although all runs share its flags.
\* rdwrv.c, lines 81-96, and mmap.c, lines 123-156: what was read is what is
\* written, no more and no less.  ptym_open.c, lines 126-157: a ptym_open() that
\* fails keeps no master, and who has room for the name gets its own slave.
OutputIsInput ==
  /\ prog = "nonblock" => A!BlocksAgain /\ A!AllInOrder
  /\ prog = "rdwrv" => A!PiecesAreWhatWasRead
  /\ prog = "mmap" => A!CopiedWhole
  /\ prog = "pty" => A!FailedKeepsNothing /\ A!SlaveOfMaster /\ A!SearchGivesUpLast

\* No run of a program that locks or copies disturbs the files of another.
FilesKept == LocksExclude /\ OutputIsInput

\* filelock.c, lines 65-75: EDEADLK comes only when it releases a process that
\* sleeps for a lock of the victim.  implyIR.c, lines 86-90: the child gets its
\* lock only when no parent reads.  lockEOF.c, lines 128-147: apart from the
\* first byte a parent is never in the way of its child, and 'c' is appended.
\* semaph.c, lines 79-81: semop() fails only for a run whose semaphore another
\* run has removed.  select.c, lines 136-152: input that is there is seen by the
\* second call.  4-bsd-based: only a master in use is passed over.  dup2.c, lines
\* 6-9 and 48-53: what a successful dup2_l() has changed is what dup2() changes,
\* and one that fails after its first dup() leaves one descriptor.
GrantedForCause == [][/\ prog = "filelock" => R!VictimReleasesWaiter
                      /\ prog = "implyIR" => R!ChildAfterClose
                      /\ prog = "lockEOF" => R!ChildGetsLater /\ R!AppendsAtEnd
                      /\ prog = "semaph" => S!FailsOnlyIfRemoved
                      /\ prog = "select" => A!InputSeen
                      /\ prog = "pty" => A!PassesOverBusy
                      /\ prog = "dup2" => A!SameAsDup2 /\ A!FailureLeavesOne]_vars

\* The processes that must come to an end, a run having two at most, and their end.
MustEnd(p) == \/ prog = "filelock" /\ pc[p] = "first"
              \/ prog = "implyIR" /\ pc[p] = "writew"
              \/ prog = "semaph" /\ pc[p] \in {"fork", "take"}
              \/ prog \in {"nonblock", "pty"}

HasEnded(p) == CASE prog = "filelock" -> pc[p] \in R!FileLockEnded
                 [] prog = "implyIR"  -> pc[p] \in R!ImplyEnded
                 [] prog = "semaph"   -> pc[p] \in S!Ended
                 [] prog = "nonblock" -> run[p[1]] \in A!Ended
                 [] prog = "pty"      -> ret[p[1]] # "busy"
                 [] OTHER -> TRUE

\* filelock.c, lines 55-75: the opposite orders keep nobody waiting for ever;
\* the child of implyIR.c gets its lock although fd1 stays open; nobody waits in
\* semaph.c, whoever is killed or removes the semaphore; nonblock.c ends as long
\* as the pipe is read, and every read of openpt.c gets a line.
\* (prog never changes: one formula says it of each program.)
NobodyWaitsForever == \A p \in R!Procs : MustEnd(p) ~> HasEnded(p)
==============================================================================
