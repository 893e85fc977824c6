------------------------- MODULE SingleInstanceProofs -------------------------
(***************************************************************************)
(* Proofs about SingleInstance for any set of launches and any limits.     *)
(***************************************************************************)
EXTENDS SingleInstance, FiniteSetTheorems, TLAPS

BeforeFork1 == {"none", "start", "fork1"}
BeforeFork2 == {"none", "setsid", "sigaction", "fork2"}
Inside      == {"truncate", "write", "check", "daemon"}

\* A process is forked once: what a generation has not reached, the next one
\* has not begun.
Generations ==
  \A l \in Launches :
    /\ pc[<<l, 1>>] \in BeforeFork1 => pc[<<l, 2>>] = "none"
    /\ pc[<<l, 2>>] \in BeforeFork2 => pc[<<l, 3>>] = "none"

\* The lock is never held by a process that is not between lock and exit.
OwnerRuns == owner # NoProc => owner \in Running

IInv == TypeOK /\ Generations /\ OneDaemon /\ OwnerRuns /\ PidFileNamesDaemon

DaemonStep == \/ \E l \in Launches : Plain(D!Launch(l))
              \/ \E p \in Procs :
                   \/ Plain(D!Start(p)) \/ Plain(D!Fork1(p)) \/ Plain(D!Setsid(p))
                   \/ Plain(D!IgnoreHup(p)) \/ Plain(D!Fork2(p)) \/ Plain(D!CloseAll(p))
                   \/ Plain(D!OpenNull(p, "openlock"))
                   \/ Plain(D!CheckFds(p)) \/ Plain(D!OpenTty(p))
                   \/ pc[p] # "refused" /\ Plain(D!Exit(p))
              \/ \E s \in D!Sessions : Plain(D!Hangup(s))

LEMMA ProcForm ==
  ASSUME NEW p \in Procs
  PROVE  /\ p[1] \in Launches
         /\ p \in {<<p[1], 1>>, <<p[1], 2>>, <<p[1], 3>>}
         /\ p # Absent /\ p # Empty /\ p # NoProc
BY SingleInstanceAssumption DEF Procs, D!Procs, Absent, Empty

LEMMA ExceptType ==
  ASSUME NEW A, NEW B, NEW f \in [A -> B], NEW a \in A, NEW b \in B
  PROVE  [f EXCEPT ![a] = b] \in [A -> B]
OBVIOUS

LEMMA InitIInv == Init => IInv
BY SingleInstanceAssumption
DEF Init, IInv, TypeOK, Generations, OneDaemon, OwnerRuns, PidFileNamesDaemon, Running,
    D!Init, D!Dead, D!Targets, D!Procs, Procs, LauncherSteps, LeaderSteps, DaemonSteps

\* What a step outside already_running() does to the processes.
Calm ==
  /\ pc' \in [Procs -> D!Dead \cup LauncherSteps \cup LeaderSteps \cup DaemonSteps]
  /\ \A l \in Launches : /\ pc'[<<l, 1>>] \in D!Dead \cup LauncherSteps
                         /\ pc'[<<l, 2>>] \in D!Dead \cup LeaderSteps
                         /\ pc'[<<l, 3>>] \in D!Dead \cup DaemonSteps
  /\ fds' \in [Procs -> [D!Fd -> D!Targets]]
  /\ Generations'
  /\ \A p \in Running' : p \in Running
  /\ \A p \in Running : p \in Running' \/ pc'[p] = "gone"
  /\ \A p \in Procs : pc'[p] \in {"check", "daemon"} => pc[p] \in {"check", "daemon"}
  /\ \A p \in Procs : pc'[p] = "refused" => pc[p] = "refused"

\* Distinct launches and generations are distinct processes.
LEMMA Pairs ==
  ASSUME NEW l \in Launches, NEW m \in Launches, NEW g \in {1, 2, 3}, NEW h \in {1, 2, 3}
  PROVE  <<l, g>> \in Procs /\ (<<l, g>> = <<m, h>> => l = m /\ g = h)
BY DEF Procs, D!Procs

\* The process of generation g of launch l goes on to a step that disturbs
\* neither its generation nor the lock, or is gone.
Moves(l, g, to) ==
  /\ pc' = [pc EXCEPT ![<<l, g>>] = to]
  /\ g = 1 => /\ to \in D!Dead \cup LauncherSteps
              /\ to \in BeforeFork1 => pc[<<l, 1>>] \in BeforeFork1
  /\ g = 2 => /\ to \in D!Dead \cup LeaderSteps
              /\ to \in BeforeFork2 => pc[<<l, 2>>] \in BeforeFork2
  /\ g = 3 => to \in D!Dead \cup DaemonSteps
  /\ g # 1 => pc[<<l, g>>] # "none"
  /\ to \in Inside => pc[<<l, g>>] \in Inside
  /\ pc[<<l, g>>] \in Inside => to \in Inside \cup {"gone"}
  /\ to \in {"check", "daemon"} => pc[<<l, g>>] \in {"check", "daemon"}
  /\ to # "refused"

LEMMA CalmMove ==
  ASSUME IInv, NEW l \in Launches, NEW g \in {1, 2, 3}, NEW to, Moves(l, g, to),
         fds' \in [Procs -> [D!Fd -> D!Targets]]
  PROVE  Calm
<1> DEFINE p == <<l, g>>
<1> USE DEF Moves
<1>1. p \in Procs
  BY Pairs
<1>2. \A q \in Procs : pc'[q] = IF q = p THEN to ELSE pc[q]
  BY <1>1 DEF IInv, TypeOK
<1>3. Generations'
  <2> SUFFICES ASSUME NEW m \in Launches
               PROVE  /\ pc'[<<m, 1>>] \in BeforeFork1 => pc'[<<m, 2>>] = "none"
                      /\ pc'[<<m, 2>>] \in BeforeFork2 => pc'[<<m, 3>>] = "none"
    BY DEF Generations
  <2>1. CASE m = l
    BY <2>1, <1>2, Pairs DEF IInv, Generations, BeforeFork2
  <2>2. CASE m # l
    BY <2>2, <1>2, Pairs DEF IInv, Generations
  <2> QED
    BY <2>1, <2>2
<1>4. pc' \in [Procs -> D!Dead \cup LauncherSteps \cup LeaderSteps \cup DaemonSteps]
  BY <1>1 DEF IInv, TypeOK
<1>5. \A m \in Launches : /\ pc'[<<m, 1>>] \in D!Dead \cup LauncherSteps
                          /\ pc'[<<m, 2>>] \in D!Dead \cup LeaderSteps
                          /\ pc'[<<m, 3>>] \in D!Dead \cup DaemonSteps
  <2> TAKE m \in Launches
  <2> QED BY <1>1, <1>2, Pairs DEF IInv, TypeOK
<1>6. QED
  BY <1>1, <1>2, <1>3, <1>4, <1>5 DEF IInv, TypeOK, Calm, Running, Inside

LEMMA CalmFork1 ==
  ASSUME IInv, NEW p \in Procs, D!Fork1(p)
  PROVE  Calm
<1>1. PICK l \in Launches : p = <<l, 1>>
  BY ProcForm DEF IInv, TypeOK, LeaderSteps, DaemonSteps, D!Fork1, D!At, D!Dead
<1> DEFINE c == <<l, 2>>
<1>2. D!ChildOf(p) = c /\ c \in Procs
  <2>1. p[1] = l /\ p[2] + 1 = 2
    BY <1>1
  <2>2. c \in Procs
    BY Pairs
  <2> QED
    BY <2>1, <2>2 DEF D!ChildOf
<1>3. \A q \in Procs : pc'[q] = IF q = c THEN "setsid" ELSE IF q = p THEN "gone" ELSE pc[q]
  BY <1>2 DEF D!Fork1, D!Fork, IInv, TypeOK
<1>4. pc[p] = "fork1" /\ pc[c] = "none" /\ pc[<<l, 3>>] = "none"
  BY <1>1 DEF IInv, Generations, BeforeFork1, BeforeFork2, D!Fork1, D!At
<1>5. fds' \in [Procs -> [D!Fd -> D!Targets]]
  BY <1>2 DEF IInv, TypeOK, D!Fork1, D!Fork
<1>6. pc' \in [Procs -> D!Dead \cup LauncherSteps \cup LeaderSteps \cup DaemonSteps]
  BY <1>2 DEF D!Fork1, D!Fork, IInv, TypeOK, D!Dead, LeaderSteps
<1>7. ASSUME NEW m \in Launches
      PROVE  /\ pc'[<<m, 1>>] \in D!Dead \cup LauncherSteps
             /\ pc'[<<m, 2>>] \in D!Dead \cup LeaderSteps
             /\ pc'[<<m, 3>>] \in D!Dead \cup DaemonSteps
             /\ pc'[<<m, 1>>] \in BeforeFork1 => pc'[<<m, 2>>] = "none"
             /\ pc'[<<m, 2>>] \in BeforeFork2 => pc'[<<m, 3>>] = "none"
  <2>1. CASE m = l
    BY <2>1, <1>1, <1>3, <1>4, Pairs
    DEF D!Dead, LauncherSteps, LeaderSteps, BeforeFork1
  <2>2. CASE m # l
    BY <2>2, <1>1, <1>3, Pairs DEF IInv, TypeOK, Generations
  <2> QED
    BY <2>1, <2>2
<1>8. Generations'
  BY <1>7 DEF Generations
<1>9. \A q \in Procs : /\ pc'[q] \in Inside => pc[q] \in Inside
                       /\ pc[q] \in Inside => pc'[q] \in Inside \cup {"gone"}
                       /\ pc'[q] \in {"check", "daemon"} => pc[q] \in {"check", "daemon"}
                       /\ pc'[q] = "refused" => pc[q] = "refused"
  BY <1>3, <1>4, <1>1 DEF Inside
<1>10. QED
  BY <1>5, <1>6, <1>7, <1>8, <1>9 DEF Calm, Running, Inside

LEMMA CalmFork2 ==
  ASSUME IInv, NEW p \in Procs, D!Fork2(p)
  PROVE  Calm
<1>1. PICK l \in Launches : p = <<l, 2>>
  BY ProcForm DEF IInv, TypeOK, LauncherSteps, DaemonSteps, D!Fork2, D!At, D!Dead
<1> DEFINE c == <<l, 3>>
<1>2. D!ChildOf(p) = c /\ c \in Procs
  <2>1. p[1] = l /\ p[2] + 1 = 3
    BY <1>1
  <2>2. c \in Procs
    BY Pairs
  <2> QED
    BY <2>1, <2>2 DEF D!ChildOf
<1>3. \A q \in Procs : pc'[q] = IF q = c THEN "closeall" ELSE IF q = p THEN "gone" ELSE pc[q]
  BY <1>2 DEF D!Fork2, D!Fork, IInv, TypeOK
<1>4. pc[p] = "fork2" /\ pc[c] = "none" /\ pc[<<l, 1>>] \notin BeforeFork1
  BY <1>1 DEF IInv, Generations, BeforeFork1, BeforeFork2, D!Fork2, D!At
<1>5. fds' \in [Procs -> [D!Fd -> D!Targets]]
  BY <1>2 DEF IInv, TypeOK, D!Fork2, D!Fork
<1>6. pc' \in [Procs -> D!Dead \cup LauncherSteps \cup LeaderSteps \cup DaemonSteps]
  BY <1>2 DEF D!Fork2, D!Fork, IInv, TypeOK, D!Dead, DaemonSteps
<1>7. ASSUME NEW m \in Launches
      PROVE  /\ pc'[<<m, 1>>] \in D!Dead \cup LauncherSteps
             /\ pc'[<<m, 2>>] \in D!Dead \cup LeaderSteps
             /\ pc'[<<m, 3>>] \in D!Dead \cup DaemonSteps
             /\ pc'[<<m, 1>>] \in BeforeFork1 => pc'[<<m, 2>>] = "none"
             /\ pc'[<<m, 2>>] \in BeforeFork2 => pc'[<<m, 3>>] = "none"
  <2>1. CASE m = l
    BY <2>1, <1>1, <1>3, <1>4, Pairs
    DEF D!Dead, DaemonSteps, BeforeFork1, BeforeFork2, IInv, TypeOK
  <2>2. CASE m # l
    BY <2>2, <1>1, <1>3, Pairs DEF IInv, TypeOK, Generations
  <2> QED
    BY <2>1, <2>2
<1>8. Generations'
  BY <1>7 DEF Generations
<1>9. \A q \in Procs : /\ pc'[q] \in Inside => pc[q] \in Inside
                       /\ pc[q] \in Inside => pc'[q] \in Inside \cup {"gone"}
                       /\ pc'[q] \in {"check", "daemon"} => pc[q] \in {"check", "daemon"}
                       /\ pc'[q] = "refused" => pc[q] = "refused"
  BY <1>3, <1>4, <1>1 DEF Inside
<1>10. QED
  BY <1>5, <1>6, <1>7, <1>8, <1>9 DEF Calm, Running, Inside

LEMMA CalmHangup ==
  ASSUME IInv, NEW t \in D!Sessions, D!Hangup(t)
  PROVE  Calm
<1>1. /\ pc' = [q \in Procs |-> IF D!Alive(q) /\ sess[q] = t /\ q \notin ignhup
                                THEN "gone" ELSE pc[q]]
      /\ fds' = fds
  BY DEF D!Hangup, Procs
<1>2. \A q \in Procs : pc'[q] = pc[q] \/ (pc'[q] = "gone" /\ pc[q] \notin D!Dead)
  <2> TAKE q \in Procs
  <2>1. CASE D!Alive(q) /\ sess[q] = t /\ q \notin ignhup
    BY <1>1, <2>1 DEF D!Alive
  <2>2. CASE ~(D!Alive(q) /\ sess[q] = t /\ q \notin ignhup)
    BY <1>1, <2>2
  <2> QED
    BY <2>1, <2>2
<1>3. pc' \in [Procs -> D!Dead \cup LauncherSteps \cup LeaderSteps \cup DaemonSteps]
  BY <1>1 DEF IInv, TypeOK, D!Dead
<1>4. ASSUME NEW m \in Launches
      PROVE  /\ pc'[<<m, 1>>] \in D!Dead \cup LauncherSteps
             /\ pc'[<<m, 2>>] \in D!Dead \cup LeaderSteps
             /\ pc'[<<m, 3>>] \in D!Dead \cup DaemonSteps
             /\ pc'[<<m, 1>>] \in BeforeFork1 => pc'[<<m, 2>>] = "none"
             /\ pc'[<<m, 2>>] \in BeforeFork2 => pc'[<<m, 3>>] = "none"
  <2>1. <<m, 1>> \in Procs /\ <<m, 2>> \in Procs /\ <<m, 3>> \in Procs
    BY Pairs
  <2> QED
    BY <1>2, <2>1 DEF IInv, TypeOK, Generations, D!Dead, BeforeFork1, BeforeFork2
<1>5. Generations'
  BY <1>4 DEF Generations
<1>6. fds' \in [Procs -> [D!Fd -> D!Targets]]
  BY <1>1 DEF IInv, TypeOK
<1>7. \A q \in Procs : /\ pc'[q] \in Inside => pc[q] \in Inside
                       /\ pc[q] \in Inside => pc'[q] \in Inside \cup {"gone"}
                       /\ pc'[q] \in {"check", "daemon"} => pc[q] \in {"check", "daemon"}
                       /\ pc'[q] = "refused" => pc[q] = "refused"
  BY <1>2 DEF Inside
<1>8. QED
  BY <1>3, <1>4, <1>5, <1>6, <1>7 DEF Calm, Running, Inside

\* Every step of daemonize() is calm.
LEMMA CalmStep ==
  ASSUME IInv, NEW p \in Procs,
         \/ D!Start(p) \/ D!Setsid(p) \/ D!IgnoreHup(p) \/ D!CloseAll(p)
         \/ D!OpenNull(p, "openlock") \/ D!CheckFds(p)
         \/ pc[p] # "refused" /\ D!Exit(p)
  PROVE  Calm
<1>1. PICK l \in Launches, g \in {1, 2, 3} : p = <<l, g>>
  BY ProcForm
<1>2. /\ g = 1 => pc[p] \in D!Dead \cup LauncherSteps
      /\ g = 2 => pc[p] \in D!Dead \cup LeaderSteps
      /\ g = 3 => pc[p] \in D!Dead \cup DaemonSteps
  BY <1>1 DEF IInv, TypeOK
<1>3. \E to \in {"fork1", "sigaction", "fork2", "opennull", "openlock", "daemon", "gone"} :
        Moves(l, g, to)
  <2> USE DEF D!At, D!Goto, D!Dead, LauncherSteps, LeaderSteps, DaemonSteps, BeforeFork1,
              BeforeFork2, Inside
  <2>1. CASE D!Start(p)
    BY <1>1, <1>2, <2>1 DEF D!Start, Moves
  <2>2. CASE D!Setsid(p)
    BY <1>1, <1>2, <2>2 DEF D!Setsid, Moves
  <2>3. CASE D!IgnoreHup(p)
    BY <1>1, <1>2, <2>3 DEF D!IgnoreHup, Moves
  <2>4. CASE D!CloseAll(p)
    BY <1>1, <1>2, <2>4 DEF D!CloseAll, Moves
  <2>5. CASE D!OpenNull(p, "openlock")
    BY <1>1, <1>2, <2>5 DEF D!OpenNull, Moves
  <2>6. CASE D!CheckFds(p)
    BY <1>1, <1>2, <2>6 DEF D!CheckFds, Moves
  <2>7. CASE pc[p] # "refused" /\ D!Exit(p)
    BY <1>1, <1>2, <2>7 DEF D!Exit, D!Alive, Moves
  <2> QED
    BY <2>1, <2>2, <2>3, <2>4, <2>5, <2>6, <2>7
<1>4. fds' \in [Procs -> [D!Fd -> D!Targets]]
  <2>1. fds \in [Procs -> [D!Fd -> D!Targets]]
    BY DEF IInv, TypeOK
  <2>2. CASE D!CloseAll(p)
    BY <2>1, <2>2 DEF D!CloseAll, D!Targets
  <2>3. CASE D!OpenNull(p, "openlock")
    BY <2>1, <2>3 DEF D!OpenNull, D!Targets
  <2>4. CASE D!Start(p) \/ D!Setsid(p) \/ D!IgnoreHup(p) \/ D!CheckFds(p) \/ D!Exit(p)
    BY <2>1, <2>4 DEF D!Start, D!Setsid, D!IgnoreHup, D!CheckFds, D!Exit
  <2> QED
    BY <2>2, <2>3, <2>4
<1>5. QED
  BY <1>3, <1>4, CalmMove

\* A daemon that opens a terminal stays where it is.
LEMMA CalmOpenTty ==
  ASSUME IInv, NEW p \in Procs, D!OpenTty(p)
  PROVE  Calm
<1>1. pc' = pc /\ Generations' /\ Running' = Running
  BY DEF D!OpenTty, IInv, Generations, Running
<1>2. fds' \in [Procs -> [D!Fd -> D!Targets]]
  <2>1. PICK d \in D!Fd : fds' = [fds EXCEPT ![p][d] = "tty"]
    BY DEF D!OpenTty, D!Lowest, D!Openable
  <2> QED
    BY <2>1 DEF IInv, TypeOK, D!Targets
<1>3. QED
  BY <1>1, <1>2 DEF IInv, TypeOK, Calm

LEMMA CalmLaunch ==
  ASSUME IInv, NEW l \in Launches, D!Launch(l)
  PROVE  Calm
<1>1. Moves(l, 1, "start")
  BY DEF D!Launch, D!At, D!Goto, D!Dead, LauncherSteps, BeforeFork1, Inside, Moves
<1>2. fds' \in [Procs -> [D!Fd -> D!Targets]]
  BY DEF D!Launch, IInv, TypeOK
<1>3. QED
  BY <1>1, <1>2, CalmMove

LEMMA CalmDaemonStep ==
  ASSUME IInv, DaemonStep
  PROVE  Calm /\ Release /\ UNCHANGED pidfile
<1>1. CASE \E l \in Launches : Plain(D!Launch(l))
  BY <1>1, CalmLaunch DEF Plain
<1>2. CASE \E p \in Procs : Plain(D!Fork1(p))
  BY <1>2, CalmFork1 DEF Plain
<1>3. CASE \E p \in Procs : Plain(D!Fork2(p))
  BY <1>3, CalmFork2 DEF Plain
<1>4. CASE \E t \in D!Sessions : Plain(D!Hangup(t))
  BY <1>4, CalmHangup DEF Plain
<1>5. CASE \E p \in Procs : \/ Plain(D!Start(p)) \/ Plain(D!Setsid(p))
                            \/ Plain(D!IgnoreHup(p)) \/ Plain(D!CloseAll(p))
                            \/ Plain(D!OpenNull(p, "openlock")) \/ Plain(D!CheckFds(p))
                            \/ pc[p] # "refused" /\ Plain(D!Exit(p))
  BY <1>5, CalmStep DEF Plain
<1>6. CASE \E p \in Procs : Plain(D!OpenTty(p))
  BY <1>6, CalmOpenTty DEF Plain
<1>7. QED
  BY <1>1, <1>2, <1>3, <1>4, <1>5, <1>6 DEF DaemonStep

\* Whatever daemonize() does, the lock stays with a process that is inside.
LEMMA CalmPreserves ==
  ASSUME IInv, Calm, Release, UNCHANGED pidfile
  PROVE  IInv'
<1>1. owner' = owner \/ owner' = NoProc
  BY DEF Release
<1>2. \A p \in Running' : p \in Running /\ owner = p /\ owner' = p
  BY ProcForm DEF Calm, IInv, OneDaemon, Running, Release
<1>3. owner' # NoProc => owner' \in Running'
  BY DEF IInv, OwnerRuns, Calm, Release, Running
<1>4. TypeOK'
  BY <1>1 DEF IInv, TypeOK, Calm
<1>5. OneDaemon'
  BY <1>2 DEF OneDaemon
<1>6. PidFileNamesDaemon'
  BY DEF IInv, PidFileNamesDaemon, Calm
<1>7. QED
  BY <1>3, <1>4, <1>5, <1>6 DEF IInv, OwnerRuns, Calm

FileStep(p) == OpenLockFile(p) \/ Lock(p) \/ AlreadyRunning(p) \/ Truncate(p) \/ WritePid(p)

LEMMA NextSplit == Next <=> DaemonStep \/ \E p \in Procs : FileStep(p)
BY DEF Next, DaemonStep, FileStep

\* What the steps of already_running() have in common: the final process of
\* a launch goes from one of its steps to another.
LEMMA FileStepMoves ==
  ASSUME IInv, NEW p \in Procs, FileStep(p)
  PROVE  \E l \in Launches, to \in {"lock", "truncate", "refused", "write", "check"} :
           /\ p = <<l, 3>>
           /\ pc[p] \in {"openlock", "lock", "truncate", "write"}
           /\ pc' = [pc EXCEPT ![p] = to]
           /\ fds' \in [Procs -> [D!Fd -> D!Targets]]
<1>1. PICK l \in Launches, to \in {"lock", "truncate", "refused", "write", "check"} :
        /\ p \in {<<l, 1>>, <<l, 2>>, <<l, 3>>}
        /\ pc[p] \in {"openlock", "lock", "truncate", "write"}
        /\ pc' = [pc EXCEPT ![p] = to]
  BY ProcForm DEF FileStep, OpenLockFile, Lock, AlreadyRunning, Truncate, WritePid, D!At, D!Goto
<1>2. p = <<l, 3>>
  BY <1>1 DEF IInv, TypeOK, D!Dead, LauncherSteps, LeaderSteps
<1>3. fds \in [Procs -> [D!Fd -> D!Targets]]
  BY DEF IInv, TypeOK
<1>4. fds' \in [Procs -> [D!Fd -> D!Targets]]
  <2>1. CASE OpenLockFile(p)
    BY <1>3, <2>1 DEF OpenLockFile, D!Targets, D!Lowest, D!Openable
  <2>2. CASE AlreadyRunning(p)
    BY <1>3, <2>2 DEF AlreadyRunning, D!Targets
  <2>3. CASE Lock(p) \/ Truncate(p) \/ WritePid(p)
    BY <1>3, <2>3 DEF Lock, Truncate, WritePid
  <2> QED
    BY <2>1, <2>2, <2>3 DEF FileStep
<1>5. QED
  BY <1>1, <1>2, <1>4

LEMMA FileStepTypes ==
  ASSUME IInv, NEW p \in Procs, FileStep(p)
  PROVE  TypeOK' /\ Generations'
<1>1. PICK l \in Launches, to \in {"lock", "truncate", "refused", "write", "check"} :
        /\ p = <<l, 3>>
        /\ pc[p] \in {"openlock", "lock", "truncate", "write"}
        /\ pc' = [pc EXCEPT ![p] = to]
        /\ fds' \in [Procs -> [D!Fd -> D!Targets]]
  BY FileStepMoves
<1>2. \A q \in Procs : pc'[q] = IF q = p THEN to ELSE pc[q]
  BY <1>1 DEF IInv, TypeOK
<1>3. to \in DaemonSteps
  BY DEF DaemonSteps
<1>4. pc' \in [Procs -> D!Dead \cup LauncherSteps \cup LeaderSteps \cup DaemonSteps]
  <2>1. pc \in [Procs -> D!Dead \cup LauncherSteps \cup LeaderSteps \cup DaemonSteps]
    BY DEF IInv, TypeOK
  <2>2. pc' = [pc EXCEPT ![p] = to]
    BY <1>1
  <2>3. to \in D!Dead \cup LauncherSteps \cup LeaderSteps \cup DaemonSteps
    BY <1>3
  <2> QED
    BY <2>1, <2>2, <2>3, ExceptType
<1>5. ASSUME NEW m \in Launches
      PROVE  /\ pc'[<<m, 1>>] = pc[<<m, 1>>] /\ pc'[<<m, 2>>] = pc[<<m, 2>>]
             /\ pc'[<<m, 3>>] \in D!Dead \cup DaemonSteps
             /\ pc[<<m, 3>>] = "none" => pc'[<<m, 3>>] = "none"
  <2>1. /\ <<m, 1>> \in Procs /\ <<m, 2>> \in Procs /\ <<m, 3>> \in Procs
        /\ <<m, 1>> # p /\ <<m, 2>> # p
    BY <1>1, Pairs DEF Procs, D!Procs
  <2>2. /\ pc[<<m, 3>>] \in D!Dead \cup DaemonSteps
        /\ pc[p] # "none"
    BY <1>1 DEF IInv, TypeOK
  <2>3. pc'[<<m, 3>>] = IF <<m, 3>> = p THEN to ELSE pc[<<m, 3>>]
    BY <1>2, <2>1
  <2>4. pc'[<<m, 1>>] = pc[<<m, 1>>] /\ pc'[<<m, 2>>] = pc[<<m, 2>>]
    BY <1>2, <2>1
  <2> QED
    BY <1>3, <2>2, <2>3, <2>4
<1>6. Generations'
  BY <1>5 DEF IInv, Generations
<1>7. p \in Launches \X {3}
  BY <1>1
<1>8. owner' \in (Launches \X {3}) \cup {NoProc} /\ pidfile' \in (Launches \X {3}) \cup {Absent, Empty}
  BY <1>7 DEF IInv, TypeOK, FileStep, OpenLockFile, Lock, AlreadyRunning, Truncate, WritePid
<1>9. QED
  BY <1>1, <1>4, <1>5, <1>6, <1>8 DEF IInv, TypeOK

\* Only a process that finds nobody inside gets in, and only the one that is
\* inside touches the pid in the file.
LEMMA FileStepSafe ==
  ASSUME IInv, NEW p \in Procs, FileStep(p)
  PROVE  OneDaemon' /\ OwnerRuns' /\ PidFileNamesDaemon'
<1>1. PICK to \in {"lock", "truncate", "refused", "write", "check"} :
        /\ pc[p] \in {"openlock", "lock", "truncate", "write"}
        /\ \A q \in Procs : pc'[q] = IF q = p THEN to ELSE pc[q]
  BY FileStepMoves DEF IInv, TypeOK
<1>2. /\ \A q \in Procs : pc[q] \in Inside => owner = q
      /\ owner # NoProc => owner \in Procs /\ pc[owner] \in Inside
      /\ \A q \in Procs : pc[q] \in {"check", "daemon"} => pidfile = q
      /\ \A q \in Procs : q # NoProc /\ q # Absent
  BY ProcForm DEF IInv, OneDaemon, OwnerRuns, PidFileNamesDaemon, Running, Inside
<1> SUFFICES /\ \A q \in Procs : pc'[q] \in Inside => owner' = q
             /\ owner' # NoProc => owner' \in Procs /\ pc'[owner'] \in Inside
             /\ \A q \in Procs : pc'[q] \in {"check", "daemon"} => pidfile' = q
  BY DEF OneDaemon, OwnerRuns, PidFileNamesDaemon, Running, Inside
<1> USE DEF Inside, D!At, D!Goto
<1>3. CASE OpenLockFile(p)
  <2>1. pc[p] = "openlock" /\ pc'[p] = "lock" /\ owner' = owner
    BY <1>1, <1>3 DEF OpenLockFile, IInv, TypeOK
  <2>2. pidfile # Absent => pidfile' = pidfile
    BY <1>3 DEF OpenLockFile
  <2> QED
    BY <1>1, <1>2, <2>1, <2>2
<1>4. CASE Lock(p)
  <2>1. pc[p] = "lock" /\ pc'[p] = "truncate" /\ owner' = p /\ pidfile' = pidfile
    BY <1>1, <1>4 DEF Lock, IInv, TypeOK
  <2>2. owner \in {NoProc, p}
    BY <1>4 DEF Lock, Lockable
  <2> QED
    BY <1>1, <1>2, <2>1, <2>2
<1>5. CASE AlreadyRunning(p)
  <2>1. pc[p] = "lock" /\ pc'[p] = "refused" /\ owner' = owner /\ pidfile' = pidfile
    BY <1>1, <1>5 DEF AlreadyRunning, IInv, TypeOK
  <2> QED
    BY <1>1, <1>2, <2>1
<1>6. CASE Truncate(p)
  <2>1. pc[p] = "truncate" /\ pc'[p] = "write" /\ owner' = owner
    BY <1>1, <1>6 DEF Truncate, IInv, TypeOK
  <2> QED
    BY <1>1, <1>2, <2>1
<1>7. CASE WritePid(p)
  <2>1. pc[p] = "write" /\ pc'[p] = "check" /\ owner' = owner /\ pidfile' = p
    BY <1>1, <1>7 DEF WritePid, IInv, TypeOK
  <2> QED
    BY <1>1, <1>2, <2>1
<1>8. QED
  BY <1>3, <1>4, <1>5, <1>6, <1>7 DEF FileStep

LEMMA StepIInv == IInv /\ [Next]_vars => IInv'
<1> SUFFICES ASSUME IInv, [Next]_vars
             PROVE  IInv'
  OBVIOUS
<1>1. CASE DaemonStep
  BY <1>1, CalmDaemonStep, CalmPreserves
<1>2. CASE \E p \in Procs : FileStep(p)
  BY <1>2, FileStepTypes, FileStepSafe DEF IInv
<1>3. CASE UNCHANGED vars
  BY <1>3 DEF vars, IInv, TypeOK, Generations, OneDaemon, OwnerRuns, PidFileNamesDaemon, Running
<1>4. QED
  BY <1>1, <1>2, <1>3, NextSplit

\* All of it holds in every state that the launches of single.c reach.
THEOREM Invariance == Spec => []IInv
<1>1. QED
  BY InitIInv, StepIInv, PTL DEF Spec

\* Every variable of single.c's model keeps its type: no process takes a step
\* that belongs to another generation.
THEOREM TypeCorrect == Spec => []TypeOK
<1>1. IInv => TypeOK
  BY DEF IInv
<1>2. QED
  BY <1>1, Invariance, PTL

\* Only one copy of the daemon is past lockfile(), however many are launched
\* and wherever they die (already_running(), lines 60-76).
THEOREM SingleDaemon == Spec => []OneDaemon
<1>1. IInv => OneDaemon
  BY DEF IInv
<1>2. QED
  BY <1>1, Invariance, PTL

\* daemon.pid names the copy that runs.
THEOREM PidFileCorrect == Spec => []PidFileNamesDaemon
<1>1. IInv => PidFileNamesDaemon
  BY DEF IInv
<1>2. QED
  BY <1>1, Invariance, PTL

\* A copy gives up only because another one is alive with the lock
\* (already_running() returning 1, lines 60-64).
THEOREM Refused == Spec => RefusedByTheLiving
<1>1. ASSUME IInv, Next, NEW p \in Procs, pc[p] # "refused", pc'[p] = "refused"
      PROVE  Running \ {p} # {}
  <2>1. PICK q \in Procs : FileStep(q)
    BY <1>1, CalmDaemonStep, NextSplit DEF Calm
  <2>2. PICK to \in {"lock", "truncate", "refused", "write", "check"} :
          \A r \in Procs : pc'[r] = IF r = q THEN to ELSE pc[r]
    BY <1>1, <2>1, FileStepMoves DEF IInv, TypeOK
  <2>3. q = p
    BY <1>1, <2>2
  <2>4. AlreadyRunning(p)
    BY <1>1, <2>1, <2>3 DEF FileStep, OpenLockFile, Lock, Truncate, WritePid, D!At, D!Goto,
                            IInv, TypeOK
  <2>5. owner # NoProc /\ owner # p
    BY <2>4 DEF AlreadyRunning, Lockable
  <2> QED
    BY <1>1, <2>5 DEF IInv, OwnerRuns
<1>2. IInv /\ [Next]_vars => [\A p \in Procs : pc[p] # "refused" /\ pc'[p] = "refused"
                                              => Running \ {p} # {}]_vars
  BY <1>1
<1>3. QED
  BY <1>2, Invariance, PTL DEF Spec, RefusedByTheLiving

\* A step of single.c is a step of the abstract mutual exclusion or does not
\* change who is running.
LEMMA StepMutex == IInv /\ [Next]_vars => [Mutex!Next]_Running
<1> SUFFICES ASSUME IInv, [Next]_vars
             PROVE  Mutex!Next \/ Running' = Running
  OBVIOUS
<1>1. \A p \in Running : owner = p /\ p \in Procs
  BY DEF IInv, OneDaemon, Running
<1>2. CASE DaemonStep
  <2>1. Running' \subseteq Running
    BY <1>2, CalmDaemonStep DEF Calm
  <2>2. CASE Running' # Running
    <3>1. PICK p \in Running : p \notin Running'
      BY <2>1, <2>2
    <3>2. Running' = {}
      BY <1>1, <2>1, <3>1
    <3> QED
      BY <1>1, <3>1, <3>2 DEF Mutex!Next, Mutex!Leave
  <2> QED
    BY <2>2
<1>3. ASSUME NEW p \in Procs, FileStep(p)
      PROVE  Mutex!Next \/ Running' = Running
  <2>1. PICK to \in {"lock", "truncate", "refused", "write", "check"} :
          /\ pc[p] \in {"openlock", "lock", "truncate", "write"}
          /\ \A q \in Procs : pc'[q] = IF q = p THEN to ELSE pc[q]
    BY <1>3, FileStepMoves DEF IInv, TypeOK
  <2>2. CASE Lock(p)
    <3>1. pc[p] = "lock" /\ pc'[p] = "truncate" /\ owner \in {NoProc, p}
      BY <2>2 DEF Lock, Lockable, D!At, D!Goto, IInv, TypeOK
    <3>2. p \notin Running
      BY <3>1 DEF Running
    <3>3. Running = {}
      BY <1>1, <3>1, <3>2, ProcForm
    <3>4. Running' = {p}
      BY <2>1, <3>1, <3>3 DEF Running
    <3> QED
      BY <3>3, <3>4 DEF Mutex!Next, Mutex!Enter
  <2>3. CASE ~Lock(p)
    <3>1. pc[p] \in Inside <=> pc'[p] \in Inside
      BY <1>3, <2>3 DEF FileStep, OpenLockFile, AlreadyRunning, Truncate, WritePid, D!At, D!Goto,
                        IInv, TypeOK, Inside
    <3> QED
      BY <2>1, <3>1 DEF Running, Inside
  <2> QED
    BY <2>2, <2>3
<1>4. CASE UNCHANGED vars
  BY <1>4 DEF vars, Running
<1>5. QED
  BY <1>2, <1>3, <1>4, NextSplit

\* daemonize() with the lock file implements mutual exclusion.
THEOREM Implements == Spec => ImplementsExclusive
<1>1. Init => Mutex!Init
  BY DEF Init, D!Init, Mutex!Init, Running, Procs
<1>2. QED
  BY <1>1, StepMutex, Invariance, PTL DEF Spec, ImplementsExclusive, Mutex!Spec

------------------------------------------------------------------------------
(* The daemon is cut off from where it was started *)

\* The descriptors every process starts with.
StartTable == [d \in D!Fd |-> IF d \in Inherited THEN "inherited" ELSE "none"]

\* There is one descriptor of table t on the lock file.
OneLockFile(t) == \E d \in D!Fd : \A e \in D!Fd : t[e] = "lockfile" <=> e = d

\* What is true of the session and the descriptors of the second and the third
\* process of launch l, step by step.
DetachedOf(l) ==
  /\ fds[<<l, 1>>] = StartTable /\ fds[<<l, 2>>] = StartTable
  /\ pc[<<l, 2>>] \in {"sigaction", "fork2"} => sess[<<l, 2>>] = <<l, 2>>
  /\ pc[<<l, 3>>] \in DaemonSteps => sess[<<l, 3>>] = <<l, 2>>
  /\ pc[<<l, 3>>] = "closeall" => fds[<<l, 3>>] = StartTable
  /\ pc[<<l, 3>>] = "opennull" => \A d \in D!Fd : fds[<<l, 3>>][d] = "none"
  /\ pc[<<l, 3>>] = "openlock" => \A d \in D!Fd : fds[<<l, 3>>][d] \in {"none", "null"}
  /\ pc[<<l, 3>>] \in {"lock"} \cup Inside =>
       /\ \A d \in D!Fd : fds[<<l, 3>>][d] # "inherited"
       /\ OneLockFile(fds[<<l, 3>>])
  /\ pc[<<l, 3>>] = "daemon" => D!StdOnNull(<<l, 3>>)

\* The only controlling terminal there ever is is that of the login session.
CutOff ==
  /\ sess \in [Procs -> D!Sessions]
  /\ ctty \subseteq {D!Login}
  /\ \A l \in Launches : DetachedOf(l)

LEMMA InitCutOff == Init => CutOff
<1> SUFFICES ASSUME Init PROVE CutOff
  OBVIOUS
<1>1. /\ sess \in [Procs -> D!Sessions] /\ ctty \subseteq {D!Login}
      /\ \A p \in Procs : pc[p] = "none" /\ fds[p] = StartTable
  BY DEF Init, D!Init, Procs, D!Sessions, StartTable
<1>2. ASSUME NEW l \in Launches PROVE DetachedOf(l)
  BY <1>1, Pairs DEF DetachedOf, DaemonSteps, Inside
<1> QED
  BY <1>1, <1>2 DEF CutOff

\* A step of q after which as much is true of it as before.
Quiet(q) ==
  /\ fds'[q] = fds[q] /\ sess'[q] = sess[q]
  /\ \/ pc'[q] = pc[q]
     \/ pc'[q] \in {"gone", "start", "fork1"}
     \/ pc[q] = "sigaction" /\ pc'[q] = "fork2"
     \/ pc[q] \in {"lock", "truncate", "write"} /\ pc'[q] \in {"truncate", "write", "check"}
     \/ pc[q] = "check" /\ pc'[q] = "daemon" /\ D!StdOnNull(q)

LEMMA QuietKeeps ==
  ASSUME NEW l \in Launches, DetachedOf(l), Quiet(<<l, 1>>), Quiet(<<l, 2>>), Quiet(<<l, 3>>)
  PROVE  DetachedOf(l)'
BY DEF Quiet, DetachedOf, DaemonSteps, Inside, D!StdOnNull

LEMMA AllQuiet ==
  ASSUME CutOff, sess' = sess, ctty' \subseteq ctty, \A q \in Procs : Quiet(q)
  PROVE  CutOff'
<1>1. ASSUME NEW l \in Launches PROVE DetachedOf(l)'
  BY <1>1, Pairs, QuietKeeps DEF CutOff
<1> QED
  BY <1>1 DEF CutOff

\* The steps that say more about the processes of one launch than before.
LEMMA OneLaunch ==
  ASSUME CutOff, NEW l \in Launches, sess' \in [Procs -> D!Sessions], ctty' \subseteq {D!Login},
         \A m \in Launches \ {l} : \A g \in {1, 2, 3} : Quiet(<<m, g>>),
         DetachedOf(l)'
  PROVE  CutOff'
<1>1. ASSUME NEW m \in Launches PROVE DetachedOf(m)'
  BY <1>1, QuietKeeps DEF CutOff
<1> QED
  BY <1>1 DEF CutOff

\* The three processes of a launch.
LEMMA Three ==
  ASSUME NEW l \in Launches
  PROVE  /\ <<l, 1>> \in Procs /\ <<l, 2>> \in Procs /\ <<l, 3>> \in Procs
         /\ <<l, 1>> # <<l, 2>> /\ <<l, 1>> # <<l, 3>> /\ <<l, 2>> # <<l, 3>>
<1>1. <<l, 1>> \in Procs /\ <<l, 2>> \in Procs /\ <<l, 3>> \in Procs
  BY Pairs
<1>2. <<l, 1>> # <<l, 2>> /\ <<l, 1>> # <<l, 3>> /\ <<l, 2>> # <<l, 3>>
  OBVIOUS
<1> QED
  BY <1>1, <1>2

\* Which process can be at which step.
LEMMA StepOf ==
  ASSUME IInv, NEW p \in Procs, pc[p] \notin D!Dead
  PROVE  \E l \in Launches : \/ p = <<l, 1>> /\ pc[p] \in LauncherSteps
                             \/ p = <<l, 2>> /\ pc[p] \in LeaderSteps
                             \/ p = <<l, 3>> /\ pc[p] \in DaemonSteps
BY ProcForm DEF IInv, TypeOK

LEMMA CutOffFork1 ==
  ASSUME IInv, CutOff, NEW p \in Procs, D!Fork1(p)
  PROVE  CutOff'
<1>1. PICK l \in Launches : p = <<l, 1>>
  BY StepOf DEF LeaderSteps, DaemonSteps, D!Fork1, D!At, D!Dead
<1>2. /\ D!ChildOf(p) = <<l, 2>> /\ <<l, 2>> \in Procs /\ <<l, 3>> \in Procs
      /\ pc[p] = "fork1" /\ pc[<<l, 3>>] = "none"
  BY <1>1, Pairs DEF D!ChildOf, D!Fork1, D!At, IInv, Generations, BeforeFork1, BeforeFork2
<1>3. \A q \in Procs : /\ pc'[q] = IF q = <<l, 2>> THEN "setsid" ELSE IF q = p THEN "gone" ELSE pc[q]
                       /\ fds'[q] = IF q = <<l, 2>> THEN fds[p] ELSE fds[q]
  BY <1>2 DEF D!Fork1, D!Fork, IInv, TypeOK
<1>4. /\ sess' \in [Procs -> D!Sessions] /\ ctty' = ctty
      /\ \A q \in Procs \ {<<l, 2>>} : sess'[q] = sess[q]
  BY <1>2 DEF D!Fork1, D!Fork, CutOff
<1>5. \A m \in Launches \ {l} : \A g \in {1, 2, 3} : Quiet(<<m, g>>)
  BY <1>1, <1>3, <1>4, Pairs DEF Quiet
<1>6. DetachedOf(l)'
  <2>1. pc'[<<l, 2>>] = "setsid" /\ pc'[<<l, 3>>] = "none"
    BY <1>1, <1>2, <1>3, Three
  <2>2. fds'[<<l, 1>>] = StartTable /\ fds'[<<l, 2>>] = StartTable
    BY <1>1, <1>2, <1>3, Three DEF DetachedOf, CutOff
  <2> QED
    BY <2>1, <2>2 DEF DetachedOf, DaemonSteps, Inside, StartTable
<1> QED
  BY <1>4, <1>5, <1>6, OneLaunch DEF CutOff

LEMMA CutOffFork2 ==
  ASSUME IInv, CutOff, NEW p \in Procs, D!Fork2(p)
  PROVE  CutOff'
<1>1. PICK l \in Launches : p = <<l, 2>>
  BY StepOf DEF LauncherSteps, DaemonSteps, D!Fork2, D!At, D!Dead
<1>2. /\ D!ChildOf(p) = <<l, 3>> /\ <<l, 3>> \in Procs /\ <<l, 1>> \in Procs
      /\ pc[p] = "fork2"
  BY <1>1, Pairs DEF D!ChildOf, D!Fork2, D!At
<1>3. \A q \in Procs : /\ pc'[q] = IF q = <<l, 3>> THEN "closeall" ELSE IF q = p THEN "gone" ELSE pc[q]
                       /\ fds'[q] = IF q = <<l, 3>> THEN fds[p] ELSE fds[q]
  BY <1>2 DEF D!Fork2, D!Fork, IInv, TypeOK
<1>4. /\ sess' \in [Procs -> D!Sessions] /\ ctty' = ctty
      /\ \A q \in Procs : sess'[q] = IF q = <<l, 3>> THEN sess[p] ELSE sess[q]
  BY <1>2 DEF D!Fork2, D!Fork, CutOff
<1>5. \A m \in Launches \ {l} : \A g \in {1, 2, 3} : Quiet(<<m, g>>)
  BY <1>1, <1>3, <1>4, Pairs DEF Quiet
<1>6. DetachedOf(l)'
  <2>1. pc'[<<l, 2>>] = "gone" /\ pc'[<<l, 3>>] = "closeall"
    BY <1>1, <1>2, <1>3, Three
  <2>2. /\ fds'[<<l, 1>>] = StartTable /\ fds'[<<l, 2>>] = StartTable
        /\ fds'[<<l, 3>>] = StartTable /\ sess'[<<l, 3>>] = <<l, 2>>
    BY <1>1, <1>2, <1>3, <1>4, Three DEF DetachedOf, CutOff
  <2> QED
    BY <2>1, <2>2 DEF DetachedOf, DaemonSteps, Inside, StartTable
<1> QED
  BY <1>4, <1>5, <1>6, OneLaunch DEF CutOff

LEMMA CutOffSetsid ==
  ASSUME IInv, CutOff, NEW p \in Procs, D!Setsid(p)
  PROVE  CutOff'
<1>1. PICK l \in Launches : p = <<l, 2>>
  BY StepOf DEF LauncherSteps, DaemonSteps, D!Setsid, D!At, D!Dead
<1>2. /\ sess' \in [Procs -> D!Sessions] /\ ctty' = ctty /\ fds' = fds
      /\ \A q \in Procs : sess'[q] = IF q = p THEN p ELSE sess[q]
  BY <1>1 DEF D!Setsid, D!GroupLeader, D!Sessions, CutOff, Procs
<1>3. \A q \in Procs : pc'[q] = IF q = p THEN "sigaction" ELSE pc[q]
  BY DEF D!Setsid, D!Goto, IInv, TypeOK
<1>4. \A m \in Launches \ {l} : \A g \in {1, 2, 3} : Quiet(<<m, g>>)
  BY <1>1, <1>2, <1>3, Pairs DEF Quiet
<1>5. DetachedOf(l)'
  <2>1. pc'[<<l, 2>>] = "sigaction" /\ pc'[<<l, 3>>] = pc[<<l, 3>>]
    BY <1>1, <1>3, Three
  <2>2. sess'[<<l, 2>>] = <<l, 2>> /\ sess'[<<l, 3>>] = sess[<<l, 3>>]
    BY <1>1, <1>2, Three
  <2>3. DetachedOf(l)
    BY DEF CutOff
  <2> QED
    BY <1>2, <2>1, <2>2, <2>3
       DEF DetachedOf, DaemonSteps, Inside, StartTable, OneLockFile, D!StdOnNull
<1> QED
  BY <1>2, <1>4, <1>5, OneLaunch DEF CutOff

\* What is left to show of a step of the daemon that changes its descriptors.
LEMMA TableStep ==
  ASSUME IInv, CutOff, NEW l \in Launches, NEW t, NEW to \in DaemonSteps,
         pc[<<l, 3>>] \in DaemonSteps,
         pc' = [pc EXCEPT ![<<l, 3>>] = to], fds' = [fds EXCEPT ![<<l, 3>>] = t],
         sess' = sess, ctty' \subseteq ctty,
         to # "closeall",
         to = "opennull" => \A d \in D!Fd : t[d] = "none",
         to = "openlock" => \A d \in D!Fd : t[d] \in {"none", "null"},
         to \in {"lock"} \cup Inside => OneLockFile(t) /\ \A d \in D!Fd : t[d] # "inherited",
         to = "daemon" => \A d \in 0..2 : t[d] = "null"
  PROVE  CutOff'
<1>1. \A q \in Procs : /\ pc'[q] = IF q = <<l, 3>> THEN to ELSE pc[q]
                       /\ fds'[q] = IF q = <<l, 3>> THEN t ELSE fds[q]
  BY DEF IInv, TypeOK
<1>2. \A m \in Launches \ {l} : \A g \in {1, 2, 3} : Quiet(<<m, g>>)
  BY <1>1, Pairs DEF Quiet
<1>3. /\ pc'[<<l, 2>>] = pc[<<l, 2>>] /\ pc'[<<l, 3>>] = to
      /\ fds'[<<l, 1>>] = fds[<<l, 1>>] /\ fds'[<<l, 2>>] = fds[<<l, 2>>] /\ fds'[<<l, 3>>] = t
  BY <1>1, Three
<1>4. DetachedOf(l)
  BY DEF CutOff
<1>5. DetachedOf(l)'
  BY <1>3, <1>4 DEF DetachedOf, StartTable, OneLockFile, D!StdOnNull, DaemonSteps, Inside
<1> QED
  BY <1>2, <1>5, OneLaunch DEF CutOff

\* open() and dup() take descriptors on which nothing is open.
LEMMA LowestFree ==
  ASSUME NEW t, NEW n, NEW d \in D!Lowest(D!Openable(t), n)
  PROVE  d \in D!Fd /\ t[d] = "none"
BY DEF D!Lowest, D!Openable

LEMMA CutOffCloseAll ==
  ASSUME IInv, CutOff, \A d \in Inherited : d < D!CloseLimit, NEW p \in Procs, D!CloseAll(p)
  PROVE  CutOff'
<1>1. PICK l \in Launches : p = <<l, 3>>
  BY StepOf DEF LauncherSteps, LeaderSteps, D!CloseAll, D!At, D!Dead
<1> DEFINE t == [d \in D!Fd |-> IF d < D!CloseLimit THEN "none" ELSE fds[p][d]]
<1>2. /\ pc[p] = "closeall" /\ pc' = [pc EXCEPT ![p] = "opennull"]
      /\ fds' = [fds EXCEPT ![p] = t] /\ UNCHANGED <<sess, ctty>>
  BY DEF D!CloseAll, D!At, D!Goto, IInv, TypeOK
<1>3. \A d \in D!Fd : t[d] = "none"
  BY <1>1, <1>2 DEF CutOff, DetachedOf, StartTable
<1>4. "opennull" \in DaemonSteps /\ "closeall" \in DaemonSteps
  BY DEF DaemonSteps
<1> HIDE DEF t
<1> QED
  BY <1>1, <1>2, <1>3, <1>4, TableStep DEF Inside

LEMMA CutOffOpenNull ==
  ASSUME IInv, CutOff, NEW p \in Procs, D!OpenNull(p, "openlock")
  PROVE  CutOff'
<1>1. PICK l \in Launches : p = <<l, 3>>
  BY StepOf DEF LauncherSteps, LeaderSteps, D!OpenNull, D!At, D!Dead
<1>2. /\ pc[p] = "opennull" /\ pc' = [pc EXCEPT ![p] = "openlock"] /\ UNCHANGED <<sess, ctty>>
      /\ \A d \in D!Fd : fds[p][d] = "none"
  BY <1>1 DEF D!OpenNull, D!At, D!Goto, CutOff, DetachedOf
<1>3. PICK t : fds' = [fds EXCEPT ![p] = t] /\ \A d \in D!Fd : t[d] \in {"none", "null"}
  <2>1. CASE UNCHANGED fds
    <3>1. fds' = [fds EXCEPT ![p] = fds[p]]
      BY <2>1 DEF IInv, TypeOK
    <3> QED
      BY <1>2, <3>1
  <2>2. CASE ~UNCHANGED fds
    <3> DEFINE null == D!Lowest(D!Openable(fds[p]), 3)
               t == [d \in D!Fd |-> IF d \in null THEN "null" ELSE fds[p][d]]
    <3>1. fds' = [fds EXCEPT ![p] = t]
      BY <2>2 DEF D!OpenNull, IInv, TypeOK
    <3>2. \A d \in D!Fd : t[d] \in {"none", "null"}
      BY <1>2
    <3> QED
      BY <3>1, <3>2
  <2> QED
    BY <2>1, <2>2
<1>4. "openlock" \in DaemonSteps /\ "opennull" \in DaemonSteps
  BY DEF DaemonSteps
<1> QED
  BY <1>1, <1>2, <1>3, <1>4, TableStep DEF Inside

LEMMA CutOffOpenLockFile ==
  ASSUME IInv, CutOff, NEW p \in Procs, OpenLockFile(p)
  PROVE  CutOff'
<1>1. PICK l \in Launches : p = <<l, 3>>
  BY StepOf DEF LauncherSteps, LeaderSteps, OpenLockFile, D!At, D!Dead
<1>2. /\ pc[p] = "openlock" /\ pc' = [pc EXCEPT ![p] = "lock"] /\ UNCHANGED <<sess, ctty>>
      /\ \A d \in D!Fd : fds[p][d] \in {"none", "null"}
  BY <1>1 DEF OpenLockFile, D!At, D!Goto, CutOff, DetachedOf
<1>3. PICK d \in D!Fd : fds' = [fds EXCEPT ![p] = [fds[p] EXCEPT ![d] = "lockfile"]]
  BY LowestFree DEF OpenLockFile
<1> DEFINE t == [fds[p] EXCEPT ![d] = "lockfile"]
<1>4. \A e \in D!Fd : t[e] = IF e = d THEN "lockfile" ELSE fds[p][e]
  BY DEF IInv, TypeOK
<1>5. "openlock" \in DaemonSteps /\ "lock" \in DaemonSteps /\ "lock" \notin Inside
  BY DEF DaemonSteps, Inside
<1> HIDE DEF t
<1>6. OneLockFile(t) /\ \A e \in D!Fd : t[e] # "inherited"
  BY <1>2, <1>4 DEF OneLockFile
<1> QED
  BY <1>1, <1>2, <1>3, <1>5, <1>6, TableStep DEF t

LEMMA CutOffAlreadyRunning ==
  ASSUME IInv, CutOff, NEW p \in Procs, AlreadyRunning(p)
  PROVE  CutOff'
<1>1. PICK l \in Launches : p = <<l, 3>>
  BY StepOf DEF LauncherSteps, LeaderSteps, AlreadyRunning, D!At, D!Dead
<1>2. PICK t : /\ pc[p] = "lock" /\ pc' = [pc EXCEPT ![p] = "refused"]
               /\ fds' = [fds EXCEPT ![p] = t] /\ UNCHANGED <<sess, ctty>>
  BY DEF AlreadyRunning, D!At, D!Goto
<1>3. "lock" \in DaemonSteps /\ "refused" \in DaemonSteps /\ "refused" \notin Inside
  BY DEF DaemonSteps, Inside
<1> QED
  BY <1>1, <1>2, <1>3, TableStep

\* A daemon that opens a terminal has no session of its own to give it to.
LEMMA CutOffOpenTty ==
  ASSUME IInv, CutOff, NEW p \in Procs, D!OpenTty(p)
  PROVE  CutOff'
<1>1. PICK l \in Launches : p = <<l, 3>>
  BY StepOf DEF LauncherSteps, LeaderSteps, D!OpenTty, D!At, D!Dead
<1>2. /\ pc[p] = "daemon" /\ sess' = sess /\ pc' = [pc EXCEPT ![p] = "daemon"]
      /\ sess[p] = <<l, 2>> /\ D!StdOnNull(p) /\ OneLockFile(fds[p])
      /\ \A e \in D!Fd : fds[p][e] # "inherited"
  <2>1. pc[p] = "daemon" /\ sess' = sess /\ pc' = pc
    BY DEF D!OpenTty, D!At
  <2>2. pc' = [pc EXCEPT ![p] = "daemon"]
    BY <2>1 DEF IInv, TypeOK
  <2>3. DetachedOf(l)
    BY DEF CutOff
  <2> QED
    BY <1>1, <2>1, <2>2, <2>3 DEF DetachedOf, DaemonSteps, Inside
<1>3. ctty' = ctty
  BY <1>1, <1>2, Three DEF D!OpenTty
<1>4. PICK d \in D!Fd : fds[p][d] = "none" /\ fds' = [fds EXCEPT ![p] = [fds[p] EXCEPT ![d] = "tty"]]
  BY LowestFree DEF D!OpenTty
<1> DEFINE t == [fds[p] EXCEPT ![d] = "tty"]
<1>5. \A e \in D!Fd : t[e] = IF e = d THEN "tty" ELSE fds[p][e]
  BY DEF IInv, TypeOK
<1>6. 0..2 \subseteq D!Fd /\ "daemon" \in DaemonSteps
  BY SingleInstanceAssumption DEF D!Fd, DaemonSteps
<1> HIDE DEF t
<1>7. OneLockFile(t) /\ \A e \in D!Fd : t[e] # "inherited"
  BY <1>2, <1>4, <1>5 DEF OneLockFile
<1>8. \A e \in 0..2 : t[e] = "null"
  BY <1>2, <1>4, <1>5, <1>6 DEF D!StdOnNull
<1> QED
  BY <1>1, <1>2, <1>3, <1>4, <1>6, <1>7, <1>8, TableStep DEF t

LEMMA CutOffQuiet ==
  ASSUME IInv, CutOff,
         \/ \E l \in Launches : D!Launch(l)
         \/ \E p \in Procs : \/ D!Start(p) \/ D!IgnoreHup(p) \/ D!CheckFds(p) \/ D!Exit(p)
                             \/ Lock(p) \/ Truncate(p) \/ WritePid(p)
         \/ \E s \in D!Sessions : D!Hangup(s)
         \/ UNCHANGED vars
  PROVE  CutOff'
<1> USE DEF D!At, D!Goto
<1>1. /\ pc \in [Procs -> D!Dead \cup LauncherSteps \cup LeaderSteps \cup DaemonSteps]
      /\ sess' = sess /\ fds' = fds /\ ctty' \subseteq ctty
  BY DEF IInv, TypeOK, D!Launch, D!Start, D!IgnoreHup, D!CheckFds, D!Exit, Lock, Truncate,
         WritePid, D!Hangup, vars
<1>2. ASSUME NEW q \in Procs PROVE Quiet(q)
  <2>1. CASE \E l \in Launches : D!Launch(l)
    BY <1>1, <2>1 DEF D!Launch, Quiet
  <2>2. CASE \E p \in Procs : D!Start(p) \/ D!IgnoreHup(p) \/ D!Exit(p)
    BY <1>1, <2>2 DEF D!Start, D!IgnoreHup, D!Exit, Quiet
  <2>3. CASE \E p \in Procs : D!CheckFds(p)
    BY <1>1, <2>3 DEF D!CheckFds, Quiet
  <2>4. CASE \E p \in Procs : Lock(p) \/ Truncate(p) \/ WritePid(p)
    BY <1>1, <2>4 DEF Lock, Truncate, WritePid, Quiet
  <2>5. CASE \E s \in D!Sessions : D!Hangup(s)
    BY <1>1, <2>5 DEF D!Hangup, Quiet, Procs
  <2>6. CASE UNCHANGED vars
    BY <1>1, <2>6 DEF vars, Quiet
  <2> QED
    BY <2>1, <2>2, <2>3, <2>4, <2>5, <2>6
<1> QED
  BY <1>1, <1>2, AllQuiet

LEMMA StepCutOff ==
  ASSUME \A d \in Inherited : d < D!CloseLimit, IInv, CutOff, [Next]_vars
  PROVE  CutOff'
<1> USE DEF Plain, Procs
<1>1. CASE DaemonStep
  BY <1>1, CutOffFork1, CutOffFork2, CutOffSetsid, CutOffCloseAll, CutOffOpenNull,
     CutOffOpenTty, CutOffQuiet DEF DaemonStep
<1>2. CASE \E p \in Procs : FileStep(p)
  BY <1>2, CutOffOpenLockFile, CutOffAlreadyRunning, CutOffQuiet DEF FileStep
<1>3. CASE UNCHANGED vars
  BY <1>3, CutOffQuiet
<1> QED
  BY <1>1, <1>2, <1>3, NextSplit

\* A daemon has no controlling terminal whatever it opens, has left the login
\* session, has /dev/null on 0, 1 and 2, nothing it inherited and one lock file
\* (the coding rules at lines 88-160 and lockfile() at 39-58), provided all that
\* was open when it started lay below the limit up to which the loop closes.
THEOREM Detached ==
  ASSUME \A d \in Inherited : d < D!CloseLimit
  PROVE  Spec => []DaemonDetached
<1>1. ASSUME IInv, CutOff PROVE DaemonDetached
  <2>1. ASSUME NEW p \in Procs, pc[p] \in Inside
        PROVE  \E l \in Launches : p = <<l, 3>>
    BY <2>1, <1>1, StepOf DEF Inside, D!Dead, LauncherSteps, LeaderSteps
  <2>2. \A l \in Launches : DetachedOf(l)
    BY <1>1 DEF CutOff
  <2>3. ASSUME NEW p \in Procs, pc[p] = "daemon"
        PROVE  /\ sess[p] \notin ctty /\ sess[p] # D!Login /\ D!StdOnNull(p)
               /\ \A d \in D!Fd : fds[p][d] # "inherited"
    <3>1. PICK l \in Launches : p = <<l, 3>>
      BY <2>1, <2>3 DEF Inside
    <3>2. sess[p] = <<l, 2>> /\ D!StdOnNull(p) /\ \A d \in D!Fd : fds[p][d] # "inherited"
      BY <2>2, <2>3, <3>1 DEF DetachedOf, DaemonSteps, Inside
    <3>3. <<l, 2>> # D!Login
      BY DEF D!Login
    <3> QED
      BY <1>1, <3>2, <3>3 DEF CutOff
  <2>4. ASSUME NEW p \in Running
        PROVE  Cardinality({d \in D!Fd : fds[p][d] = "lockfile"}) = 1
    <3>1. PICK l \in Launches : p = <<l, 3>>
      BY <2>1, <2>4 DEF Running, Inside
    <3>2. OneLockFile(fds[p])
      BY <2>2, <2>4, <3>1 DEF Running, Inside, DetachedOf
    <3>3. PICK d \in D!Fd : {e \in D!Fd : fds[p][e] = "lockfile"} = {d}
      BY <3>2 DEF OneLockFile
    <3> QED
      BY <3>3, FS_Singleton
  <2> QED
    BY <2>3, <2>4 DEF DaemonDetached, D!DaemonHasNoTty, D!DaemonOnNull, D!NoInheritedDescriptor,
                      D!At, Procs
<1> QED
  BY <1>1, InitCutOff, StepCutOff, Invariance, PTL DEF Spec
==============================================================================
