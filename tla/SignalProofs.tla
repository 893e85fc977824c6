----------------------------- MODULE SignalProofs -----------------------------
(***************************************************************************)
(* The invariants of the programs of SignalPrograms, each with an          *)
(* inductive invariant of its own: what main() has blocked at each of its  *)
(* steps, which handlers run on top of it, and what they have left.        *)
(***************************************************************************)
EXTENDS SignalPrograms, SequencesExt, SequenceTheorems, FiniteSetTheorems, TLAPS

------------------------------------------------------------------------------
(* The stack of handlers *)

AllSigs == {"SIGINT", "SIGQUIT", "SIGUSR1", "SIGUSR2", "SIGALRM"}
Places  == {"start", "busy", "jump", "search", "unlock", "alarm"}
Frame   == [sig : AllSigs, old : SUBSET AllSigs, at : Places]

\* The signals whose handlers are in f, and in f below its i-th one.
Running(f)  == {f[i].sig : i \in DOMAIN f}
Below(f, i) == {f[j].sig : j \in 1..(i - 1)}

\* Each handler restores what main() has blocked and the signals of the handlers
\* that it has interrupted, and its own signal is not among them.
Stack(f, m) ==
  /\ f \in Seq(Frame) /\ m \subseteq AllSigs /\ Running(f) \subseteq m
  /\ \A i \in DOMAIN f : /\ f[i].old = (m \ Running(f)) \cup Below(f, i)
                         /\ f[i].sig \notin f[i].old

\* What main() has blocked.
MainMask == mask \ Running(frames)

\* The signals of one program, sigs, and what its handlers restore.
Signalled(sigs) ==
  /\ Stack(frames, mask) /\ mask \subseteq sigs /\ pend \subseteq sigs /\ sent \in 0..MaxSent

\* Whether a signal is pending, or in its handler, as a number.
Waits(s) == IF s \in pend THEN 1 ELSE 0
Runs(s)  == IF s \in Running(frames) THEN 1 ELSE 0

------------------------------------------------------------------------------
(* waitsig.c *)

\* SIGQUIT is blocked but for sigsuspend(); the flag tells of the handlers since
\* the start, then of those after the test.
WaitInv ==
  /\ Signalled(WaitSigs)
  /\ pc \in {"sigquit", "sigint", "block", "loop", "suspend", "asleep", "clear", "unblock",
             "exit", "returned", "killed"}
  /\ pc \in {"loop", "suspend", "clear", "unblock"} => MainMask = {"SIGQUIT"}
  /\ pc \in {"sigquit", "sigint", "block", "asleep", "exit", "returned"} => MainMask = {}
  /\ caught \subseteq WaitSigs /\ quitflag \in {0, 1} /\ woken \in BOOLEAN
  /\ quits \in Nat /\ tested \in Nat
  /\ quits + Waits("SIGQUIT") + Runs("SIGQUIT") <= sent
  /\ pc \in {"sigquit", "sigint", "block", "loop", "suspend", "asleep"} =>
       tested = 0 /\ (quitflag = 1 <=> quits > 0)
  /\ pc \in {"clear", "unblock", "exit", "returned"} => tested > 0
  /\ pc \in {"clear", "unblock"} => quits = tested
  /\ pc = "unblock" => quitflag = 0
  /\ pc \in {"exit", "returned"} => (quitflag = 1 <=> quits > tested)
  /\ tested <= quits

------------------------------------------------------------------------------
(* critical.c *)

\* SIGINT is blocked from sigprocmask() to the reset but for sigsuspend(), which
\* blocks SIGUSR1 instead; one SIGINT more is handled than was sent.
RegionInv ==
  /\ Signalled(RegionSigs)
  /\ pc \in {"sigaction", "block", "raise", "critical", "suspend", "asleep", "reset", "exit",
             "returned", "killed"}
  /\ pc \in {"raise", "critical", "suspend", "reset"} => MainMask = {"SIGINT"}
  /\ pc = "asleep" => MainMask = {"SIGUSR1"}
  /\ pc \in {"sigaction", "block", "exit", "returned"} => MainMask = {}
  /\ caught \subseteq {"SIGINT"} /\ (pc \notin {"sigaction", "killed"} => caught = {"SIGINT"})
  /\ woken \in BOOLEAN /\ handled \in Nat
  /\ handled + Waits("SIGINT") <= sent + 1
  /\ pc \in {"sigaction", "block", "raise"} => handled + Waits("SIGINT") <= sent

------------------------------------------------------------------------------
(* sleep1.c and sleep2.c *)

SleepTypes ==
  /\ Signalled(SleepSigs)
  /\ pc \in {"call", "setjmp", "alarm", "pause", "paused", "cancel"}
  /\ timer \in {"off", "caller", "sleep"} /\ handler \in {"caller", "sleep"}
  /\ jmpbuf \in {"unset", "live", "stale"}
  /\ woken \in BOOLEAN /\ rang \in BOOLEAN /\ early \in BOOLEAN /\ left \in BOOLEAN
  /\ calls \in Nat /\ calls <= S!Calls /\ (pc # "call" => calls > 0)

\* The alarm of the call has rung, or it is running.
SleepTimer ==
  /\ pc \in {"pause", "paused", "cancel"} => timer = (IF rang THEN "off" ELSE "sleep")
  /\ pc \in {"setjmp", "alarm"} => ~rang /\ timer # "sleep"
  /\ pc = "call" => timer # "sleep"
  /\ S!Returned => /\ timer = "off" /\ (left <=> ~rang)
                   /\ "SIGALRM" \in pend => "SIGALRM" \in MainMask

\* sleep2() has no SIGALRM before its alarm() and takes none after its end, so the
\* buffer is set whenever the handler runs.
SleepJumps ==
  /\ prog = "sleep1" => MainMask = {}
  /\ prog = "sleep2" /\ (pc \in {"setjmp", "alarm"} \/ (pc = "call" /\ calls = 0)) =>
       timer = "off" /\ "SIGALRM" \notin pend \cup Running(frames)
  /\ prog = "sleep2" /\ pc \in {"alarm", "pause", "paused", "cancel"} => jmpbuf = "live"
  /\ prog = "sleep2" /\ S!Returned => "SIGALRM" \notin Running(frames)

SleepInv == SleepTypes /\ SleepTimer /\ SleepJumps

------------------------------------------------------------------------------
(* sigsetjmp.c *)

\* Who is on its way to a jump finds its buffer set.
JumpPlaces == \A i \in DOMAIN frames : frames[i].at # "start" =>
                /\ frames[i].sig = "SIGUSR1" => pc # "sigsetjmp"
                /\ frames[i].sig = "SIGUSR2" => env

\* The buffers are set before their flags, and siglongjmp() restores an empty mask;
\* each of its calls was a SIGUSR1.
JumpInv ==
  /\ Signalled(JumpSigs)
  /\ pc \in {"sigsetjmp", "canjump", "setjmp", "canjump2", "pause", "longjmped", "returned"}
  /\ pc \notin {"longjmped", "returned"} => MainMask = {}
  /\ sigenv = IF pc = "sigsetjmp" THEN <<>> ELSE <<{}>>
  /\ env \in BOOLEAN /\ canjump \in {0, 1} /\ canjump2 \in {0, 1} /\ timer \in {"off", "on"}
  /\ canjump = 1 => pc # "sigsetjmp"
  /\ canjump2 = 1 => env
  /\ env => pc # "sigsetjmp"
  /\ pc \in {"canjump2", "pause", "longjmped"} => env
  /\ JumpPlaces
  /\ jumps \in Nat /\ jumps + Waits("SIGUSR1") + Runs("SIGUSR1") <= sent

------------------------------------------------------------------------------
(* alarm.c, alarmread.c and sigaction.c *)

Armed == IF timer = "on" THEN 1 ELSE 0
\* How many alarms ring, after the second alarm() of alarm.c.
Rings == IF left THEN 1 ELSE 2

AlarmTypes ==
  /\ Signalled(AlarmSigs) /\ MainMask = {}
  /\ pc \in {"signal", "alarm", "again", "wait", "waiting", "after", "write", "done", "failed",
             "killed"}
  /\ pc = "again" => prog = "alarm"
  /\ pc \in {"write", "failed"} => prog = "alarmread"
  /\ caught = IF pc \in {"signal", "killed"} THEN {} ELSE {"SIGALRM"}
  /\ timer \in {"off", "on"} /\ handled \in Nat
  /\ woken \in BOOLEAN /\ early \in BOOLEAN /\ left \in BOOLEAN
  /\ input \in {"none", "some", "full"} /\ n \in {"none", "-1", "some", "full"}

\* Each handler was a signal that was sent, or one of the alarms so far.
AlarmCount ==
  /\ handled + Waits("SIGALRM") + Armed <= sent + 2
  /\ pc = "again" => handled + Waits("SIGALRM") + Armed <= sent + 1
  /\ pc \in {"signal", "alarm", "killed"} =>
       timer = "off" /\ handled + Waits("SIGALRM") <= sent

\* alarm.c: an alarm is running, pending or handled, and pause() ends after the last.
AlarmOnce ==
  prog = "alarm" /\ sent = 0 =>
    /\ pc \in {"signal", "alarm"} => handled = 0 /\ pend = {}
    /\ pc = "again" => handled + Waits("SIGALRM") + Armed = 1
    /\ pc \in {"wait", "waiting", "after", "done"} =>
         handled + Waits("SIGALRM") + Armed = Rings /\ handled >= Rings - 1
    /\ pc = "waiting" /\ woken => handled = Rings
    /\ pc \in {"after", "done"} => handled = Rings

AlarmInv == AlarmTypes /\ AlarmCount /\ AlarmOnce /\ A!CancelledInTime

------------------------------------------------------------------------------
(* reentrant.c *)

\* The lock belongs to whoever is between getting it and giving it back.
PwInv ==
  /\ Signalled(AlarmSigs) /\ MainMask = {}
  /\ pc \in {"signal", "lock", "search", "unlock", "compare", "exit"}
  /\ timer \in {"off", "on"} /\ holder \in {"none", "main", "handler"}
  /\ result \in {"none", "main", "handler"} /\ late \in BOOLEAN /\ wrong \in BOOLEAN
  /\ holder = "main" <=> pc \in {"search", "unlock"}
  /\ holder = "handler" <=> frames # <<>> /\ Last(frames).at \in {"search", "unlock"}
  /\ pc = "unlock" => result = "main"
  /\ pc = "compare" => result = "main" \/ late

------------------------------------------------------------------------------
(* sigpend.c *)

PendTypes ==
  /\ Signalled(WaitSigs)
  /\ pc \in {"signal", "block", "raise", "restore", "again", "done", "killed"}
  /\ pc \in {"raise", "restore"} => MainMask = {"SIGQUIT"}
  /\ pc \in {"signal", "block", "again", "done"} => MainMask = oldmask
  /\ caught \subseteq {"SIGQUIT"} /\ oldmask \subseteq WaitSigs
  /\ pc \notin {"signal", "killed"} => caught = {"SIGQUIT"}
  /\ raised \in 0..6 /\ handled \in Nat /\ seen \in BOOLEAN

\* How far the calls of raise() are, and what sigpending() has shown.
PendSteps ==
  /\ pc \in {"signal", "block"} => raised = 0
  /\ pc = "raise" => raised <= 3 /\ (raised > 0 => "SIGQUIT" \in pend)
  /\ pc = "restore" => raised = 3 /\ "SIGQUIT" \in pend
  /\ pc = "again" => raised >= 3
  /\ pc = "done" => raised = 6
  /\ pc \in {"restore", "again", "done"} => seen

\* The raised signals that were not pending already: one, and those after the third.
Raised == IF raised = 0 THEN 0 ELSE IF raised <= 3 THEN 1 ELSE raised - 2

\* Blocked from the start, SIGQUIT is never handled; else each is handled that was
\* not merged with one before.
PendCount ==
  /\ handled + Waits("SIGQUIT") <= sent + Raised
  /\ "SIGQUIT" \in oldmask => handled = 0 /\ (pc \in {"again", "done"} => "SIGQUIT" \in pend)
  /\ "SIGQUIT" \notin oldmask => /\ pc = "again" => handled + Waits("SIGQUIT") >= Raised
                                 /\ pc = "done" => handled >= Raised

PendInv == PendTypes /\ PendSteps /\ PendCount

------------------------------------------------------------------------------
(* usekill.c *)

\* The pid is free only after waitpid(), unless SIGCHLD is ignored.
KillInv ==
  /\ K!KillTypeOK
  /\ main = "fork" => kid = "none"
  /\ recycled => kid = "gone"
  /\ ~ignored /\ kid = "gone" => main \in {"after", "done"}
  /\ main = "after" => kid = "gone"
  /\ main # "done" => answers["after"] = "none"
  /\ K!FoundUntilReaped

------------------------------------------------------------------------------
(* orphan.c *)

\* Who has stopped itself has a handler, and so has who is sent SIGHUP.
OrphanInv ==
  /\ K!OrphanTypeOK
  /\ parent = "fork" => kid = "none"
  /\ kid \in {"stop", "read", "reading", "done"} => catches
  /\ stopped => kid = "read"
  /\ hup => catches
  /\ K!OrphanSurvives

------------------------------------------------------------------------------
(* canon.c *)

\* The echo is off, and nothing but what is typed then is read, only while no
\* signal but SIGQUIT can end or stop the program.
PassInv ==
  /\ pend \subseteq PassSigs /\ frames = <<>> /\ sent \in 0..MaxSent
  /\ pc \in {"fopen", "block", "getattr", "setattr", "getc", "restore", "unmask", "clear",
             "done", "failed"}
  /\ before \in [mask : {{}, {"SIGINT"}}, echo : BOOLEAN]
  /\ mask = IF pc \in {"fopen", "block", "clear", "done", "failed"} THEN before.mask
            ELSE before.mask \cup {"SIGINT", "SIGTSTP"}
  /\ osig \subseteq PassSigs /\ (pc \notin {"fopen", "block", "failed"} => osig = before.mask)
  /\ oldterm \in BOOLEAN
  /\ pc \notin {"fopen", "block", "getattr", "failed"} => oldterm = before.echo
  /\ echo = IF pc \in {"getc", "restore"} THEN FALSE ELSE before.echo
  /\ pc \in {"getc", "restore"} => ~stopped /\ by \in {"none", "SIGQUIT"}
  /\ queue \in Seq({"shown", "hidden", "newline"}) /\ Len(queue) <= typed /\ typed \in 0..MaxTyped
  /\ pc = "getc" => queue \in Seq({"hidden", "newline"})
  /\ buf \in Seq({"hidden"}) /\ Len(buf) <= MaxPass
  /\ by \in PassSigs \cup {"none"} /\ stopped \in BOOLEAN

------------------------------------------------------------------------------
(* The programs of 18-termios that change a setting *)

Fields   == {"icanon", "isig", "intr", "quit", "susp", "eof", "vmin", "vtime", "other"}
Settings == [icanon : BOOLEAN, isig : BOOLEAN, intr : T!Keys \cup {"none"}, quit : T!Keys,
             susp : T!Keys, eof : T!Keys, vmin : {0, 1, 3}, vtime : {0, 20},
             other : {"as found", "changed"}]

\* What can be changed, and the stages that set f.
Fits(change) == \A t \in Settings : T!Changed(t, change) \in Settings
Changes(p, i, f) == p[i].do = "set" /\ f \in DOMAIN p[i].change

Commands == {"cat", "stty", "top", "yes"}

\* A program gets the settings once first, before it sets or restores any, and if it clears
\* ISIG it keeps ICANON and has no command that reads nothing.
WellStaged(p) ==
  /\ Len(p) \in Nat \ {0} /\ DOMAIN p = 1..Len(p)
  /\ \E g \in 1..Len(p) : /\ \A i \in 1..Len(p) : p[i].do = "get" <=> i = g
                          /\ \A i \in 1..g : p[i].do \notin {"again", "set", "restore"}
  /\ \A i \in 1..Len(p) :
       /\ p[i].do = "set" => Fits(p[i].change)
       /\ p[i].do = "system" => p[i].cmd \in Commands /\ p[i] = T!Command(p[i].cmd)
  /\ (\E i \in 1..Len(p) : Changes(p, i, "isig")) =>
       \A j \in 1..Len(p) : ~Changes(p, j, "icanon") /\ p[j] # T!Command("yes")

\* What is typed, with the stage that it was typed for.
Typed == [at : Nat, is : {"char", "newline", "eof"}]

ModesTypes ==
  /\ stages \in T!Programs /\ at \in 1..(Len(stages) + 1) /\ runs \in 1..MaxRuns
  /\ term \in Settings /\ local \in Settings /\ oldterm \in Settings /\ before \in Settings
  /\ queue \in Seq(Typed) /\ Len(queue) <= MaxKeys
  /\ \A i \in DOMAIN queue : queue[i].at <= at
  /\ by \in {"none", "exit0", "exit1", "SIGINT", "SIGQUIT", "SIGTERM"}
  /\ cmd \in Commands \cup {"none"} /\ stopped \in BOOLEAN
  /\ by # "none" => queue = <<>> /\ cmd = "none"
  /\ by = "exit0" => at = Len(stages) + 1
  /\ cmd # "none" => at <= Len(stages) /\ stages[at] = T!Command(cmd)

\* A stage that main() has been through sets f; it is past tcgetattr().
SetBefore(f) == \E i \in 1..(at - 1) : Changes(stages, i, f)
HasGot       == by = "none" /\ \E i \in 1..(at - 1) : stages[i].do = "get"

\* What differs from the settings of the start has been set, in the terminal and in
\* the copy of main(), and oldterm is what the terminal had.
ModesSettings ==
  /\ \A f \in Fields : term[f] # before[f] => SetBefore(f)
  /\ HasGot => oldterm = before /\ \A f \in Fields : local[f] # before[f] => SetBefore(f)
  /\ at = Len(stages) + 1 /\ stages[Len(stages)].do = "restore" => term = before
  /\ T!FreshInput

ModesInv == ModesTypes /\ ModesSettings

------------------------------------------------------------------------------
(* All programs *)

IInv ==
  /\ prog \in {"waitsig", "critical", "sleep1", "sleep2", "sigsetjmp", "alarm", "alarmread",
              "sigaction", "reentrant", "sigpend", "usekill", "orphan", "getpass", "modes"}
  /\ prog = "waitsig" => WaitInv
  /\ prog = "critical" => RegionInv
  /\ prog \in {"sleep1", "sleep2"} => SleepInv
  /\ prog = "sigsetjmp" => JumpInv
  /\ prog \in {"alarm", "alarmread", "sigaction"} => AlarmInv
  /\ prog = "reentrant" => PwInv
  /\ prog = "sigpend" => PendInv
  /\ prog = "usekill" => KillInv
  /\ prog = "orphan" => OrphanInv
  /\ prog = "getpass" => PassInv
  /\ prog = "modes" => ModesInv

------------------------------------------------------------------------------
(* Lemmas on the stack of handlers *)

\* A signal that is not blocked comes on top.
LEMMA Push ==
  ASSUME NEW f, NEW m, Stack(f, m), NEW s \in AllSigs, s \notin m
  PROVE  LET g == Append(f, [sig |-> s, old |-> m, at |-> "start"])
         IN  /\ Stack(g, m \cup {s}) /\ Running(g) = Running(f) \cup {s}
             /\ g # <<>> /\ Last(g).sig = s /\ Last(g).at = "start"
<1> DEFINE new == [sig |-> s, old |-> m, at |-> "start"]
           g   == Append(f, new)
<1>1. f \in Seq(Frame) /\ new \in Frame
  <2>1. f \in Seq(Frame) /\ m \in SUBSET AllSigs
    BY DEF Stack
  <2>2. new \in Frame
    BY <2>1 DEF Frame, Places
  <2> QED
    BY <2>1, <2>2
<1>2. /\ g \in Seq(Frame) /\ g # <<>> /\ Len(g) = Len(f) + 1
      /\ \A i \in 1..Len(f) : g[i] = f[i]
      /\ g[Len(f) + 1] = new
  BY <1>1, AppendProperties
<1> HIDE DEF g
<1>3. Len(f) \in Nat /\ DOMAIN f = 1..Len(f) /\ DOMAIN g = 1..(Len(f) + 1)
  BY <1>1, <1>2, LenProperties
<1>4. Last(g) = new
  BY <1>2 DEF Last
<1>5. Running(g) = Running(f) \cup {s}
  <2>1. \A i \in DOMAIN f : i \in DOMAIN g /\ g[i].sig = f[i].sig
    BY <1>2, <1>3
  <2>2. Len(f) + 1 \in DOMAIN g /\ g[Len(f) + 1].sig = s
    BY <1>2, <1>3
  <2>3. \A i \in DOMAIN g : i \in DOMAIN f \/ i = Len(f) + 1
    BY <1>3
  <2> QED
    BY <2>1, <2>2, <2>3 DEF Running
<1>6. Running(f) \subseteq m /\ m \subseteq AllSigs
  BY DEF Stack
<1>7. ASSUME NEW i \in DOMAIN g
      PROVE  /\ g[i].old = ((m \cup {s}) \ Running(g)) \cup Below(g, i)
             /\ g[i].sig \notin g[i].old
  <2>0. (m \cup {s}) \ Running(g) = m \ Running(f)
    BY <1>5, <1>6
  <2>1. CASE i \in DOMAIN f
    <3>1. \A j \in 1..(i - 1) : g[j] = f[j]
      BY <1>2, <1>3, <2>1
    <3>2. Below(g, i) = Below(f, i)
      BY <3>1 DEF Below
    <3>3. g[i] = f[i]
      BY <1>2, <1>3, <2>1
    <3>4. f[i].old = (m \ Running(f)) \cup Below(f, i) /\ f[i].sig \notin f[i].old
      BY <2>1 DEF Stack
    <3> QED
      BY <2>0, <3>2, <3>3, <3>4
  <2>2. CASE i = Len(f) + 1
    <3>1. i - 1 = Len(f) /\ \A j \in 1..(i - 1) : g[j] = f[j]
      BY <1>2, <1>3, <2>2
    <3>2. Below(g, i) = Running(f)
      BY <1>3, <3>1 DEF Below, Running
    <3>3. g[i].old = m /\ g[i].sig = s
      BY <1>2, <2>2
    <3> QED
      BY <1>6, <2>0, <3>2, <3>3
  <2> QED
    BY <1>3, <2>1, <2>2
<1>8. Stack(g, m \cup {s})
  BY <1>2, <1>5, <1>6, <1>7 DEF Stack
<1> QED
  BY <1>2, <1>4, <1>5, <1>8 DEF g

\* The topmost one returns: only its own signal is not blocked any more.
LEMMA Pop ==
  ASSUME NEW f, NEW m, Stack(f, m), f # <<>>
  PROVE  /\ Stack(Front(f), Last(f).old)
         /\ Running(Front(f)) = Running(f) \ {Last(f).sig}
         /\ Last(f).old = m \ {Last(f).sig}
         /\ Last(f).sig \in Running(f)
<1> DEFINE k == Len(f)  g == Front(f)  s == f[k].sig  o == f[k].old
<1>1. f \in Seq(Frame) /\ k \in Nat /\ k > 0 /\ DOMAIN f = 1..k
  <2>1. f \in Seq(Frame)
    BY DEF Stack
  <2> QED
    BY <2>1, EmptySeq, LenProperties
<1>2. g \in Seq(Frame) /\ Len(g) = k - 1 /\ \A i \in 1..(k - 1) : g[i] = f[i]
  <2>1. g = SubSeq(f, 1, k - 1)
    BY DEF Front
  <2>2. \A i \in 1..(k - 1) : f[i] \in Frame
    BY <1>1, ElementOfSeq
  <2>3. k - 1 \in Int /\ 1 \in Int
    BY <1>1
  <2>4. /\ SubSeq(f, 1, k - 1) \in Seq(Frame)
        /\ Len(SubSeq(f, 1, k - 1)) = IF 1 <= k - 1 THEN k - 1 - 1 + 1 ELSE 0
        /\ \A i \in 1..(k - 1 - 1 + 1) : SubSeq(f, 1, k - 1)[i] = f[1 + i - 1]
    BY <2>2, <2>3, SubSeqProperties
  <2>5. k - 1 - 1 + 1 = k - 1 /\ \A i \in 1..(k - 1) : 1 + i - 1 = i
    BY <1>1
  <2>6. Len(SubSeq(f, 1, k - 1)) = k - 1
    BY <1>1, <2>4
  <2> QED
    BY <2>1, <2>4, <2>5, <2>6
<1>3. DOMAIN g = 1..(k - 1)
  BY <1>2, LenProperties
<1>4. Running(g) = Below(f, k)
  BY <1>2, <1>3 DEF Running, Below
<1>5. Running(f) = Below(f, k) \cup {s}
  BY <1>1 DEF Running, Below
<1>6. o = (m \ Running(f)) \cup Below(f, k) /\ s \notin o
  BY <1>1 DEF Stack
<1>7. Running(f) \subseteq m /\ m \subseteq AllSigs
  BY DEF Stack
<1>8. Running(g) = Running(f) \ {s} /\ o = m \ {s} /\ o \ Running(g) = m \ Running(f)
  BY <1>4, <1>5, <1>6, <1>7
<1>9. ASSUME NEW i \in DOMAIN g
      PROVE  g[i].old = (o \ Running(g)) \cup Below(g, i) /\ g[i].sig \notin g[i].old
  <2>1. i \in DOMAIN f /\ g[i] = f[i] /\ \A j \in 1..(i - 1) : g[j] = f[j]
    BY <1>1, <1>2, <1>3
  <2>2. Below(g, i) = Below(f, i)
    BY <2>1 DEF Below
  <2>3. f[i].old = (m \ Running(f)) \cup Below(f, i) /\ f[i].sig \notin f[i].old
    BY <2>1 DEF Stack
  <2> QED
    BY <1>8, <2>1, <2>2, <2>3
<1>10. Stack(g, o)
  BY <1>2, <1>7, <1>8, <1>9 DEF Stack
<1> QED
  BY <1>5, <1>8, <1>10 DEF Last

\* A handler that goes on stays where it is.
LEMMA Move ==
  ASSUME NEW f, NEW m, Stack(f, m), f # <<>>, NEW w \in Places
  PROVE  LET g == [f EXCEPT ![Len(f)].at = w]
         IN  /\ Stack(g, m) /\ Running(g) = Running(f) /\ g # <<>> /\ DOMAIN g = DOMAIN f
             /\ Len(g) = Len(f) /\ Last(g).at = w /\ Last(g).sig = Last(f).sig
             /\ \A i \in DOMAIN f : g[i].sig = f[i].sig /\ (i # Len(f) => g[i] = f[i])
<1> DEFINE k == Len(f)  new == [f[k] EXCEPT !.at = w]
           g == [f EXCEPT ![Len(f)].at = w]
<1>1. f \in Seq(Frame) /\ k \in 1..k /\ DOMAIN f = 1..k /\ k \in Nat
  <2>1. f \in Seq(Frame)
    BY DEF Stack
  <2> QED
    BY <2>1, EmptySeq, LenProperties
<1>2. f[k] \in Frame
  BY <1>1, ElementOfSeq
<1>3. new \in Frame /\ new.sig = f[k].sig /\ new.old = f[k].old /\ new.at = w
  BY <1>2 DEF Frame
<1>4. g = [f EXCEPT ![k] = new]
  OBVIOUS
<1>5. /\ g \in Seq(Frame) /\ Len(g) = k
      /\ \A j \in 1..k : g[j] = IF j = k THEN new ELSE f[j]
  <2> HIDE DEF new
  <2> QED
    BY <1>1, <1>3, <1>4, ExceptSeq
<1> HIDE DEF g
<1>6. DOMAIN g = 1..k /\ g # <<>>
  <2>1. DOMAIN g = 1..Len(g)
    BY <1>5, LenProperties
  <2> QED
    BY <1>1, <1>5, <2>1, EmptySeq
<1>7. \A i \in DOMAIN f : /\ g[i].sig = f[i].sig /\ g[i].old = f[i].old
                          /\ i # k => g[i] = f[i]
  BY <1>1, <1>3, <1>5
<1>8. Running(g) = Running(f)
  BY <1>1, <1>6, <1>7 DEF Running
<1>9. \A i \in DOMAIN f : Below(g, i) = Below(f, i)
  <2> SUFFICES ASSUME NEW i \in DOMAIN f PROVE Below(g, i) = Below(f, i)
    OBVIOUS
  <2>1. \A j \in 1..(i - 1) : g[j].sig = f[j].sig
    BY <1>1, <1>7
  <2> QED
    BY <2>1 DEF Below
<1>10. Stack(g, m)
  <2>1. Running(g) \subseteq m /\ m \subseteq AllSigs
    BY <1>8 DEF Stack
  <2>2. \A i \in DOMAIN g : g[i].old = (m \ Running(g)) \cup Below(g, i) /\ g[i].sig \notin g[i].old
    BY <1>1, <1>6, <1>7, <1>8, <1>9 DEF Stack
  <2> QED
    BY <1>5, <2>1, <2>2 DEF Stack
<1>11. Last(g).at = w /\ Last(g).sig = Last(f).sig
  BY <1>1, <1>3, <1>5 DEF Last
<1> QED
  BY <1>1, <1>5, <1>6, <1>7, <1>8, <1>10, <1>11 DEF g

\* Nobody is in a handler.
LEMMA Empty == /\ Running(<<>>) = {}
               /\ \A m \in SUBSET AllSigs : Stack(<<>>, m)
<1>1. DOMAIN <<>> = {} /\ <<>> \in Seq(Frame)
  BY EmptySeq
<1>2. Running(<<>>) = {}
  BY <1>1 DEF Running
<1> QED
  BY <1>1, <1>2 DEF Stack

\* No signal is twice on the stack.
LEMMA Distinct ==
  ASSUME NEW f, NEW m, Stack(f, m), NEW i \in DOMAIN f, NEW j \in DOMAIN f, i < j
  PROVE  f[i].sig # f[j].sig
<1>1. f \in Seq(Frame) /\ DOMAIN f = 1..Len(f) /\ Len(f) \in Nat
  <2>1. f \in Seq(Frame)
    BY DEF Stack
  <2> QED
    BY <2>1, LenProperties
<1>2. f[i].sig \in Below(f, j)
  <2>1. i \in 1..(j - 1)
    BY <1>1
  <2> QED
    BY <2>1 DEF Below
<1>3. f[j].old = (m \ Running(f)) \cup Below(f, j) /\ f[j].sig \notin f[j].old
  BY DEF Stack
<1> QED
  BY <1>2, <1>3

\* What is below the topmost handler stays where it is.
LEMMA FrontBelow ==
  ASSUME NEW f, NEW m, Stack(f, m), f # <<>>
  PROVE  \A i \in DOMAIN Front(f) : i \in DOMAIN f /\ Front(f)[i] = f[i]
<1>1. f \in Seq(Frame)
  BY DEF Stack
<1>2. DOMAIN f = 1..Len(f) /\ Len(f) \in Nat /\ Len(f) > 0
  BY <1>1, EmptySeq, LenProperties
<1>3. Front(f) = [i \in 1..(Len(f) - 1) |-> f[i]]
  <2>1. Front(f) = SubSeq(f, 1, Len(f) - 1)
    BY DEF Front
  <2>2. SubSeq(f, 1, Len(f) - 1) = Restrict(f, 1..(Len(f) - 1))
    BY <1>1, <1>2, SubSeqRestrict
  <2> QED
    BY <1>2, <2>1, <2>2 DEF Restrict
<1> QED
  BY <1>2, <1>3

------------------------------------------------------------------------------
(* What a step does to the signals of its program *)

\* The steps of module Signals are the same in each of its instances.
LEMMA SameSteps ==
  ASSUME NEW s, NEW m, NEW w
  PROVE  /\ (C!Enter(s) <=> W!Enter(s)) /\ (S!Enter(s) <=> W!Enter(s))
         /\ (J!Enter(s) <=> W!Enter(s)) /\ (A!Enter(s) <=> W!Enter(s))
         /\ (C!Send(s) <=> W!Send(s)) /\ (S!Send(s) <=> W!Send(s))
         /\ (J!Send(s) <=> W!Send(s)) /\ (A!Send(s) <=> W!Send(s))
         /\ (C!Raise(s) <=> W!Raise(s)) /\ (S!Raise(s) <=> W!Raise(s))
         /\ (J!Raise(s) <=> W!Raise(s)) /\ (A!Raise(s) <=> W!Raise(s))
         /\ (C!Leave <=> W!Leave) /\ (S!Leave <=> W!Leave)
         /\ (J!Leave <=> W!Leave) /\ (A!Leave <=> W!Leave)
         /\ (C!SetMask(m) <=> W!SetMask(m)) /\ (S!Longjmp <=> W!Longjmp)
         /\ (J!Longjmp <=> W!Longjmp) /\ (J!Siglongjmp(m) <=> W!Siglongjmp(m))
         /\ (J!Moves(w) <=> W!Moves(w)) /\ (A!Moves(w) <=> W!Moves(w))
<1>1. /\ (C!Enter(s) <=> W!Enter(s)) /\ (S!Enter(s) <=> W!Enter(s))
      /\ (J!Enter(s) <=> W!Enter(s)) /\ (A!Enter(s) <=> W!Enter(s))
  BY DEF W!Enter, C!Enter, S!Enter, J!Enter, A!Enter, W!Deliverable, C!Deliverable,
         S!Deliverable, J!Deliverable, A!Deliverable
<1>2. /\ (C!Send(s) <=> W!Send(s)) /\ (S!Send(s) <=> W!Send(s))
      /\ (J!Send(s) <=> W!Send(s)) /\ (A!Send(s) <=> W!Send(s))
  BY DEF W!Send, C!Send, S!Send, J!Send, A!Send
<1>3. /\ (C!Raise(s) <=> W!Raise(s)) /\ (S!Raise(s) <=> W!Raise(s))
      /\ (J!Raise(s) <=> W!Raise(s)) /\ (A!Raise(s) <=> W!Raise(s))
  BY DEF W!Raise, C!Raise, S!Raise, J!Raise, A!Raise
<1>4. /\ (C!Leave <=> W!Leave) /\ (S!Leave <=> W!Leave)
      /\ (J!Leave <=> W!Leave) /\ (A!Leave <=> W!Leave)
  BY DEF W!Leave, C!Leave, S!Leave, J!Leave, A!Leave, W!LeaveTo, C!LeaveTo, S!LeaveTo, J!LeaveTo,
         A!LeaveTo, W!Top, C!Top, S!Top, J!Top, A!Top
<1>5. /\ (C!SetMask(m) <=> W!SetMask(m)) /\ (S!Longjmp <=> W!Longjmp)
      /\ (J!Longjmp <=> W!Longjmp) /\ (J!Siglongjmp(m) <=> W!Siglongjmp(m))
      /\ (J!Moves(w) <=> W!Moves(w)) /\ (A!Moves(w) <=> W!Moves(w))
  BY DEF W!SetMask, C!SetMask, W!Longjmp, S!Longjmp, J!Longjmp, W!Siglongjmp, J!Siglongjmp,
         W!Moves, J!Moves, A!Moves
<1> QED
  BY <1>1, <1>2, <1>3, <1>4, <1>5

\* What waits for t and runs for it is the same, unless t is s.
Others(s) == \A t : t # s => Waits(t)' = Waits(t) /\ Runs(t)' = Runs(t)

\* A signal is pending until its handler is called.
LEMMA EnterStep ==
  ASSUME NEW sigs \in SUBSET AllSigs, Signalled(sigs), NEW s, W!Enter(s)
  PROVE  /\ s \in sigs /\ s \in pend /\ s \notin mask /\ s \notin Running(frames)
         /\ Signalled(sigs)' /\ MainMask' = MainMask
         /\ Running(frames)' = Running(frames) \cup {s} /\ pend' = pend \ {s} /\ sent' = sent
         /\ frames' # <<>> /\ Last(frames').sig = s /\ Last(frames').at = "start"
         /\ Waits(s) = 1 /\ Waits(s)' = 0 /\ Runs(s) = 0 /\ Runs(s)' = 1 /\ Others(s)
<1>1. /\ s \in pend \ mask /\ pend' = pend \ {s} /\ mask' = mask \cup {s} /\ sent' = sent
      /\ frames' = Append(frames, [sig |-> s, old |-> mask, at |-> "start"])
  BY DEF W!Enter, W!Deliverable
<1>2. Stack(frames, mask) /\ mask \subseteq sigs /\ pend \subseteq sigs /\ sent \in 0..MaxSent
  BY DEF Signalled
<1>3. s \in AllSigs
  BY <1>1, <1>2
<1>4. /\ Stack(frames', mask') /\ Running(frames') = Running(frames) \cup {s}
      /\ frames' # <<>> /\ Last(frames').sig = s /\ Last(frames').at = "start"
  BY <1>1, <1>2, <1>3, Push
<1>5. Running(frames) \subseteq mask
  BY <1>2 DEF Stack
<1>6. MainMask' = MainMask
  BY <1>1, <1>4, <1>5 DEF MainMask
<1>7. Signalled(sigs)'
  BY <1>1, <1>2, <1>4 DEF Signalled
<1>8. /\ Waits(s) = 1 /\ Waits(s)' = 0 /\ Runs(s) = 0 /\ Runs(s)' = 1
  BY <1>1, <1>4, <1>5 DEF Waits, Runs
<1>9. Others(s)
  BY <1>1, <1>4 DEF Others, Waits, Runs
<1> QED
  BY <1>1, <1>2, <1>4, <1>5, <1>6, <1>7, <1>8, <1>9

\* The handler that runs returns.
LEMMA LeaveStep ==
  ASSUME NEW sigs \in SUBSET AllSigs, Signalled(sigs), frames # <<>>, W!Leave,
         NEW s, s = Last(frames).sig
  PROVE  /\ s \in sigs /\ s \in mask /\ s \in Running(frames)
         /\ Signalled(sigs)' /\ MainMask' = MainMask
         /\ Running(frames)' = Running(frames) \ {s} /\ pend' = pend /\ sent' = sent
         /\ frames' = Front(frames) /\ mask' = mask \ {s}
         /\ Waits(s)' = Waits(s) /\ Runs(s) = 1 /\ Runs(s)' = 0 /\ Others(s)
<1>1. pend' = pend /\ sent' = sent /\ frames' = Front(frames) /\ mask' = Last(frames).old
  BY DEF W!Leave, W!LeaveTo, W!Top, Last, Front
<1>2. Stack(frames, mask) /\ mask \subseteq sigs /\ pend \subseteq sigs /\ sent \in 0..MaxSent
  BY DEF Signalled
<1>3. /\ Stack(frames', mask') /\ Running(frames') = Running(frames) \ {s}
      /\ mask' = mask \ {s} /\ s \in Running(frames)
  BY <1>1, <1>2, Pop
<1>4. Running(frames) \subseteq mask
  BY <1>2 DEF Stack
<1>5. MainMask' = MainMask
  BY <1>3, <1>4 DEF MainMask
<1>6. Signalled(sigs)'
  BY <1>1, <1>2, <1>3 DEF Signalled
<1>7. Waits(s)' = Waits(s) /\ Runs(s) = 1 /\ Runs(s)' = 0
  BY <1>1, <1>3 DEF Waits, Runs
<1>8. Others(s)
  BY <1>1, <1>3 DEF Others, Waits, Runs
<1> QED
  BY <1>1, <1>2, <1>3, <1>4, <1>5, <1>6, <1>7, <1>8

\* main() changes its mask, with no handler on top of it.
LEMMA MaskStep ==
  ASSUME NEW sigs \in SUBSET AllSigs, Signalled(sigs), frames = <<>>,
         NEW m \in SUBSET sigs, W!SetMask(m)
  PROVE  /\ Signalled(sigs)' /\ MainMask' = m /\ pend' = pend /\ sent' = sent
         /\ Running(frames) = {} /\ Running(frames)' = {} /\ frames' = <<>> /\ mask' = m
         /\ \A t : Waits(t)' = Waits(t) /\ Runs(t) = 0 /\ Runs(t)' = 0
<1>1. mask' = m /\ pend' = pend /\ sent' = sent /\ frames' = <<>>
  BY DEF W!SetMask
<1>2. Running(frames) = {} /\ Running(frames') = {} /\ Stack(frames', m)
  BY <1>1, Empty
<1>3. Signalled(sigs)' /\ MainMask' = m
  BY <1>1, <1>2 DEF Signalled, MainMask
<1>4. \A t : Waits(t)' = Waits(t) /\ Runs(t) = 0 /\ Runs(t)' = 0
  BY <1>1, <1>2 DEF Waits, Runs
<1> QED
  BY <1>1, <1>2, <1>3, <1>4

\* A signal comes from elsewhere, and is counted.
LEMMA SendStep ==
  ASSUME MaxSent \in Nat, NEW sigs \in SUBSET AllSigs, Signalled(sigs), NEW s \in sigs, W!Send(s)
  PROVE  /\ Signalled(sigs)' /\ MainMask' = MainMask /\ pend' = pend \cup {s} /\ sent' = sent + 1
         /\ Running(frames)' = Running(frames) /\ frames' = frames /\ mask' = mask
         /\ Waits(s)' = 1 /\ Runs(s)' = Runs(s) /\ Others(s)
<1>1. /\ sent < MaxSent /\ sent' = sent + 1 /\ pend' = pend \cup {s}
      /\ mask' = mask /\ frames' = frames
  BY DEF W!Send
<1>2. Stack(frames, mask) /\ mask \subseteq sigs /\ pend \subseteq sigs /\ sent \in 0..MaxSent
  BY DEF Signalled
<1>3. sent' \in 0..MaxSent
  BY <1>1, <1>2
<1>4. Signalled(sigs)' /\ MainMask' = MainMask
  BY <1>1, <1>2, <1>3 DEF Signalled, MainMask
<1>5. Waits(s)' = 1 /\ Runs(s)' = Runs(s) /\ Others(s)
  BY <1>1 DEF Waits, Runs, Others
<1> QED
  BY <1>1, <1>4, <1>5

\* One that the process or its alarm raises is not.
LEMMA RaiseStep ==
  ASSUME NEW sigs \in SUBSET AllSigs, Signalled(sigs), NEW s \in sigs, W!Raise(s)
  PROVE  /\ Signalled(sigs)' /\ MainMask' = MainMask /\ pend' = pend \cup {s} /\ sent' = sent
         /\ Running(frames)' = Running(frames) /\ frames' = frames /\ mask' = mask
         /\ Waits(s)' = 1 /\ Runs(s)' = Runs(s) /\ Others(s)
<1>1. pend' = pend \cup {s} /\ sent' = sent /\ mask' = mask /\ frames' = frames
  BY DEF W!Raise
<1>2. Signalled(sigs)' /\ MainMask' = MainMask
  BY <1>1 DEF Signalled, MainMask
<1>3. Waits(s)' = 1 /\ Runs(s)' = Runs(s) /\ Others(s)
  BY <1>1 DEF Waits, Runs, Others
<1> QED
  BY <1>1, <1>2, <1>3

\* A handler goes on.
LEMMA MoveStep ==
  ASSUME NEW sigs \in SUBSET AllSigs, Signalled(sigs), frames # <<>>, NEW w \in Places, W!Moves(w)
  PROVE  /\ Signalled(sigs)' /\ MainMask' = MainMask /\ pend' = pend /\ sent' = sent
         /\ mask' = mask /\ Running(frames)' = Running(frames)
         /\ frames' # <<>> /\ Last(frames').at = w /\ Last(frames').sig = Last(frames).sig
         /\ DOMAIN frames' = DOMAIN frames
         /\ \A i \in DOMAIN frames : /\ frames'[i].sig = frames[i].sig
                                     /\ i # Len(frames) => frames'[i] = frames[i]
         /\ \A t : Waits(t)' = Waits(t) /\ Runs(t)' = Runs(t)
<1>1. /\ pend' = pend /\ sent' = sent /\ mask' = mask
      /\ frames' = [frames EXCEPT ![Len(frames)].at = w]
  BY DEF W!Moves
<1>2. Stack(frames, mask)
  BY DEF Signalled
<1>3. /\ Stack(frames', mask') /\ Running(frames') = Running(frames) /\ DOMAIN frames' = DOMAIN frames
      /\ frames' # <<>> /\ Last(frames').at = w /\ Last(frames').sig = Last(frames).sig
      /\ \A i \in DOMAIN frames : /\ frames'[i].sig = frames[i].sig
                                  /\ i # Len(frames) => frames'[i] = frames[i]
  <2> DEFINE g == [frames EXCEPT ![Len(frames)].at = w]
  <2>1. /\ Stack(g, mask) /\ Running(g) = Running(frames) /\ DOMAIN g = DOMAIN frames
        /\ g # <<>> /\ Last(g).at = w /\ Last(g).sig = Last(frames).sig
        /\ \A i \in DOMAIN frames : /\ g[i].sig = frames[i].sig
                                    /\ i # Len(frames) => g[i] = frames[i]
    BY <1>2, Move, Zenon
  <2>2. frames' = g /\ mask' = mask
    BY <1>1
  <2> HIDE DEF g
  <2> QED
    BY <2>1, <2>2
<1>4. Signalled(sigs)' /\ MainMask' = MainMask
  BY <1>1, <1>3 DEF Signalled, MainMask
<1>5. \A t : Waits(t)' = Waits(t) /\ Runs(t)' = Runs(t)
  BY <1>1, <1>3 DEF Waits, Runs
<1> QED
  BY <1>1, <1>3, <1>4, <1>5

\* A jump leaves every handler, with the mask of the last one or another.
LEMMA JumpStep ==
  ASSUME NEW sigs \in SUBSET AllSigs, Signalled(sigs), mask' \in SUBSET sigs,
         frames' = <<>>, pend' = pend, sent' = sent
  PROVE  /\ Signalled(sigs)' /\ MainMask' = mask' /\ Running(frames)' = {}
         /\ \A t : Waits(t)' = Waits(t) /\ Runs(t)' = 0
<1>1. Running(frames') = {} /\ Stack(frames', mask')
  BY Empty
<1>2. Signalled(sigs)' /\ MainMask' = mask'
  BY <1>1 DEF Signalled, MainMask
<1> QED
  BY <1>1, <1>2 DEF Waits, Runs

\* A step that leaves the signals alone.
LEMMA StillStep ==
  ASSUME NEW sigs, Signalled(sigs), UNCHANGED <<pend, mask, frames, sent>>
  PROVE  /\ Signalled(sigs)' /\ MainMask' = MainMask /\ Running(frames)' = Running(frames)
         /\ \A t : Waits(t)' = Waits(t) /\ Runs(t)' = Runs(t)
BY DEF Signalled, MainMask, Waits, Runs

\* In main() no handler is running, and what is blocked is what main() has blocked.
LEMMA MainOnly ==
  ASSUME frames = <<>>
  PROVE  Running(frames) = {} /\ MainMask = mask /\ \A t : Runs(t) = 0
BY Empty DEF MainMask, Runs

\* Who is in a handler has its signal blocked, and main() has not.
LEMMA InHandler ==
  ASSUME NEW sigs \in SUBSET AllSigs, Signalled(sigs), frames # <<>>
  PROVE  /\ Last(frames).sig \in Running(frames) /\ Last(frames).sig \in mask
         /\ Last(frames).sig \in sigs /\ Last(frames).sig \notin MainMask
         /\ Len(frames) \in DOMAIN frames
<1>1. Stack(frames, mask) /\ mask \subseteq sigs
  BY DEF Signalled
<1>2. Last(frames).sig \in Running(frames)
  BY <1>1, Pop
<1>3. Running(frames) \subseteq mask
  BY <1>1 DEF Stack
<1>4. Len(frames) \in DOMAIN frames
  <2>1. frames \in Seq(Frame)
    BY <1>1 DEF Stack
  <2> QED
    BY <2>1, EmptySeq, LenProperties
<1> QED
  BY <1>1, <1>2, <1>3, <1>4 DEF MainMask

\* What TypeOK says of the signals.
LEMMA SignalTypes ==
  ASSUME NEW sigs \in SUBSET AllSigs, Signalled(sigs)
  PROVE  /\ pend \subseteq sigs /\ mask \subseteq sigs /\ sent \in 0..MaxSent
         /\ \A i \in DOMAIN frames : frames[i].sig \in sigs /\ frames[i].old \subseteq sigs
<1>1. Stack(frames, mask) /\ mask \subseteq sigs
  BY DEF Signalled
<1>2. Running(frames) \subseteq mask
  BY <1>1 DEF Stack
<1>3. \A i \in DOMAIN frames : frames[i].sig \in Running(frames)
  BY DEF Running
<1>4. ASSUME NEW i \in DOMAIN frames PROVE frames[i].old \subseteq sigs
  <2>1. frames[i].old = (mask \ Running(frames)) \cup Below(frames, i)
    BY <1>1 DEF Stack
  <2>2. Below(frames, i) \subseteq Running(frames)
    <3>1. frames \in Seq(Frame)
      BY <1>1 DEF Stack
    <3>2. \A j \in 1..(i - 1) : j \in DOMAIN frames
      BY <3>1, LenProperties
    <3> QED
      BY <3>2 DEF Below, Running
  <2> QED
    BY <1>1, <1>2, <2>1, <2>2
<1> QED
  BY <1>1, <1>2, <1>3, <1>4 DEF Signalled

\* With one signal, two or three there are no more handlers than that.
LEMMA OneAtMost ==
  ASSUME NEW x, Signalled({x}), {x} \subseteq AllSigs PROVE Len(frames) <= 1
<1>1. Stack(frames, mask)
  BY DEF Signalled
<1>2. frames \in Seq(Frame) /\ DOMAIN frames = 1..Len(frames) /\ Len(frames) \in Nat
  BY <1>1, LenProperties DEF Stack
<1>3. \A i \in DOMAIN frames : frames[i].sig \in {x}
  BY SignalTypes
<1> QED
  <2>1. SUFFICES ASSUME Len(frames) > 1 PROVE FALSE
    BY <1>2
  <2>2. 1 \in DOMAIN frames /\ 2 \in DOMAIN frames
    BY <1>2, <2>1
  <2> QED
    BY <1>1, <1>3, <2>2, Distinct

LEMMA TwoAtMost ==
  ASSUME NEW x, NEW y, Signalled({x, y}), {x, y} \subseteq AllSigs PROVE Len(frames) <= 2
<1>1. Stack(frames, mask)
  BY DEF Signalled
<1>2. frames \in Seq(Frame) /\ DOMAIN frames = 1..Len(frames) /\ Len(frames) \in Nat
  BY <1>1, LenProperties DEF Stack
<1>3. \A i \in DOMAIN frames : frames[i].sig \in {x, y}
  BY SignalTypes
<1> QED
  <2>1. SUFFICES ASSUME Len(frames) > 2 PROVE FALSE
    BY <1>2
  <2>2. 1 \in DOMAIN frames /\ 2 \in DOMAIN frames /\ 3 \in DOMAIN frames
    BY <1>2, <2>1
  <2>3. /\ frames[1].sig # frames[2].sig /\ frames[1].sig # frames[3].sig
        /\ frames[2].sig # frames[3].sig
    BY <1>1, <2>2, Distinct
  <2> QED
    BY <1>3, <2>2, <2>3

LEMMA ThreeAtMost ==
  ASSUME NEW x, NEW y, NEW z, Signalled({x, y, z}), {x, y, z} \subseteq AllSigs
  PROVE  Len(frames) <= 3
<1>1. Stack(frames, mask)
  BY DEF Signalled
<1>2. frames \in Seq(Frame) /\ DOMAIN frames = 1..Len(frames) /\ Len(frames) \in Nat
  BY <1>1, LenProperties DEF Stack
<1>3. \A i \in DOMAIN frames : frames[i].sig \in {x, y, z}
  BY SignalTypes
<1> QED
  <2>1. SUFFICES ASSUME Len(frames) > 3 PROVE FALSE
    BY <1>2
  <2>2. 1 \in DOMAIN frames /\ 2 \in DOMAIN frames /\ 3 \in DOMAIN frames /\ 4 \in DOMAIN frames
    BY <1>2, <2>1
  <2>3. /\ frames[1].sig # frames[2].sig /\ frames[1].sig # frames[3].sig
        /\ frames[1].sig # frames[4].sig /\ frames[2].sig # frames[3].sig
        /\ frames[2].sig # frames[4].sig /\ frames[3].sig # frames[4].sig
    BY <1>1, <2>2, Distinct
  <2> QED
    BY <1>3, <2>2, <2>3

------------------------------------------------------------------------------
(* waitsig.c *)

LEMMA WaitInitially == W!WaitInit => WaitInv
<1> SUFFICES ASSUME W!WaitInit PROVE WaitInv
  OBVIOUS
<1>1. /\ pend = {} /\ mask = {} /\ frames = <<>> /\ sent = 0
      /\ pc = "sigquit" /\ caught = {} /\ quitflag = 0 /\ woken = FALSE /\ quits = 0 /\ tested = 0
  BY DEF W!WaitInit, W!SigInit
<1>2. Signalled(WaitSigs) /\ MainMask = {}
  BY <1>1, Empty, SignalAssumption DEF Signalled, MainMask
<1>3. Waits("SIGQUIT") = 0 /\ Runs("SIGQUIT") = 0
  BY <1>1, Empty DEF Waits, Runs
<1>4. quits + Waits("SIGQUIT") + Runs("SIGQUIT") <= sent /\ tested <= quits
  BY <1>1, <1>3
<1>5. woken \in BOOLEAN /\ quits \in Nat /\ tested \in Nat /\ caught \subseteq WaitSigs
  BY <1>1
<1> QED
  BY <1>1, <1>2, <1>4, <1>5 DEF WaitInv

LEMMA WaitStep == WaitInv /\ W!WaitNext => WaitInv'
<1> SUFFICES ASSUME WaitInv, W!WaitNext PROVE WaitInv'
  OBVIOUS
<1> USE SignalAssumption
<1>0. WaitSigs \in SUBSET AllSigs /\ "SIGQUIT" \in WaitSigs /\ Signalled(WaitSigs)
  BY DEF WaitSigs, AllSigs, WaitInv
<1>a. sent \in Nat /\ Waits("SIGQUIT") \in {0, 1} /\ Runs("SIGQUIT") \in {0, 1}
  BY <1>0 DEF Signalled, Waits, Runs
<1>1. ASSUME UNCHANGED <<pend, mask, frames, sent>>
      PROVE  /\ Signalled(WaitSigs)' /\ MainMask' = MainMask /\ sent' = sent
             /\ Waits("SIGQUIT")' = Waits("SIGQUIT") /\ Runs("SIGQUIT")' = Runs("SIGQUIT")
  BY <1>0, <1>1, StillStep
<1>2. ASSUME frames = <<>>, NEW m \in SUBSET WaitSigs, W!SetMask(m)
      PROVE  /\ Signalled(WaitSigs)' /\ MainMask' = m /\ MainMask = mask /\ sent' = sent
             /\ Waits("SIGQUIT")' = Waits("SIGQUIT") /\ Runs("SIGQUIT")' = Runs("SIGQUIT")
  BY <1>0, <1>2, MaskStep, MainOnly
<1>3. CASE W!WaitSigaction("sigquit", "SIGQUIT", "sigint")
  BY <1>1, <1>3 DEF W!WaitSigaction, W!WaitMainStep, W!sigVars, WaitInv, WaitSigs
<1>4. CASE W!WaitSigaction("sigint", "SIGINT", "block")
  BY <1>1, <1>4 DEF W!WaitSigaction, W!WaitMainStep, W!sigVars, WaitInv, WaitSigs
<1>5. CASE W!WaitBlock
  <2>1. /\ frames = <<>> /\ pc = "block" /\ pc' = "loop" /\ W!SetMask(mask \cup {"SIGQUIT"})
        /\ UNCHANGED <<caught, quitflag, woken, quits, tested>>
    BY <1>5 DEF W!WaitBlock, W!WaitMainStep, W!InMain
  <2>2. mask = {}
    BY <2>1, MainOnly DEF WaitInv
  <2>3. mask \cup {"SIGQUIT"} \in SUBSET WaitSigs
    BY <2>2 DEF WaitSigs
  <2> QED
    BY <1>2, <2>1, <2>2, <2>3 DEF WaitInv
<1>6. CASE W!Loop
  BY <1>1, <1>6, <1>a DEF W!Loop, W!sigVars, WaitInv
<1>7. CASE W!WaitSuspend
  <2>1. W!SetMask({}) /\ {} \in SUBSET WaitSigs /\ frames = <<>>
    BY <1>7 DEF W!WaitSuspend, W!WaitMainStep, W!InMain
  <2> QED
    BY <1>2, <1>7, <2>1 DEF W!WaitSuspend, W!WaitMainStep, WaitInv
<1>8. CASE W!WaitResume
  <2>1. W!SetMask({"SIGQUIT"}) /\ {"SIGQUIT"} \in SUBSET WaitSigs /\ frames = <<>>
    BY <1>8 DEF W!WaitResume, W!WaitMainStep, W!InMain, WaitSigs
  <2> QED
    BY <1>2, <1>8, <2>1 DEF W!WaitResume, W!WaitMainStep, WaitInv
<1>9. CASE W!Clear
  BY <1>1, <1>9 DEF W!Clear, W!WaitMainStep, W!sigVars, WaitInv
<1>10. CASE W!Unblock
  <2>1. W!SetMask({}) /\ {} \in SUBSET WaitSigs /\ frames = <<>>
    BY <1>10 DEF W!Unblock, W!WaitMainStep, W!InMain
  <2> QED
    BY <1>2, <1>10, <2>1 DEF W!Unblock, W!WaitMainStep, WaitInv
<1>11. CASE W!WaitExit
  BY <1>1, <1>11 DEF W!WaitExit, W!WaitMainStep, W!sigVars, WaitInv
<1>12. ASSUME NEW s \in WaitSigs, W!WaitArrive(s) PROVE WaitInv'
  <2>1. W!Send(s) /\ UNCHANGED <<pc, caught, quitflag, woken, quits, tested>>
    BY <1>12 DEF W!WaitArrive, W!waitMainVars
  <2>2. /\ Signalled(WaitSigs)' /\ MainMask' = MainMask /\ sent' = sent + 1
        /\ Waits(s)' = 1 /\ Runs(s)' = Runs(s) /\ Others(s)
    BY <1>0, <2>1, SendStep
  <2>3. /\ Runs("SIGQUIT")' = Runs("SIGQUIT")
        /\ Waits("SIGQUIT")' = Waits("SIGQUIT") \/ Waits("SIGQUIT")' = 1
    BY <2>2 DEF Others
  <2>4. quits' + Waits("SIGQUIT")' + Runs("SIGQUIT")' <= sent'
    BY <1>a, <2>1, <2>2, <2>3 DEF WaitInv
  <2> QED
    BY <2>1, <2>2, <2>4 DEF WaitInv
<1>13. ASSUME NEW s \in WaitSigs, W!WaitDeliver(s) PROVE WaitInv'
  <2>1. CASE s \in caught
    <3>1. W!Enter(s) /\ woken' = (woken \/ pc = "asleep") /\ UNCHANGED <<pc, caught, quitflag, quits, tested>>
      BY <1>13, <2>1 DEF W!WaitDeliver
    <3>2. /\ Signalled(WaitSigs)' /\ MainMask' = MainMask /\ sent' = sent /\ Others(s)
          /\ Waits(s) = 1 /\ Waits(s)' = 0 /\ Runs(s) = 0 /\ Runs(s)' = 1
      BY <1>0, <3>1, EnterStep
    <3>3. Waits("SIGQUIT")' + Runs("SIGQUIT")' = Waits("SIGQUIT") + Runs("SIGQUIT")
      BY <3>2 DEF Others
    <3>4. Waits("SIGQUIT")' \in {0, 1} /\ Runs("SIGQUIT")' \in {0, 1}
      BY DEF Waits, Runs
    <3>5. quits' + Waits("SIGQUIT")' + Runs("SIGQUIT")' <= sent'
      BY <1>a, <3>1, <3>2, <3>3, <3>4 DEF WaitInv
    <3>6. woken' \in BOOLEAN
      BY <3>1
    <3> QED
      BY <3>1, <3>2, <3>5, <3>6 DEF WaitInv
  <2>2. CASE s \notin caught
    BY <1>1, <1>13, <2>2 DEF W!WaitDeliver, W!sigVars, WaitInv
  <2> QED
    BY <2>1, <2>2
<1>14. ASSUME NEW s \in WaitSigs, W!WaitHandler(s) PROVE WaitInv'
  <2>1. /\ frames # <<>> /\ s = Last(frames).sig /\ pc # "killed" /\ W!Leave
        /\ quitflag' = (IF s = "SIGQUIT" THEN 1 ELSE quitflag)
        /\ quits' = (IF s = "SIGQUIT" THEN quits + 1 ELSE quits)
        /\ UNCHANGED <<pc, caught, woken, tested>>
    BY <1>14 DEF W!WaitHandler, W!In, W!Alive, W!Top, Last
  <2>2. /\ Signalled(WaitSigs)' /\ MainMask' = MainMask /\ sent' = sent /\ Others(s)
        /\ Waits(s)' = Waits(s) /\ Runs(s) = 1 /\ Runs(s)' = 0
    BY <1>0, <2>1, LeaveStep
  <2>3. s \notin MainMask
    BY <1>0, <2>1, InHandler
  <2>4. CASE s = "SIGQUIT"
    <3>1. quits' + Waits("SIGQUIT")' + Runs("SIGQUIT")' <= sent'
      BY <1>a, <2>1, <2>2, <2>4 DEF WaitInv
    <3>2. pc \notin {"loop", "suspend", "clear", "unblock"}
      BY <2>3, <2>4 DEF WaitInv
    <3> QED
      BY <2>1, <2>2, <2>4, <3>1, <3>2 DEF WaitInv
  <2>5. CASE s # "SIGQUIT"
    <3>1. Waits("SIGQUIT")' = Waits("SIGQUIT") /\ Runs("SIGQUIT")' = Runs("SIGQUIT")
      BY <2>2, <2>5 DEF Others
    <3> QED
      BY <2>1, <2>2, <2>5, <3>1 DEF WaitInv
  <2> QED
    BY <2>4, <2>5
<1> QED
  BY <1>3, <1>4, <1>5, <1>6, <1>7, <1>8, <1>9, <1>10, <1>11, <1>12, <1>13, <1>14
     DEF W!WaitNext, W!WaitMain

LEMMA WaitListed == WaitInv => W!WaitTypeOK /\ W!LeavesOnQuit /\ W!NoQuitInBetween /\ W!FlagAtEnd
<1> SUFFICES ASSUME WaitInv
             PROVE  W!WaitTypeOK /\ W!LeavesOnQuit /\ W!NoQuitInBetween /\ W!FlagAtEnd
  OBVIOUS
<1>1. WaitSigs \in SUBSET AllSigs /\ Signalled(WaitSigs)
  BY DEF WaitSigs, AllSigs, WaitInv
<1>2. W!SigTypeOK
  BY <1>1, SignalTypes DEF W!SigTypeOK
<1>3. quits \in 0..MaxSent /\ tested \in 0..MaxSent
  <2>1. sent \in 0..MaxSent /\ Waits("SIGQUIT") \in Nat /\ Runs("SIGQUIT") \in Nat
    BY <1>1 DEF Signalled, Waits, Runs
  <2> QED
    BY <2>1, SignalAssumption DEF WaitInv
<1>4. W!WaitTypeOK
  BY <1>2, <1>3 DEF W!WaitTypeOK, WaitInv
<1>5. pc \in {"suspend", "clear", "unblock"} => ~W!In("SIGQUIT")
  BY <1>1, InHandler DEF WaitInv, W!In, W!Top, Last
<1> QED
  BY <1>4, <1>5 DEF WaitInv, W!LeavesOnQuit, W!NoQuitInBetween, W!FlagAtEnd

------------------------------------------------------------------------------
(* critical.c *)

LEMMA RegionInitially == C!RegionInit => RegionInv
<1> SUFFICES ASSUME C!RegionInit PROVE RegionInv
  OBVIOUS
<1>1. /\ pend = {} /\ mask = {} /\ frames = <<>> /\ sent = 0
      /\ pc = "sigaction" /\ caught = {} /\ woken = FALSE /\ handled = 0
  BY DEF C!RegionInit, C!SigInit
<1>2. Signalled(RegionSigs) /\ MainMask = {}
  BY <1>1, Empty, SignalAssumption DEF Signalled, MainMask
<1>3. Waits("SIGINT") = 0
  BY <1>1 DEF Waits
<1>4. handled + Waits("SIGINT") <= sent + 1 /\ handled + Waits("SIGINT") <= sent
  BY <1>1, <1>3
<1>5. woken \in BOOLEAN /\ handled \in Nat
  BY <1>1
<1> QED
  BY <1>1, <1>2, <1>4, <1>5 DEF RegionInv

LEMMA RegionStep == RegionInv /\ C!RegionNext => RegionInv'
<1> SUFFICES ASSUME RegionInv, C!RegionNext PROVE RegionInv'
  OBVIOUS
<1> USE SignalAssumption
<1>0. RegionSigs \in SUBSET AllSigs /\ "SIGINT" \in RegionSigs /\ Signalled(RegionSigs)
  BY DEF RegionSigs, AllSigs, RegionInv
<1>a. sent \in Nat /\ Waits("SIGINT") \in {0, 1} /\ handled \in Nat
  BY <1>0 DEF Signalled, Waits, RegionInv
<1>1. ASSUME UNCHANGED <<pend, mask, frames, sent>>
      PROVE  /\ Signalled(RegionSigs)' /\ MainMask' = MainMask /\ sent' = sent
             /\ Waits("SIGINT")' = Waits("SIGINT")
  BY <1>0, <1>1, StillStep
<1>2. ASSUME frames = <<>>, NEW m \in SUBSET RegionSigs, C!SetMask(m)
      PROVE  /\ Signalled(RegionSigs)' /\ MainMask' = m /\ MainMask = mask /\ sent' = sent
             /\ Waits("SIGINT")' = Waits("SIGINT")
  BY <1>0, <1>2, SameSteps, MaskStep, MainOnly
<1>3. CASE C!Sigaction
  BY <1>1, <1>3 DEF C!Sigaction, C!RegionMainStep, C!sigVars, RegionInv
<1>4. CASE C!RegionBlock
  <2>1. /\ frames = <<>> /\ pc = "block" /\ pc' = "raise" /\ C!SetMask(mask \cup {"SIGINT"})
        /\ UNCHANGED <<caught, woken, handled>>
    BY <1>4 DEF C!RegionBlock, C!RegionMainStep, C!InMain
  <2>2. mask = {} /\ mask \cup {"SIGINT"} \in SUBSET RegionSigs
    BY <1>0, <2>1, MainOnly DEF RegionInv
  <2> QED
    BY <1>2, <2>1, <2>2 DEF RegionInv
<1>5. CASE C!RaiseInt
  <2>1. /\ pc = "raise" /\ pc' = "critical" /\ W!Raise("SIGINT")
        /\ UNCHANGED <<caught, woken, handled>>
    BY <1>5, SameSteps DEF C!RaiseInt, C!RegionMainStep
  <2>2. /\ Signalled(RegionSigs)' /\ MainMask' = MainMask /\ sent' = sent /\ Waits("SIGINT")' = 1
    BY <1>0, <2>1, RaiseStep
  <2>3. handled' + Waits("SIGINT")' <= sent' + 1
    BY <1>a, <2>1, <2>2 DEF RegionInv
  <2> QED
    BY <2>1, <2>2, <2>3 DEF RegionInv
<1>6. CASE C!Critical
  BY <1>1, <1>6 DEF C!Critical, C!RegionMainStep, C!sigVars, RegionInv
<1>7. CASE C!Suspend
  <2>1. C!SetMask({"SIGUSR1"}) /\ {"SIGUSR1"} \in SUBSET RegionSigs /\ frames = <<>>
    BY <1>7 DEF C!Suspend, C!RegionMainStep, C!InMain, RegionSigs
  <2> QED
    BY <1>2, <1>7, <2>1 DEF C!Suspend, C!RegionMainStep, RegionInv
<1>8. CASE C!Resume
  <2>1. C!SetMask({"SIGINT"}) /\ {"SIGINT"} \in SUBSET RegionSigs /\ frames = <<>>
    BY <1>8 DEF C!Resume, C!RegionMainStep, C!InMain, RegionSigs
  <2> QED
    BY <1>2, <1>8, <2>1 DEF C!Resume, C!RegionMainStep, RegionInv
<1>9. CASE C!Reset
  <2>1. C!SetMask({}) /\ {} \in SUBSET RegionSigs /\ frames = <<>>
    BY <1>9 DEF C!Reset, C!RegionMainStep, C!InMain
  <2> QED
    BY <1>2, <1>9, <2>1 DEF C!Reset, C!RegionMainStep, RegionInv
<1>10. CASE C!RegionExit
  BY <1>1, <1>10 DEF C!RegionExit, C!RegionMainStep, C!sigVars, RegionInv
<1>11. CASE C!Handler
  <2>1. /\ frames # <<>> /\ Last(frames).sig = "SIGINT" /\ pc # "killed" /\ W!Leave
        /\ UNCHANGED <<pc, caught, woken, handled>>
    BY <1>11, SameSteps DEF C!Handler, C!In, C!Alive, C!Top, Last, C!regionMainVars
  <2>2. /\ Signalled(RegionSigs)' /\ MainMask' = MainMask /\ sent' = sent
        /\ Waits("SIGINT")' = Waits("SIGINT")
    BY <1>0, <2>1, LeaveStep
  <2> QED
    BY <2>1, <2>2 DEF RegionInv
<1>12. ASSUME NEW s \in RegionSigs, C!RegionArrive(s) PROVE RegionInv'
  <2>1. W!Send(s) /\ UNCHANGED <<pc, caught, woken, handled>>
    BY <1>12, SameSteps DEF C!RegionArrive, C!regionMainVars
  <2>2. /\ Signalled(RegionSigs)' /\ MainMask' = MainMask /\ sent' = sent + 1
        /\ Waits(s)' = 1 /\ Others(s)
    BY <1>0, <2>1, SendStep
  <2>3. Waits("SIGINT")' = Waits("SIGINT") \/ Waits("SIGINT")' = 1
    BY <2>2 DEF Others
  <2>4. /\ handled' + Waits("SIGINT")' <= sent' + 1
        /\ pc' \in {"sigaction", "block", "raise"} => handled' + Waits("SIGINT")' <= sent'
    BY <1>a, <2>1, <2>2, <2>3 DEF RegionInv
  <2> QED
    BY <2>1, <2>2, <2>4 DEF RegionInv
<1>13. ASSUME NEW s \in RegionSigs, C!RegionDeliver(s) PROVE RegionInv'
  <2>1. CASE s \in caught
    <3>1. /\ W!Enter(s) /\ handled' = handled + 1 /\ woken' = (woken \/ pc = "asleep")
          /\ UNCHANGED <<pc, caught>> /\ s = "SIGINT"
      BY <1>13, <2>1, SameSteps DEF C!RegionDeliver, RegionInv
    <3>2. /\ Signalled(RegionSigs)' /\ MainMask' = MainMask /\ sent' = sent
          /\ Waits("SIGINT") = 1 /\ Waits("SIGINT")' = 0
      BY <1>0, <3>1, EnterStep
    <3>3. /\ handled' + Waits("SIGINT")' = handled + Waits("SIGINT") /\ handled' \in Nat
      BY <1>a, <3>1, <3>2
    <3>4. woken' \in BOOLEAN
      BY <3>1
    <3> QED
      BY <3>1, <3>2, <3>3, <3>4 DEF RegionInv
  <2>2. CASE s \notin caught
    BY <1>1, <1>13, <2>2 DEF C!RegionDeliver, C!sigVars, RegionInv
  <2> QED
    BY <2>1, <2>2
<1> QED
  BY <1>3, <1>4, <1>5, <1>6, <1>7, <1>8, <1>9, <1>10, <1>11, <1>12, <1>13
     DEF C!RegionNext, C!RegionMain

LEMMA RegionListed == RegionInv => C!RegionTypeOK /\ C!RegionUndisturbed /\ C!MaskInHandler
<1> SUFFICES ASSUME RegionInv PROVE C!RegionTypeOK /\ C!RegionUndisturbed /\ C!MaskInHandler
  OBVIOUS
<1>1. RegionSigs \in SUBSET AllSigs /\ Signalled(RegionSigs)
  BY DEF RegionSigs, AllSigs, RegionInv
<1>2. C!SigTypeOK
  BY <1>1, SignalTypes DEF C!SigTypeOK
<1>3. handled \in 0..(MaxSent + 1)
  <2>1. sent \in 0..MaxSent /\ Waits("SIGINT") \in Nat
    BY <1>1 DEF Signalled, Waits
  <2> QED
    BY <2>1, SignalAssumption DEF RegionInv
<1>4. C!RegionTypeOK
  BY <1>2, <1>3 DEF C!RegionTypeOK, RegionInv
<1>5. C!RegionUndisturbed
  BY <1>1, InHandler DEF RegionInv, C!RegionUndisturbed, C!In, C!Top, Last
<1>6. ASSUME C!In("SIGINT") PROVE "SIGINT" \in mask /\ (pc = "asleep" => mask = RegionSigs)
  <2>1. "SIGINT" \in mask
    BY <1>1, <1>6, InHandler DEF C!In, C!Top, Last
  <2>2. pc = "asleep" => "SIGUSR1" \in mask
    BY DEF RegionInv, MainMask
  <2>3. mask \subseteq RegionSigs
    BY <1>1 DEF Signalled
  <2> QED
    BY <2>1, <2>2, <2>3 DEF RegionSigs
<1> QED
  BY <1>4, <1>5, <1>6 DEF C!MaskInHandler

\* While sigsuspend() waits SIGUSR1 is blocked, and SIGINT has its handler.
LEMMA RegionWait == RegionInv /\ C!RegionNext => C!WaitNotKilled
<1> SUFFICES ASSUME RegionInv, C!RegionNext, pc = "asleep" PROVE pc' \in {"asleep", "reset"}
  BY DEF C!WaitNotKilled
<1>1. ASSUME NEW s \in RegionSigs, C!RegionDeliver(s) PROVE pc' = pc
  <2>1. s \in pend \ mask
    BY <1>1 DEF C!RegionDeliver, C!Enter, C!Deliverable
  <2>2. "SIGUSR1" \in mask
    BY DEF RegionInv, MainMask
  <2>3. s \in caught
    BY <2>1, <2>2 DEF RegionInv, RegionSigs
  <2> QED
    BY <1>1, <2>3 DEF C!RegionDeliver
<1>2. ASSUME NEW s \in RegionSigs, C!RegionArrive(s) PROVE pc' = pc
  BY <1>2 DEF C!RegionArrive, C!regionMainVars
<1>3. C!Handler => pc' = pc
  BY DEF C!Handler, C!regionMainVars
<1>4. C!RegionMain => C!Resume
  BY DEF C!RegionMain, C!RegionMainStep, C!Sigaction, C!RegionBlock, C!RaiseInt, C!Critical,
         C!Suspend, C!Reset, C!RegionExit
<1>5. C!Resume => pc' = "reset"
  BY DEF C!Resume, C!RegionMainStep
<1> QED
  BY <1>1, <1>2, <1>3, <1>4, <1>5 DEF C!RegionNext

------------------------------------------------------------------------------
(* sleep1.c and sleep2.c *)

LEMMA SleepInitially == prog \in {"sleep1", "sleep2"} /\ S!Init => SleepInv
<1> SUFFICES ASSUME prog \in {"sleep1", "sleep2"}, S!Init PROVE SleepInv
  OBVIOUS
<1>1. /\ pend = {} /\ mask = {} /\ frames = <<>> /\ sent = 0 /\ pc = "call" /\ jmpbuf = "unset"
      /\ timer = IF prog = "sleep1" THEN "caller" ELSE "off"
      /\ handler = "caller" /\ woken = FALSE /\ rang = FALSE /\ early = FALSE /\ left = FALSE
      /\ calls = 0
  BY DEF S!Init, S!SigInit
<1>2. Signalled(SleepSigs) /\ MainMask = {} /\ Running(frames) = {}
  BY <1>1, Empty, SignalAssumption DEF Signalled, MainMask
<1>3. woken \in BOOLEAN /\ rang \in BOOLEAN /\ early \in BOOLEAN /\ left \in BOOLEAN
  BY <1>1
<1>4. calls \in Nat /\ calls <= S!Calls
  BY <1>1, SignalAssumption DEF S!Calls
<1>5. SleepTypes
  BY <1>1, <1>2, <1>3, <1>4 DEF SleepTypes
<1>6. SleepTimer /\ SleepJumps
  BY <1>1, <1>2 DEF SleepTimer, SleepJumps, S!Returned
<1> QED
  BY <1>5, <1>6 DEF SleepInv

LEMMA SleepStep ==
  prog \in {"sleep1", "sleep2"} /\ prog' = prog /\ SleepInv /\ S!Next => SleepInv'
<1> SUFFICES ASSUME prog \in {"sleep1", "sleep2"}, prog' = prog, SleepInv, S!Next PROVE SleepInv'
  OBVIOUS
<1> USE SignalAssumption
<1>0. SleepSigs \in SUBSET AllSigs /\ "SIGALRM" \in SleepSigs /\ Signalled(SleepSigs)
  BY DEF SleepSigs, AllSigs, SleepInv, SleepTypes
<1>a. S!Calls' = S!Calls /\ calls \in Nat /\ S!Calls \in Nat
  BY DEF S!Calls, SleepInv, SleepTypes
<1>b. SleepTypes /\ SleepTimer /\ SleepJumps
  BY DEF SleepInv
<1>1. ASSUME UNCHANGED <<pend, mask, frames, sent>>
      PROVE  Signalled(SleepSigs)' /\ MainMask' = MainMask /\ Running(frames)' = Running(frames)
             /\ pend' = pend
  BY <1>0, <1>1, StillStep
<1>2. CASE S!Signal
  <2>1. /\ UNCHANGED <<pend, mask, frames, sent, timer, jmpbuf, woken, left>>
        /\ pc = "call" /\ pc' = "setjmp" /\ calls < S!Calls /\ calls' = calls + 1
        /\ handler' = "sleep" /\ rang' = FALSE /\ early' = FALSE
    BY <1>2 DEF S!Signal, S!MainStep, S!sigVars
  <2>2. calls' \in Nat /\ calls' <= S!Calls' /\ calls' > 0
    BY <1>a, <2>1
  <2>3. SleepTypes'
    BY <1>1, <1>b, <2>1, <2>2 DEF SleepTypes
  <2>4. SleepTimer'
    BY <1>b, <2>1 DEF SleepTimer, S!Returned
  <2>5. prog = "sleep2" => calls = 0
    BY <1>a, <2>1 DEF S!Calls
  <2>6. SleepJumps'
    BY <1>1, <1>b, <2>1, <2>5 DEF SleepJumps, S!Returned
  <2> QED
    BY <2>3, <2>4, <2>6 DEF SleepInv
<1>3. CASE S!Setjmp
  <2>1. /\ UNCHANGED <<pend, mask, frames, sent, timer, handler, woken, rang, early, left, calls>>
        /\ pc = "setjmp" /\ pc' = "alarm"
        /\ jmpbuf' = IF prog = "sleep2" THEN "live" ELSE jmpbuf
    BY <1>3 DEF S!Setjmp, S!MainStep, S!sigVars
  <2>2. SleepTypes'
    BY <1>1, <1>a, <1>b, <2>1 DEF SleepTypes
  <2>3. SleepTimer' /\ SleepJumps'
    BY <1>1, <1>b, <2>1 DEF SleepTimer, SleepJumps, S!Returned
  <2> QED
    BY <2>2, <2>3 DEF SleepInv
<1>4. CASE S!Alarm
  <2>1. /\ UNCHANGED <<pend, mask, frames, sent, handler, jmpbuf, woken, rang, early, left, calls>>
        /\ pc = "alarm" /\ pc' = "pause" /\ timer' = "sleep"
    BY <1>4 DEF S!Alarm, S!MainStep, S!sigVars
  <2>2. SleepTypes'
    BY <1>1, <1>a, <1>b, <2>1 DEF SleepTypes
  <2>3. SleepTimer' /\ SleepJumps'
    BY <1>1, <1>b, <2>1 DEF SleepTimer, SleepJumps, S!Returned
  <2> QED
    BY <2>2, <2>3 DEF SleepInv
<1>5. CASE S!Pause
  <2>1. /\ UNCHANGED <<pend, mask, frames, sent, timer, handler, jmpbuf, rang, early, left, calls>>
        /\ pc = "pause" /\ pc' = "paused" /\ woken' = FALSE
    BY <1>5 DEF S!Pause, S!MainStep, S!sigVars
  <2>2. SleepTypes'
    BY <1>1, <1>a, <1>b, <2>1 DEF SleepTypes
  <2>3. SleepTimer' /\ SleepJumps'
    BY <1>1, <1>b, <2>1 DEF SleepTimer, SleepJumps, S!Returned
  <2> QED
    BY <2>2, <2>3 DEF SleepInv
<1>6. CASE S!Wake
  <2>1. /\ UNCHANGED <<pend, mask, frames, sent, timer, handler, jmpbuf, woken, rang, early, left, calls>>
        /\ pc = "paused" /\ pc' = "cancel"
    BY <1>6 DEF S!Wake, S!MainStep, S!sigVars
  <2>2. SleepTypes'
    BY <1>1, <1>a, <1>b, <2>1 DEF SleepTypes
  <2>3. SleepTimer' /\ SleepJumps'
    BY <1>1, <1>b, <2>1 DEF SleepTimer, SleepJumps, S!Returned
  <2> QED
    BY <2>2, <2>3 DEF SleepInv
<1>7. CASE S!Cancel
  <2>1. /\ UNCHANGED <<pend, mask, frames, sent, handler, woken, rang, early, calls>>
        /\ frames = <<>> /\ pc = "cancel" /\ pc' = "call" /\ timer' = "off"
        /\ left' = (timer = "sleep") /\ jmpbuf' = IF prog = "sleep2" THEN "stale" ELSE jmpbuf
        /\ \A s \in SleepSigs : s \notin pend \ mask
    BY <1>7 DEF S!Cancel, S!MainStep, S!sigVars, S!InMain, S!Deliverable
  <2>2. Running(frames) = {} /\ MainMask = mask
    BY <2>1, MainOnly
  <2>3. left' \in BOOLEAN /\ jmpbuf' \in {"unset", "live", "stale"}
    BY <1>b, <2>1 DEF SleepTypes
  <2>4. SleepTypes'
    BY <1>1, <1>a, <1>b, <2>1, <2>3 DEF SleepTypes
  <2>5. left' <=> ~rang'
    BY <1>b, <2>1 DEF SleepTimer
  <2>6. "SIGALRM" \in pend' => "SIGALRM" \in MainMask'
    BY <1>0, <1>1, <2>1, <2>2
  <2>7. SleepTimer'
    BY <2>1, <2>5, <2>6 DEF SleepTimer
  <2>9. "SIGALRM" \notin Running(frames)'
    BY <1>1, <2>1, <2>2
  <2>10. calls' > 0
    BY <1>b, <2>1 DEF SleepTypes
  <2>11. SleepJumps'
    BY <1>1, <1>b, <2>1, <2>9, <2>10 DEF SleepJumps
  <2> QED
    BY <2>4, <2>7, <2>11 DEF SleepInv
<1>8. CASE S!Ring
  <2>1. /\ W!Raise("SIGALRM") /\ timer # "off" /\ timer' = "off"
        /\ rang' = (rang \/ timer = "sleep")
        /\ UNCHANGED <<pc, handler, jmpbuf, woken, early, left, calls>>
    BY <1>8, SameSteps DEF S!Ring
  <2>2. /\ Signalled(SleepSigs)' /\ MainMask' = MainMask /\ Running(frames)' = Running(frames)
        /\ pend' = pend \cup {"SIGALRM"}
    BY <1>0, <2>1, RaiseStep
  <2>3. rang' \in BOOLEAN
    BY <2>1
  <2>4. SleepTypes'
    BY <1>a, <1>b, <2>1, <2>2, <2>3 DEF SleepTypes
  <2>5. ~S!Returned
    BY <1>b, <2>1 DEF SleepTimer
  <2>6. pc \in {"pause", "paused", "cancel"} => timer = "sleep" /\ rang'
    <3>1. timer \in {"off", "sleep"} \/ pc \notin {"pause", "paused", "cancel"}
      BY <1>b DEF SleepTimer
    <3> QED
      BY <2>1, <3>1
  <2>7. pc \in {"setjmp", "alarm"} => ~rang'
    BY <1>b, <2>1 DEF SleepTimer
  <2>8. SleepTimer'
    BY <2>1, <2>5, <2>6, <2>7 DEF SleepTimer, S!Returned
  <2>9. SleepJumps'
    BY <1>b, <2>1, <2>2, <2>5 DEF SleepJumps, S!Returned
  <2> QED
    BY <2>4, <2>8, <2>9 DEF SleepInv
<1>9. CASE S!Arrive
  <2>1. W!Send("SIGINT") /\ UNCHANGED <<pc, timer, handler, jmpbuf, woken, rang, early, left, calls>>
    BY <1>9, SameSteps DEF S!Arrive, S!mainVars
  <2>2. /\ Signalled(SleepSigs)' /\ MainMask' = MainMask /\ Running(frames)' = Running(frames)
        /\ pend' = pend \cup {"SIGINT"}
    <3>1. "SIGINT" \in SleepSigs
      BY DEF SleepSigs
    <3> QED
      BY <1>0, <2>1, <3>1, SendStep
  <2>3. SleepTypes'
    BY <1>a, <1>b, <2>1, <2>2 DEF SleepTypes
  <2>4. SleepTimer' /\ SleepJumps'
    BY <1>b, <2>1, <2>2 DEF SleepTimer, SleepJumps, S!Returned
  <2> QED
    BY <2>3, <2>4 DEF SleepInv
<1>10. CASE S!Jump
  <2>1. /\ frames # <<>> /\ Last(frames).sig = "SIGALRM" /\ prog = "sleep2" /\ pc' = "cancel"
        /\ frames' = <<>> /\ mask' = mask /\ pend' = pend /\ sent' = sent
        /\ UNCHANGED <<timer, handler, jmpbuf, woken, rang, early, left, calls>>
    BY <1>10 DEF S!Jump, S!In, S!Top, Last, S!Longjmp
  <2>2. mask' \in SUBSET SleepSigs
    BY <1>0, <2>1 DEF Signalled
  <2>3. Signalled(SleepSigs)' /\ Running(frames)' = {}
    BY <1>0, <2>1, <2>2, JumpStep
  <2>4. "SIGALRM" \in Running(frames)
    BY <1>0, <2>1, InHandler
  <2>5. pc \in {"pause", "paused", "cancel"}
    <3>1. pc = "call" => calls = 0 \/ S!Returned
      BY <1>a DEF S!Returned
    <3> QED
      BY <1>b, <2>1, <2>4, <3>1 DEF SleepJumps, SleepTypes
  <2>6. SleepTypes'
    BY <1>a, <1>b, <2>1, <2>3, <2>5 DEF SleepTypes
  <2>7. SleepTimer' /\ SleepJumps'
    BY <1>b, <2>1, <2>3, <2>5 DEF SleepTimer, SleepJumps, S!Returned
  <2> QED
    BY <2>6, <2>7 DEF SleepInv
<1>11. ASSUME NEW s \in SleepSigs, S!Deliver(s) PROVE SleepInv'
  <2>1. /\ W!Enter(s) /\ woken' = (woken \/ pc = "paused")
        /\ early' = (early \/ (s = "SIGALRM" /\ rang /\ pc # "paused"))
        /\ UNCHANGED <<pc, timer, handler, jmpbuf, rang, left, calls>>
    BY <1>11, SameSteps DEF S!Deliver
  <2>2. /\ s \in pend /\ s \notin mask /\ Signalled(SleepSigs)' /\ MainMask' = MainMask
        /\ Running(frames)' = Running(frames) \cup {s} /\ pend' = pend \ {s}
    BY <1>0, <2>1, EnterStep
  <2>3. woken' \in BOOLEAN /\ early' \in BOOLEAN
    BY <2>1
  <2>4. SleepTypes'
    BY <1>a, <1>b, <2>1, <2>2, <2>3 DEF SleepTypes
  <2>5. SleepTimer'
    BY <1>b, <2>1, <2>2 DEF SleepTimer, S!Returned
  <2>6. s \notin MainMask
    BY <2>2 DEF MainMask
  <2>7. S!Returned => s # "SIGALRM"
    BY <1>b, <2>2, <2>6 DEF SleepTimer
  <2>8. SleepJumps'
    BY <1>b, <2>1, <2>2, <2>7 DEF SleepJumps, S!Returned
  <2> QED
    BY <2>4, <2>5, <2>8 DEF SleepInv
<1>12. ASSUME NEW s \in SleepSigs, S!Return(s) PROVE SleepInv'
  <2>1. /\ frames # <<>> /\ s = Last(frames).sig /\ W!Leave
        /\ UNCHANGED <<pc, timer, handler, jmpbuf, woken, rang, early, left, calls>>
    BY <1>12, SameSteps DEF S!Return, S!In, S!Top, Last, S!mainVars
  <2>2. /\ Signalled(SleepSigs)' /\ MainMask' = MainMask
        /\ Running(frames)' = Running(frames) \ {s} /\ pend' = pend
    BY <1>0, <2>1, LeaveStep
  <2>3. SleepTypes'
    BY <1>a, <1>b, <2>1, <2>2 DEF SleepTypes
  <2>4. SleepTimer' /\ SleepJumps'
    BY <1>b, <2>1, <2>2 DEF SleepTimer, SleepJumps, S!Returned
  <2> QED
    BY <2>3, <2>4 DEF SleepInv
<1> QED
  BY <1>2, <1>3, <1>4, <1>5, <1>6, <1>7, <1>8, <1>9, <1>10, <1>11, <1>12 DEF S!Next, S!Main

\* There are as many handlers as signals at most.
LEMMA SleepListed ==
  prog \in {"sleep1", "sleep2"} /\ SleepInv => S!TypeOK /\ S!ResultTellsTruth /\ S!NoAlarmLeft
<1> SUFFICES ASSUME prog \in {"sleep1", "sleep2"}, SleepInv
             PROVE  S!TypeOK /\ S!ResultTellsTruth /\ S!NoAlarmLeft
  OBVIOUS
<1>1. SleepSigs \in SUBSET AllSigs /\ Signalled(SleepSigs) /\ SleepTypes /\ SleepTimer
  BY DEF SleepSigs, AllSigs, SleepInv, SleepTypes
<1>2. S!SigTypeOK
  BY <1>1, SignalTypes DEF S!SigTypeOK
<1>3. Len(frames) <= S!Cardinality(SleepSigs)
  <2>1. Len(frames) <= 2
    BY <1>1, TwoAtMost DEF SleepSigs
  <2>2. Cardinality(SleepSigs) = 2
    <3>1. IsFiniteSet({"SIGINT"}) /\ Cardinality({"SIGINT"}) = 1
      BY FS_Singleton
    <3>2. SleepSigs = {"SIGINT"} \cup {"SIGALRM"} /\ "SIGALRM" \notin {"SIGINT"}
      BY DEF SleepSigs
    <3> QED
      BY <3>1, <3>2, FS_AddElement
  <2>3. S!Cardinality(SleepSigs) = Cardinality(SleepSigs)
    BY DEF S!Cardinality, Cardinality
  <2> QED
    BY <2>1, <2>2, <2>3
<1>4. calls \in 0..S!Calls
  <2>1. S!Calls \in Nat
    BY SignalAssumption DEF S!Calls
  <2> QED
    BY <1>1, <2>1 DEF SleepTypes
<1>5. S!TypeOK
  BY <1>1, <1>2, <1>3, <1>4 DEF S!TypeOK, SleepTypes
<1>6. S!ResultTellsTruth
  BY <1>1 DEF SleepTimer, S!ResultTellsTruth
<1>7. S!NoAlarmLeft
  BY <1>1 DEF SleepTimer, S!NoAlarmLeft, MainMask
<1> QED
  BY <1>5, <1>6, <1>7

\* When the handler of sleep2() jumps, the call is on its way.
LEMMA SleepJumpsLive == prog = "sleep2" /\ SleepInv => S!JumpsIntoLive
<1> SUFFICES ASSUME prog = "sleep2", SleepInv, S!Jump PROVE jmpbuf = "live"
  BY DEF S!JumpsIntoLive
<1>1. SleepSigs \in SUBSET AllSigs /\ Signalled(SleepSigs) /\ SleepTypes /\ SleepJumps
  BY DEF SleepSigs, AllSigs, SleepInv, SleepTypes
<1>2. frames # <<>> /\ Last(frames).sig = "SIGALRM"
  BY DEF S!Jump, S!In, S!Top, Last
<1>3. "SIGALRM" \in Running(frames)
  BY <1>1, <1>2, InHandler
<1>4. pc = "call" => calls = 0 \/ S!Returned
  BY <1>1 DEF S!Returned, SleepTypes
<1> QED
  BY <1>1, <1>3, <1>4 DEF SleepJumps, SleepTypes

------------------------------------------------------------------------------
(* sigsetjmp.c *)

LEMMA JumpInitially == J!Init => JumpInv
<1> SUFFICES ASSUME J!Init PROVE JumpInv
  OBVIOUS
<1>1. /\ pend = {} /\ mask = {} /\ frames = <<>> /\ sent = 0 /\ pc = "sigsetjmp" /\ sigenv = <<>>
      /\ env = FALSE /\ canjump = 0 /\ canjump2 = 0 /\ timer = "off" /\ jumps = 0
  BY DEF J!Init, J!SigInit
<1>2. Signalled(JumpSigs) /\ MainMask = {}
  BY <1>1, Empty, SignalAssumption DEF Signalled, MainMask
<1>3. jumps + Waits("SIGUSR1") + Runs("SIGUSR1") <= sent
  <2>1. Waits("SIGUSR1") = 0 /\ Runs("SIGUSR1") = 0
    BY <1>1, Empty DEF Waits, Runs
  <2> QED
    BY <1>1, <2>1
<1>4. env \in BOOLEAN
  BY <1>1
<1>5. JumpPlaces
  <2>1. DOMAIN <<>> = {}
    OBVIOUS
  <2> QED
    BY <1>1, <2>1 DEF JumpPlaces
<1> QED
  BY <1>1, <1>2, <1>3, <1>4, <1>5 DEF JumpInv

LEMMA SigJumpStep == JumpInv /\ J!Next => JumpInv'
<1> SUFFICES ASSUME JumpInv, J!Next PROVE JumpInv'
  OBVIOUS
<1> USE SignalAssumption
<1>0. JumpSigs \in SUBSET AllSigs /\ Signalled(JumpSigs) /\ JumpPlaces
  BY DEF JumpSigs, AllSigs, JumpInv
<1>a. sent \in Nat /\ Waits("SIGUSR1") \in {0, 1} /\ Runs("SIGUSR1") \in {0, 1} /\ jumps \in Nat
  BY <1>0 DEF Signalled, Waits, Runs, JumpInv
<1>1. ASSUME UNCHANGED <<pend, mask, frames, sent>>
      PROVE  /\ Signalled(JumpSigs)' /\ MainMask' = MainMask /\ sent' = sent
             /\ Waits("SIGUSR1")' = Waits("SIGUSR1") /\ Runs("SIGUSR1")' = Runs("SIGUSR1")
  BY <1>0, <1>1, StillStep
<1>2. CASE J!Sigsetjmp
  <2>1. /\ UNCHANGED <<pend, mask, frames, sent, env, canjump, canjump2, timer, jumps>>
        /\ frames = <<>> /\ pc = "sigsetjmp" /\ pc' = "canjump" /\ sigenv' = <<mask>>
    BY <1>2 DEF J!Sigsetjmp, J!MainStep, J!sigVars, J!InMain
  <2>2. mask = {}
    BY <2>1, MainOnly DEF JumpInv
  <2>3. JumpPlaces'
    BY <2>1 DEF JumpPlaces
  <2> QED
    BY <1>1, <2>1, <2>2, <2>3 DEF JumpInv
<1>3. CASE J!SetCanjump
  <2>1. /\ UNCHANGED <<pend, mask, frames, sent, sigenv, env, canjump2, timer, jumps>>
        /\ frames = <<>> /\ pc = "canjump" /\ pc' = "setjmp" /\ canjump' = 1
    BY <1>3 DEF J!SetCanjump, J!MainStep, J!sigVars, J!InMain
  <2>2. JumpPlaces'
    BY <2>1 DEF JumpPlaces
  <2> QED
    BY <1>1, <2>1, <2>2 DEF JumpInv
<1>4. CASE J!Setjmp
  <2>1. /\ UNCHANGED <<pend, mask, frames, sent, sigenv, canjump, canjump2, timer, jumps>>
        /\ frames = <<>> /\ pc = "setjmp" /\ pc' = "canjump2" /\ env' = TRUE
    BY <1>4 DEF J!Setjmp, J!MainStep, J!sigVars, J!InMain
  <2>2. JumpPlaces'
    BY <2>1 DEF JumpPlaces
  <2> QED
    BY <1>1, <2>1, <2>2 DEF JumpInv
<1>5. CASE J!SetCanjump2
  <2>1. /\ UNCHANGED <<pend, mask, frames, sent, sigenv, env, canjump, timer, jumps>>
        /\ frames = <<>> /\ pc = "canjump2" /\ pc' = "pause" /\ canjump2' = 1
    BY <1>5 DEF J!SetCanjump2, J!MainStep, J!sigVars, J!InMain
  <2>2. JumpPlaces'
    BY <2>1 DEF JumpPlaces
  <2> QED
    BY <1>1, <2>1, <2>2 DEF JumpInv
<1>6. CASE J!AfterLongjmp
  <2>1. /\ UNCHANGED <<pend, mask, frames, sent, sigenv, env, canjump, canjump2, timer, jumps>>
        /\ frames = <<>> /\ pc = "longjmped" /\ pc' = "returned"
    BY <1>6 DEF J!AfterLongjmp, J!MainStep, J!sigVars, J!InMain
  <2>2. JumpPlaces'
    BY <2>1 DEF JumpPlaces
  <2> QED
    BY <1>1, <2>1, <2>2 DEF JumpInv
<1>7. ASSUME NEW s \in JumpSigs, J!Arrive(s) PROVE JumpInv'
  <2>1. W!Send(s) /\ UNCHANGED <<pc, sigenv, env, canjump, canjump2, timer, jumps>>
    BY <1>7, SameSteps DEF J!Arrive, J!mainVars
  <2>2. /\ Signalled(JumpSigs)' /\ MainMask' = MainMask /\ sent' = sent + 1
        /\ Waits(s)' = 1 /\ Runs(s)' = Runs(s) /\ Others(s) /\ frames' = frames
    BY <1>0, <2>1, SendStep
  <2>3. /\ Runs("SIGUSR1")' = Runs("SIGUSR1")
        /\ Waits("SIGUSR1")' = Waits("SIGUSR1") \/ Waits("SIGUSR1")' = 1
    BY <2>2 DEF Others
  <2>4. jumps' + Waits("SIGUSR1")' + Runs("SIGUSR1")' <= sent'
    BY <1>a, <2>1, <2>2, <2>3 DEF JumpInv
  <2>5. JumpPlaces'
    BY <1>0, <2>1, <2>2 DEF JumpPlaces
  <2> QED
    BY <2>1, <2>2, <2>4, <2>5 DEF JumpInv
<1>8. CASE J!Ring
  <2>1. W!Raise("SIGALRM") /\ timer' = "off" /\ UNCHANGED <<pc, sigenv, env, canjump, canjump2, jumps>>
    BY <1>8, SameSteps DEF J!Ring
  <2>2. /\ Signalled(JumpSigs)' /\ MainMask' = MainMask /\ sent' = sent
        /\ Others("SIGALRM") /\ frames' = frames
    <3>1. "SIGALRM" \in JumpSigs
      BY DEF JumpSigs
    <3> QED
      BY <1>0, <2>1, <3>1, RaiseStep
  <2>3. Waits("SIGUSR1")' = Waits("SIGUSR1") /\ Runs("SIGUSR1")' = Runs("SIGUSR1")
    BY <2>2 DEF Others
  <2>4. JumpPlaces'
    BY <1>0, <2>1, <2>2 DEF JumpPlaces
  <2> QED
    BY <2>1, <2>2, <2>3, <2>4 DEF JumpInv
<1>9. ASSUME NEW s \in JumpSigs, J!Deliver(s) PROVE JumpInv'
  <2>1. W!Enter(s) /\ UNCHANGED <<pc, sigenv, env, canjump, canjump2, timer, jumps>>
    BY <1>9, SameSteps DEF J!Deliver, J!mainVars
  <2>2. /\ Signalled(JumpSigs)' /\ MainMask' = MainMask /\ sent' = sent /\ Others(s)
        /\ Waits(s) = 1 /\ Waits(s)' = 0 /\ Runs(s) = 0 /\ Runs(s)' = 1
    BY <1>0, <2>1, EnterStep
  <2>3. Waits("SIGUSR1")' + Runs("SIGUSR1")' = Waits("SIGUSR1") + Runs("SIGUSR1")
    BY <2>2 DEF Others
  <2>4. Waits("SIGUSR1")' \in {0, 1} /\ Runs("SIGUSR1")' \in {0, 1}
    BY DEF Waits, Runs
  <2>5. jumps' + Waits("SIGUSR1")' + Runs("SIGUSR1")' <= sent'
    BY <1>a, <2>1, <2>2, <2>3, <2>4 DEF JumpInv
  <2>6. /\ \A i \in DOMAIN frames : frames'[i] = frames[i]
        /\ \A i \in DOMAIN frames' : i \in DOMAIN frames \/ frames'[i].at = "start"
    <3>1. frames' = Append(frames, [sig |-> s, old |-> mask, at |-> "start"])
      BY <2>1 DEF W!Enter
    <3>2. frames \in Seq(Frame) /\ frames' \in Seq(Frame)
      BY <1>0, <2>2 DEF Signalled, Stack
    <3>3. Len(frames') = Len(frames) + 1 /\ Len(frames) \in Nat
      BY <3>1, <3>2
    <3> QED
      BY <3>1, <3>2, <3>3
  <2>7. JumpPlaces'
    BY <1>0, <2>1, <2>6 DEF JumpPlaces
  <2> QED
    BY <2>1, <2>2, <2>5, <2>7 DEF JumpInv
<1>10. ASSUME NEW s \in JumpSigs, J!HandlerReturns(s) PROVE JumpInv'
  <2>1. /\ frames # <<>> /\ s = Last(frames).sig /\ W!Leave
        /\ UNCHANGED <<pc, sigenv, env, canjump, canjump2, timer, jumps>>
    BY <1>10, SameSteps DEF J!HandlerReturns, J!At, J!In, J!Top, Last, J!mainVars
  <2>2. /\ Signalled(JumpSigs)' /\ MainMask' = MainMask /\ sent' = sent /\ Others(s)
        /\ Waits(s)' = Waits(s) /\ Runs(s) = 1 /\ Runs(s)' = 0 /\ frames' = Front(frames)
    BY <1>0, <2>1, LeaveStep
  <2>3. /\ Waits("SIGUSR1")' = Waits("SIGUSR1")
        /\ Runs("SIGUSR1")' = Runs("SIGUSR1") \/ Runs("SIGUSR1")' = 0
    BY <2>2 DEF Others
  <2>4. jumps' + Waits("SIGUSR1")' + Runs("SIGUSR1")' <= sent'
    BY <1>a, <2>1, <2>2, <2>3 DEF JumpInv
  <2>5. \A i \in DOMAIN frames' : i \in DOMAIN frames /\ frames'[i] = frames[i]
    BY <1>0, <2>1, <2>2, FrontBelow DEF Signalled
  <2>6. JumpPlaces'
    BY <1>0, <2>1, <2>5 DEF JumpPlaces
  <2> QED
    BY <2>1, <2>2, <2>4, <2>6 DEF JumpInv
<1>11. ASSUME NEW s \in JumpSigs, J!HandlerBusy(s) PROVE JumpInv'
  <2>1. /\ frames # <<>> /\ s = Last(frames).sig /\ W!Moves("busy") /\ timer' = "on"
        /\ UNCHANGED <<pc, sigenv, env, canjump, canjump2, jumps>>
        /\ s = "SIGUSR1" => canjump # 0
        /\ s = "SIGUSR2" => canjump2 # 0
    BY <1>11, SameSteps DEF J!HandlerBusy, J!At, J!In, J!Top, Last, J!Usr1Guard, J!Usr2Guard
  <2>2. "busy" \in Places
    BY DEF Places
  <2>3. /\ Signalled(JumpSigs)' /\ MainMask' = MainMask /\ sent' = sent
        /\ DOMAIN frames' = DOMAIN frames
        /\ \A i \in DOMAIN frames : /\ frames'[i].sig = frames[i].sig
                                    /\ i # Len(frames) => frames'[i] = frames[i]
        /\ \A t : Waits(t)' = Waits(t) /\ Runs(t)' = Runs(t)
    BY <1>0, <2>1, <2>2, MoveStep
  <2>4. /\ s = "SIGUSR1" => pc # "sigsetjmp"
        /\ s = "SIGUSR2" => env
    BY <2>1 DEF JumpInv
  <2>5. JumpPlaces'
    BY <1>0, <2>1, <2>3, <2>4 DEF JumpPlaces, Last
  <2> QED
    BY <2>1, <2>3, <2>5 DEF JumpInv
<1>12. ASSUME NEW s \in JumpSigs, J!HandlerClears(s) PROVE JumpInv'
  <2>1. /\ frames # <<>> /\ s = Last(frames).sig /\ Last(frames).at = "busy" /\ W!Moves("jump")
        /\ canjump' = (IF s = "SIGUSR1" THEN 0 ELSE canjump)
        /\ canjump2' = (IF s = "SIGUSR2" THEN 0 ELSE canjump2)
        /\ UNCHANGED <<pc, sigenv, env, timer, jumps>>
    BY <1>12, SameSteps DEF J!HandlerClears, J!At, J!In, J!Top, Last
  <2>2. "jump" \in Places
    BY DEF Places
  <2>3. /\ Signalled(JumpSigs)' /\ MainMask' = MainMask /\ sent' = sent
        /\ DOMAIN frames' = DOMAIN frames
        /\ \A i \in DOMAIN frames : /\ frames'[i].sig = frames[i].sig
                                    /\ i # Len(frames) => frames'[i] = frames[i]
        /\ \A t : Waits(t)' = Waits(t) /\ Runs(t)' = Runs(t)
    BY <1>0, <2>1, <2>2, MoveStep
  <2>4. Len(frames) \in DOMAIN frames
    BY <1>0, <2>1, InHandler
  <2>5. JumpPlaces'
    BY <1>0, <2>1, <2>3, <2>4 DEF JumpPlaces, Last
  <2> QED
    BY <2>1, <2>3, <2>5 DEF JumpInv
<1>13. CASE J!Usr1Jumps
  <2>1. /\ frames # <<>> /\ Last(frames).sig = "SIGUSR1" /\ Last(frames).at = "jump"
        /\ frames' = <<>> /\ mask' = sigenv[1] /\ pend' = pend /\ sent' = sent
        /\ pc' = "canjump" /\ jumps' = jumps + 1
        /\ UNCHANGED <<sigenv, env, canjump, canjump2, timer>>
    BY <1>13 DEF J!Usr1Jumps, J!At, J!In, J!Top, Last, J!Siglongjmp
  <2>2. /\ Len(frames) \in DOMAIN frames /\ "SIGUSR1" \in Running(frames)
    BY <1>0, <2>1, InHandler
  <2>3. pc # "sigsetjmp"
    BY <1>0, <2>1, <2>2 DEF JumpPlaces, Last
  <2>4. mask' = {}
    BY <2>1, <2>3 DEF JumpInv
  <2>5. /\ Signalled(JumpSigs)' /\ MainMask' = {}
        /\ Waits("SIGUSR1")' = Waits("SIGUSR1") /\ Runs("SIGUSR1")' = 0
    BY <1>0, <2>1, <2>4, JumpStep
  <2>6. Runs("SIGUSR1") = 1
    BY <2>2 DEF Runs
  <2>7. jumps' \in Nat /\ jumps' + Waits("SIGUSR1")' + Runs("SIGUSR1")' <= sent'
    BY <1>a, <2>1, <2>5, <2>6 DEF JumpInv
  <2>8. JumpPlaces'
    BY <2>1 DEF JumpPlaces
  <2> QED
    BY <2>1, <2>3, <2>5, <2>7, <2>8 DEF JumpInv
<1>14. CASE J!Usr2Jumps
  <2>1. /\ frames # <<>> /\ Last(frames).sig = "SIGUSR2" /\ Last(frames).at = "jump"
        /\ frames' = <<>> /\ mask' = mask /\ pend' = pend /\ sent' = sent /\ pc' = "longjmped"
        /\ UNCHANGED <<sigenv, env, canjump, canjump2, timer, jumps>>
    BY <1>14 DEF J!Usr2Jumps, J!At, J!In, J!Top, Last, J!Longjmp
  <2>2. Len(frames) \in DOMAIN frames
    BY <1>0, <2>1, InHandler
  <2>3. env
    BY <1>0, <2>1, <2>2 DEF JumpPlaces, Last
  <2>4. pc # "sigsetjmp"
    BY <2>3 DEF JumpInv
  <2>5. mask' \in SUBSET JumpSigs
    BY <1>0, <2>1 DEF Signalled
  <2>6. /\ Signalled(JumpSigs)'
        /\ Waits("SIGUSR1")' = Waits("SIGUSR1") /\ Runs("SIGUSR1")' = 0
    BY <1>0, <2>1, <2>5, JumpStep
  <2>7. jumps' + Waits("SIGUSR1")' + Runs("SIGUSR1")' <= sent'
    BY <1>a, <2>1, <2>6 DEF JumpInv
  <2>8. JumpPlaces'
    BY <2>1 DEF JumpPlaces
  <2> QED
    BY <2>1, <2>3, <2>4, <2>6, <2>7, <2>8 DEF JumpInv
<1> QED
  BY <1>2, <1>3, <1>4, <1>5, <1>6, <1>7, <1>8, <1>9, <1>10, <1>11, <1>12, <1>13, <1>14
     DEF J!Next, J!Main, J!Handler

LEMMA JumpListed == JumpInv => J!TypeOK /\ J!JumpsOnlyWhenSet /\ J!MaskRestored
<1> SUFFICES ASSUME JumpInv PROVE J!TypeOK /\ J!JumpsOnlyWhenSet /\ J!MaskRestored
  OBVIOUS
<1>1. JumpSigs \in SUBSET AllSigs /\ Signalled(JumpSigs)
  BY DEF JumpSigs, AllSigs, JumpInv
<1>2. J!SigTypeOK
  BY <1>1, SignalTypes DEF J!SigTypeOK
<1>3. Len(frames) <= 3
  BY <1>1, ThreeAtMost DEF JumpSigs
<1>4. jumps \in 0..MaxSent
  <2>1. sent \in 0..MaxSent /\ Waits("SIGUSR1") \in Nat /\ Runs("SIGUSR1") \in Nat
    BY <1>1 DEF Signalled, Waits, Runs
  <2> QED
    BY <2>1, SignalAssumption DEF JumpInv
<1>5. sigenv \in {<<>>} \cup {<<m>> : m \in SUBSET JumpSigs}
  <2>1. {} \in SUBSET JumpSigs
    OBVIOUS
  <2> QED
    BY <2>1 DEF JumpInv
<1>6. J!TypeOK
  BY <1>2, <1>3, <1>4, <1>5 DEF J!TypeOK, JumpInv
<1>7. J!JumpsOnlyWhenSet
  <2>1. pc # "sigsetjmp" => sigenv # <<>>
    BY DEF JumpInv
  <2> QED
    BY <2>1 DEF J!JumpsOnlyWhenSet, JumpInv, JumpPlaces
<1>8. J!MaskRestored
  BY MainOnly DEF JumpInv, J!MaskRestored, J!InMain
<1> QED
  BY <1>6, <1>7, <1>8

\* Until longjmp() only handlers block signals.
LEMMA JumpMask == JumpInv /\ J!Next => J!MaskAfterLongjmp
<1> SUFFICES ASSUME JumpInv, J!Next, pc # "longjmped", pc' = "longjmped"
             PROVE  mask' = Running(frames)
  BY DEF J!MaskAfterLongjmp, Running
<1>1. J!Usr2Jumps
  <2>2. ~J!Main
    BY DEF J!Main, J!Sigsetjmp, J!SetCanjump, J!Setjmp, J!SetCanjump2, J!AfterLongjmp, J!MainStep
  <2>3. ~J!Ring /\ \A s : ~J!Arrive(s) /\ ~J!Deliver(s)
    BY DEF J!Ring, J!Arrive, J!Deliver, J!mainVars
  <2>4. ~J!Usr1Jumps /\ \A s : ~J!HandlerReturns(s) /\ ~J!HandlerBusy(s) /\ ~J!HandlerClears(s)
    BY DEF J!Usr1Jumps, J!HandlerReturns, J!HandlerBusy, J!HandlerClears, J!mainVars
  <2> QED
    BY <2>2, <2>3, <2>4 DEF J!Next, J!Handler
<1>2. pc # "returned" /\ mask' = mask
  BY <1>1 DEF J!Usr2Jumps, J!Running, J!Longjmp
<1>3. MainMask = {} /\ Running(frames) \subseteq mask
  BY <1>2 DEF JumpInv, Signalled, Stack
<1> QED
  BY <1>2, <1>3 DEF MainMask

------------------------------------------------------------------------------
(* alarm.c, alarmread.c and sigaction.c *)

LEMMA AlarmInitially == A!Init => AlarmInv
<1> SUFFICES ASSUME A!Init PROVE AlarmInv
  OBVIOUS
<1>1. /\ pend = {} /\ mask = {} /\ frames = <<>> /\ sent = 0
      /\ pc = "signal" /\ timer = "off" /\ caught = {} /\ woken = FALSE
      /\ handled = 0 /\ early = FALSE /\ left = FALSE /\ input = "none" /\ n = "none"
  BY DEF A!Init, A!SigInit
<1>2. Signalled(AlarmSigs) /\ MainMask = {}
  BY <1>1, Empty, SignalAssumption DEF Signalled, MainMask
<1>3. Waits("SIGALRM") = 0 /\ Armed = 0
  BY <1>1 DEF Waits, Armed
<1>4. woken \in BOOLEAN /\ early \in BOOLEAN /\ left \in BOOLEAN
  BY <1>1
<1>5. AlarmTypes
  BY <1>1, <1>2, <1>4 DEF AlarmTypes
<1>6. handled + Waits("SIGALRM") + Armed <= sent + 2 /\ handled + Waits("SIGALRM") <= sent
  BY <1>1, <1>3
<1>7. AlarmCount /\ AlarmOnce /\ A!CancelledInTime
  BY <1>1, <1>6 DEF AlarmCount, AlarmOnce, A!CancelledInTime
<1> QED
  BY <1>5, <1>7 DEF AlarmInv

LEMMA AlarmStep ==
  prog \in {"alarm", "alarmread", "sigaction"} /\ prog' = prog /\ AlarmInv /\ A!Next => AlarmInv'
<1> SUFFICES ASSUME prog \in {"alarm", "alarmread", "sigaction"}, prog' = prog, AlarmInv, A!Next
             PROVE  AlarmInv'
  OBVIOUS
<1> USE SignalAssumption
<1>0. AlarmSigs \in SUBSET AllSigs /\ AlarmSigs = {"SIGALRM"} /\ Signalled(AlarmSigs)
  BY DEF AlarmSigs, AllSigs, AlarmInv, AlarmTypes
<1>a. sent \in Nat /\ Waits("SIGALRM") \in {0, 1} /\ Armed \in {0, 1} /\ handled \in Nat
  BY <1>0 DEF Signalled, Waits, Armed, AlarmInv, AlarmTypes
<1>b. AlarmTypes /\ AlarmCount /\ AlarmOnce /\ A!CancelledInTime
  BY DEF AlarmInv
<1>c. Waits("SIGALRM") = 0 <=> pend = {}
  BY <1>0 DEF Waits, Signalled
<1>1. ASSUME UNCHANGED <<pend, mask, frames, sent>>
      PROVE  /\ Signalled(AlarmSigs)' /\ MainMask' = MainMask /\ sent' = sent
             /\ Waits("SIGALRM")' = Waits("SIGALRM")
  BY <1>0, <1>1, StillStep
<1>2. CASE A!Signal
  <2>1. /\ UNCHANGED <<pend, mask, frames, sent, timer, woken, handled, early, left, input, n>>
        /\ pc = "signal" /\ pc' = "alarm" /\ caught' = {"SIGALRM"}
    BY <1>2 DEF A!Signal, A!MainStep, A!sigVars
  <2>2. Armed' = Armed
    BY <2>1 DEF Armed
  <2>3. AlarmTypes'
    BY <1>1, <1>b, <2>1 DEF AlarmTypes
  <2>4. AlarmCount' /\ AlarmOnce'
    BY <1>1, <1>b, <2>1, <2>2 DEF AlarmCount, AlarmOnce
  <2> QED
    BY <1>b, <2>1, <2>3, <2>4 DEF AlarmInv, A!CancelledInTime
<1>3. CASE A!Alarm
  <2>1. /\ UNCHANGED <<pend, mask, frames, sent, caught, woken, handled, early, left, input, n>>
        /\ pc = "alarm" /\ pc' = (IF prog = "alarm" THEN "again" ELSE "wait") /\ timer' = "on"
    BY <1>3 DEF A!Alarm, A!MainStep, A!sigVars
  <2>2. Armed' = 1 /\ Armed = 0
    BY <1>b, <2>1 DEF Armed, AlarmCount
  <2>3. AlarmTypes'
    BY <1>1, <1>b, <2>1 DEF AlarmTypes
  <2>4. handled + Waits("SIGALRM") <= sent
    BY <1>b, <2>1 DEF AlarmCount
  <2>5. handled' + Waits("SIGALRM")' + Armed' <= sent' + 1
    BY <1>1, <1>a, <2>1, <2>2, <2>4
  <2>6. handled' + Waits("SIGALRM")' + Armed' <= sent' + 2
    BY <1>1, <1>a, <2>1, <2>2, <2>4
  <2>7. AlarmCount'
    BY <2>1, <2>5, <2>6 DEF AlarmCount
  <2>8. prog = "alarm" /\ sent = 0 => handled' + Waits("SIGALRM")' + Armed' = 1
    BY <1>1, <1>a, <1>b, <1>c, <2>1, <2>2 DEF AlarmOnce
  <2>9. AlarmOnce'
    BY <2>1, <2>8 DEF AlarmOnce
  <2> QED
    BY <2>1, <2>3, <2>7, <2>9 DEF AlarmInv, A!CancelledInTime
<1>4. CASE A!Again
  <2>1. /\ UNCHANGED <<pend, mask, frames, sent, caught, woken, handled, input, n>>
        /\ frames = <<>> /\ pc = "again" /\ pc' = "wait" /\ "SIGALRM" \notin pend \ mask
        /\ left' = (timer = "on") /\ timer' = "on" /\ early' = FALSE
    BY <1>4 DEF A!Again, A!MainStep, A!sigVars, A!InMain, A!NothingToTake, A!Deliverable
  <2>2. mask = {}
    BY <1>b, <2>1, MainOnly DEF AlarmTypes
  <2>3. Waits("SIGALRM") = 0 /\ Armed' = 1
    BY <2>1, <2>2 DEF Waits, Armed
  <2>4. left' \in BOOLEAN /\ early' \in BOOLEAN
    BY <2>1
  <2>5. AlarmTypes'
    BY <1>1, <1>b, <2>1, <2>4 DEF AlarmTypes
  <2>6. handled + Armed <= sent + 1
    BY <1>a, <1>b, <2>1, <2>3 DEF AlarmCount
  <2>7. handled' + Waits("SIGALRM")' + Armed' <= sent' + 2
    BY <1>1, <1>a, <2>1, <2>3, <2>6
  <2>8. AlarmCount'
    BY <2>1, <2>7 DEF AlarmCount
  <2>9. prog = "alarm" /\ sent = 0 => handled + Armed = 1
    BY <1>a, <1>b, <2>1, <2>3 DEF AlarmOnce
  <2>10. Rings' = IF timer = "on" THEN 1 ELSE 2
    BY <2>1 DEF Rings
  <2>11. prog = "alarm" /\ sent = 0 =>
           handled' + Waits("SIGALRM")' + Armed' = Rings' /\ handled' >= Rings' - 1
    <3>1. Armed = IF timer = "on" THEN 1 ELSE 0
      BY DEF Armed
    <3> QED
      BY <1>1, <1>a, <2>1, <2>3, <2>9, <2>10, <3>1
  <2>12. AlarmOnce'
    BY <2>1, <2>11 DEF AlarmOnce
  <2> QED
    BY <2>1, <2>5, <2>8, <2>12 DEF AlarmInv, A!CancelledInTime
<1>5. CASE A!Wait
  <2>1. /\ UNCHANGED <<pend, mask, frames, sent, timer, caught, handled, early, left, input, n>>
        /\ pc = "wait" /\ pc' = "waiting" /\ woken' = FALSE
    BY <1>5 DEF A!Wait, A!MainStep, A!sigVars
  <2>2. Armed' = Armed /\ Rings' = Rings
    BY <2>1 DEF Armed, Rings
  <2>3. AlarmTypes'
    BY <1>1, <1>b, <2>1 DEF AlarmTypes
  <2>4. AlarmCount' /\ AlarmOnce'
    BY <1>1, <1>b, <2>1, <2>2 DEF AlarmCount, AlarmOnce
  <2> QED
    BY <2>1, <2>3, <2>4 DEF AlarmInv, A!CancelledInTime
<1>6. CASE A!Interrupted
  <2>1. /\ UNCHANGED <<pend, mask, frames, sent, timer, caught, woken, handled, early, left, input>>
        /\ pc = "waiting" /\ pc' = "after" /\ woken /\ n' = "-1"
    BY <1>6 DEF A!Interrupted, A!MainStep, A!sigVars
  <2>2. Armed' = Armed /\ Rings' = Rings
    BY <2>1 DEF Armed, Rings
  <2>3. AlarmTypes'
    BY <1>1, <1>b, <2>1 DEF AlarmTypes
  <2>4. AlarmCount' /\ AlarmOnce'
    BY <1>1, <1>b, <2>1, <2>2 DEF AlarmCount, AlarmOnce
  <2> QED
    BY <2>1, <2>3, <2>4 DEF AlarmInv, A!CancelledInTime
<1>7. CASE A!Read
  <2>1. /\ UNCHANGED <<pend, mask, frames, sent, timer, caught, woken, handled, early, left, input>>
        /\ pc = "waiting" /\ pc' = "after" /\ prog # "alarm" /\ input # "none" /\ n' = input
    BY <1>7 DEF A!Read, A!MainStep, A!sigVars
  <2>2. Armed' = Armed /\ Rings' = Rings
    BY <2>1 DEF Armed, Rings
  <2>3. AlarmTypes'
    BY <1>1, <1>b, <2>1 DEF AlarmTypes
  <2>4. AlarmCount' /\ AlarmOnce'
    BY <1>1, <1>b, <2>1, <2>2 DEF AlarmCount, AlarmOnce
  <2> QED
    BY <2>1, <2>3, <2>4 DEF AlarmInv, A!CancelledInTime
<1>8. CASE A!After
  <2>1. /\ UNCHANGED <<pend, mask, frames, sent, caught, woken, handled, early, left, input, n>>
        /\ frames = <<>> /\ pc = "after" /\ "SIGALRM" \notin pend \ mask
        /\ pc' = (IF prog # "alarmread" THEN "done" ELSE IF n = "-1" THEN "failed" ELSE "write")
        /\ timer' = (IF pc' = "write" THEN "off" ELSE timer)
    BY <1>8 DEF A!After, A!sigVars, A!InMain, A!NothingToTake, A!Deliverable
  <2>2. mask = {}
    BY <1>b, <2>1, MainOnly DEF AlarmTypes
  <2>3. pend = {}
    BY <1>0, <2>1, <2>2 DEF Signalled
  <2>4. Armed' \in {0, 1} /\ Armed' <= Armed /\ (prog = "alarm" => Armed' = Armed) /\ Rings' = Rings
    BY <2>1 DEF Armed, Rings
  <2>5. AlarmTypes'
    BY <1>1, <1>b, <2>1 DEF AlarmTypes
  <2>6. handled' + Waits("SIGALRM")' + Armed' <= sent' + 2
    BY <1>1, <1>a, <1>b, <2>1, <2>4 DEF AlarmCount
  <2>7. AlarmCount'
    BY <2>1, <2>6 DEF AlarmCount
  <2>8. AlarmOnce'
    BY <1>1, <1>b, <2>1, <2>4 DEF AlarmOnce
  <2>9. A!CancelledInTime'
    BY <2>1, <2>3 DEF A!CancelledInTime
  <2> QED
    BY <2>5, <2>7, <2>8, <2>9 DEF AlarmInv
<1>9. CASE A!Write
  <2>1. /\ UNCHANGED <<pend, mask, frames, sent, timer, caught, woken, handled, early, left, input, n>>
        /\ pc = "write" /\ pc' = "done"
    BY <1>9 DEF A!Write, A!MainStep, A!sigVars
  <2>2. Armed' = Armed /\ Rings' = Rings
    BY <2>1 DEF Armed, Rings
  <2>3. AlarmTypes' /\ prog # "alarm"
    BY <1>1, <1>b, <2>1 DEF AlarmTypes
  <2>4. AlarmCount' /\ AlarmOnce'
    BY <1>1, <1>b, <2>1, <2>2, <2>3 DEF AlarmCount, AlarmOnce
  <2> QED
    BY <1>b, <2>1, <2>3, <2>4 DEF AlarmInv, A!CancelledInTime
<1>10. CASE A!Ring
  <2>1. /\ W!Raise("SIGALRM") /\ timer = "on" /\ timer' = "off" /\ pc \notin {"done", "failed", "killed"}
        /\ UNCHANGED <<pc, caught, woken, handled, early, left, input, n>>
    BY <1>10, SameSteps DEF A!Ring, A!Ended
  <2>2. /\ Signalled(AlarmSigs)' /\ MainMask' = MainMask /\ sent' = sent /\ Waits("SIGALRM")' = 1
    <3>1. "SIGALRM" \in AlarmSigs
      BY <1>0
    <3> QED
      BY <1>0, <2>1, <3>1, RaiseStep
  <2>3. Armed = 1 /\ Armed' = 0 /\ Rings' = Rings
    BY <2>1 DEF Armed, Rings
  <2>4. AlarmTypes'
    BY <1>b, <2>1, <2>2 DEF AlarmTypes
  <2>5. pc \notin {"signal", "alarm", "killed"}
    BY <1>b, <2>1 DEF AlarmCount
  <2>6. handled' + Waits("SIGALRM")' + Armed' <= handled + Waits("SIGALRM") + Armed
    BY <1>a, <2>1, <2>2, <2>3
  <2>7. /\ handled' + Waits("SIGALRM")' + Armed' \in Nat
        /\ handled + Waits("SIGALRM") + Armed \in Nat
    BY <1>a, <2>1, <2>2, <2>3
  <2>8. AlarmCount'
    BY <1>a, <1>b, <2>1, <2>2, <2>5, <2>6, <2>7 DEF AlarmCount
  <2>9. prog = "alarm" /\ sent = 0 => Waits("SIGALRM") = 0
    <3>1. prog = "alarm" /\ sent = 0 /\ pc = "again" => Waits("SIGALRM") = 0
      BY <1>a, <1>b, <2>3 DEF AlarmOnce
    <3>2. Rings \in {1, 2}
      BY DEF Rings
    <3>3. prog = "alarm" /\ sent = 0 /\ pc \in {"wait", "waiting", "after"} => Waits("SIGALRM") = 0
      BY <1>a, <1>b, <2>3, <3>2 DEF AlarmOnce
    <3> QED
      BY <1>b, <2>1, <2>5, <3>1, <3>3 DEF AlarmTypes
  <2>10. prog = "alarm" /\ sent = 0 =>
           handled' + Waits("SIGALRM")' + Armed' = handled + Waits("SIGALRM") + Armed
    BY <1>a, <2>1, <2>2, <2>3, <2>9
  <2>11. AlarmOnce'
    BY <1>b, <2>1, <2>2, <2>3, <2>5, <2>10 DEF AlarmOnce
  <2>12. A!CancelledInTime'
    BY <1>b, <2>1 DEF A!CancelledInTime
  <2> QED
    BY <2>4, <2>8, <2>11, <2>12 DEF AlarmInv
<1>11. CASE A!Arrive
  <2>1. /\ W!Send("SIGALRM") /\ UNCHANGED <<pc, timer, caught, woken, handled, early, left, input, n>>
    BY <1>11, SameSteps DEF A!Arrive, A!mainVars
  <2>2. /\ Signalled(AlarmSigs)' /\ MainMask' = MainMask /\ sent' = sent + 1 /\ Waits("SIGALRM")' = 1
    <3>1. "SIGALRM" \in AlarmSigs
      BY <1>0
    <3> QED
      BY <1>0, <2>1, <3>1, SendStep
  <2>3. Armed' = Armed
    BY <2>1 DEF Armed
  <2>4. AlarmTypes'
    BY <1>b, <2>1, <2>2 DEF AlarmTypes
  <2>5. /\ handled' + Waits("SIGALRM")' + Armed' <= handled + Waits("SIGALRM") + Armed + 1
        /\ handled' + Waits("SIGALRM")' <= handled + Waits("SIGALRM") + 1
        /\ handled' + Waits("SIGALRM")' + Armed' \in Nat
        /\ handled' + Waits("SIGALRM")' \in Nat
        /\ handled + Waits("SIGALRM") + Armed \in Nat
        /\ handled + Waits("SIGALRM") \in Nat
    BY <1>a, <2>1, <2>2, <2>3
  <2>6. AlarmCount'
    <3>1. handled' + Waits("SIGALRM")' + Armed' <= sent' + 2
      BY <1>a, <1>b, <2>2, <2>5 DEF AlarmCount
    <3>2. pc' = "again" => handled' + Waits("SIGALRM")' + Armed' <= sent' + 1
      BY <1>a, <1>b, <2>1, <2>2, <2>5 DEF AlarmCount
    <3>3. pc' \in {"signal", "alarm", "killed"} =>
            timer' = "off" /\ handled' + Waits("SIGALRM")' <= sent'
      BY <1>a, <1>b, <2>1, <2>2, <2>5 DEF AlarmCount
    <3> QED
      BY <3>1, <3>2, <3>3 DEF AlarmCount
  <2>7. sent' # 0
    BY <1>a, <2>2
  <2>8. AlarmOnce' /\ A!CancelledInTime'
    BY <1>b, <2>1, <2>7 DEF AlarmOnce, A!CancelledInTime
  <2> QED
    BY <2>4, <2>6, <2>8 DEF AlarmInv
<1>12. CASE A!Type
  <2>1. /\ UNCHANGED <<pend, mask, frames, sent, pc, timer, caught, woken, handled, early, left, n>>
        /\ input' \in {"some", "full"}
    BY <1>12 DEF A!Type, A!sigVars
  <2>2. Armed' = Armed /\ Rings' = Rings
    BY <2>1 DEF Armed, Rings
  <2>3. AlarmTypes'
    BY <1>1, <1>b, <2>1 DEF AlarmTypes
  <2>4. AlarmCount' /\ AlarmOnce'
    BY <1>1, <1>b, <2>1, <2>2 DEF AlarmCount, AlarmOnce
  <2> QED
    BY <1>b, <2>1, <2>3, <2>4 DEF AlarmInv, A!CancelledInTime
<1>13. CASE A!Deliver
  <2>1. W!Enter("SIGALRM") /\ UNCHANGED <<timer, caught, left, input, n>>
    BY <1>13, SameSteps DEF A!Deliver
  <2>2. /\ Signalled(AlarmSigs)' /\ MainMask' = MainMask /\ sent' = sent
        /\ Waits("SIGALRM") = 1 /\ Waits("SIGALRM")' = 0 /\ pend' = pend \ {"SIGALRM"}
    BY <1>0, <2>1, EnterStep
  <2>3. Armed' = Armed /\ Rings' = Rings
    BY <2>1 DEF Armed, Rings
  <2>4. CASE caught = {}
    <3>1. pc' = "killed" /\ UNCHANGED <<woken, handled, early>> /\ pc = "signal"
      BY <1>13, <1>b, <2>4 DEF A!Deliver, A!Ended, AlarmTypes
    <3>2. AlarmTypes'
      BY <1>b, <2>1, <2>2, <2>4, <3>1 DEF AlarmTypes
    <3>3. timer' = "off" /\ handled' + Waits("SIGALRM")' <= sent'
      BY <1>a, <1>b, <2>1, <2>2, <3>1 DEF AlarmCount
    <3>4. handled' + Waits("SIGALRM")' + Armed' <= sent' + 2
      BY <1>a, <1>b, <2>2, <2>3, <3>1 DEF AlarmCount
    <3>5. AlarmCount' /\ AlarmOnce' /\ A!CancelledInTime'
      BY <3>1, <3>3, <3>4 DEF AlarmCount, AlarmOnce, A!CancelledInTime
    <3> QED
      BY <3>2, <3>5 DEF AlarmInv
  <2>5. CASE caught # {}
    <3>1. /\ woken' = (woken \/ pc = "waiting") /\ handled' = handled + 1
          /\ early' = (early \/ pc = "wait") /\ pc' = pc
          /\ pc \notin {"signal", "done", "failed", "killed"}
      BY <1>13, <1>b, <2>5 DEF A!Deliver, A!Ended, AlarmTypes
    <3>2. woken' \in BOOLEAN /\ early' \in BOOLEAN /\ handled' \in Nat
      BY <1>a, <3>1
    <3>3. AlarmTypes'
      BY <1>b, <2>1, <2>2, <3>1, <3>2 DEF AlarmTypes
    <3>4. handled' + Waits("SIGALRM")' = handled + Waits("SIGALRM")
      BY <1>a, <2>2, <3>1
    <3>5. AlarmCount'
      BY <1>b, <2>1, <2>2, <2>3, <3>1, <3>4 DEF AlarmCount
    <3>6. ASSUME prog = "alarm", sent = 0 PROVE
            /\ pc \notin {"alarm", "after"}
            /\ pc \in {"wait", "waiting"} => handled' = Rings
      <4>1. pc # "alarm"
        BY <1>b, <1>c, <2>2, <3>6 DEF AlarmOnce
      <4>2. Rings \in {1, 2}
        BY DEF Rings
      <4>3. pc # "after"
        BY <1>a, <1>b, <2>2, <3>6, <4>2 DEF AlarmOnce
      <4>4. pc \in {"wait", "waiting"} => handled' = Rings
        BY <1>a, <1>b, <2>2, <3>1, <3>6, <4>2 DEF AlarmOnce
      <4> QED
        BY <4>1, <4>3, <4>4
    <3>7. Rings \in {1, 2}
      BY DEF Rings
    <3>8. AlarmOnce'
      BY <1>b, <2>2, <2>3, <3>1, <3>4, <3>6, <3>7 DEF AlarmOnce
    <3>9. A!CancelledInTime'
      BY <1>b, <2>1, <2>2, <3>1 DEF A!CancelledInTime
    <3> QED
      BY <3>3, <3>5, <3>8, <3>9 DEF AlarmInv
  <2> QED
    BY <2>4, <2>5
<1>14. CASE A!Return
  <2>1. /\ frames # <<>> /\ W!Leave
        /\ UNCHANGED <<pc, timer, caught, woken, handled, early, left, input, n>>
    BY <1>14, SameSteps DEF A!Return, A!In, A!mainVars
  <2>2. /\ Signalled(AlarmSigs)' /\ MainMask' = MainMask /\ sent' = sent /\ pend' = pend
        /\ Waits("SIGALRM")' = Waits("SIGALRM")
    BY <1>0, <2>1, LeaveStep DEF Waits
  <2>3. Armed' = Armed /\ Rings' = Rings
    BY <2>1 DEF Armed, Rings
  <2>4. AlarmTypes'
    BY <1>b, <2>1, <2>2 DEF AlarmTypes
  <2>5. AlarmCount' /\ AlarmOnce'
    BY <1>b, <2>1, <2>2, <2>3 DEF AlarmCount, AlarmOnce
  <2> QED
    BY <1>b, <2>1, <2>2, <2>4, <2>5 DEF AlarmInv, A!CancelledInTime
<1> QED
  BY <1>2, <1>3, <1>4, <1>5, <1>6, <1>7, <1>8, <1>9, <1>10, <1>11, <1>12, <1>13, <1>14
     DEF A!Next, A!Main

LEMMA AlarmListed ==
  AlarmInv => A!TypeOK /\ A!EachAlarmOnce /\ A!CancelledInTime /\ A!BlockedInHandler
<1> SUFFICES ASSUME AlarmInv
             PROVE  A!TypeOK /\ A!EachAlarmOnce /\ A!CancelledInTime /\ A!BlockedInHandler
  OBVIOUS
<1>1. AlarmSigs \in SUBSET AllSigs /\ Signalled(AlarmSigs)
  BY DEF AlarmSigs, AllSigs, AlarmInv, AlarmTypes
<1>2. A!SigTypeOK
  BY <1>1, SignalTypes DEF A!SigTypeOK
<1>3. Len(frames) <= 1
  BY <1>1, OneAtMost DEF AlarmSigs
<1>4. handled \in 0..(MaxSent + 2)
  <2>1. sent \in 0..MaxSent /\ Waits("SIGALRM") \in Nat /\ Armed \in Nat
    BY <1>1 DEF Signalled, Waits, Armed
  <2>2. handled \in Nat /\ handled + Waits("SIGALRM") + Armed <= sent + 2
    BY DEF AlarmInv, AlarmTypes, AlarmCount
  <2> QED
    BY <2>1, <2>2, SignalAssumption
<1>5. A!TypeOK
  BY <1>1, <1>2, <1>3, <1>4 DEF A!TypeOK, A!Ended, AlarmInv, AlarmTypes, AlarmSigs
<1>6. A!EachAlarmOnce
  BY DEF A!EachAlarmOnce, AlarmInv, AlarmOnce, Rings
<1>7. A!BlockedInHandler
  BY <1>1, InHandler DEF A!BlockedInHandler, A!In, A!Top, Last
<1> QED
  BY <1>5, <1>6, <1>7 DEF AlarmInv

\* The read() of alarmread.c is restarted after a handler.
LEMMA AlarmReads == AlarmInv /\ A!Next => A!OnlyInputEndsRead
<1> SUFFICES ASSUME AlarmInv, A!Next, prog = "alarmread", pc = "waiting", pc' # "waiting"
             PROVE  input # "none"
  BY DEF A!OnlyInputEndsRead
<1>1. caught # {}
  BY DEF AlarmInv, AlarmTypes
<1>2. ~A!Interrupted
  BY DEF A!Interrupted, A!Restarts
<1>3. A!Main => A!Read
  BY <1>2 DEF A!Main, A!Signal, A!Alarm, A!Again, A!Wait, A!After, A!Write, A!MainStep
<1>4. ~A!Ring /\ ~A!Arrive /\ ~A!Type /\ ~A!Return /\ ~A!Deliver
  BY <1>1 DEF A!Ring, A!Arrive, A!Type, A!Return, A!Deliver, A!mainVars
<1> QED
  BY <1>3, <1>4 DEF A!Next, A!Read

------------------------------------------------------------------------------
(* reentrant.c *)

LEMMA PwInitially == A!PwInit => PwInv
<1> SUFFICES ASSUME A!PwInit PROVE PwInv
  OBVIOUS
<1>1. /\ pend = {} /\ mask = {} /\ frames = <<>> /\ sent = 0 /\ pc = "signal" /\ timer = "off"
      /\ holder = "none" /\ result = "none" /\ late = FALSE /\ wrong = FALSE
  BY DEF A!PwInit, A!SigInit
<1>2. Signalled(AlarmSigs) /\ MainMask = {}
  BY <1>1, Empty, SignalAssumption DEF Signalled, MainMask
<1>3. late \in BOOLEAN /\ wrong \in BOOLEAN
  BY <1>1
<1> QED
  BY <1>1, <1>2, <1>3 DEF PwInv

LEMMA PwStep == PwInv /\ A!PwNext => PwInv'
<1> SUFFICES ASSUME PwInv, A!PwNext PROVE PwInv'
  OBVIOUS
<1> USE SignalAssumption
<1>0. AlarmSigs \in SUBSET AllSigs /\ AlarmSigs = {"SIGALRM"} /\ Signalled(AlarmSigs)
  BY DEF AlarmSigs, AllSigs, PwInv
<1>1. ASSUME UNCHANGED <<pend, mask, frames, sent>>
      PROVE  Signalled(AlarmSigs)' /\ MainMask' = MainMask
  BY <1>0, <1>1, StillStep
<1>2. CASE A!Start
  BY <1>1, <1>2 DEF A!Start, A!PwMainStep, A!sigVars, PwInv
<1>3. CASE A!Lock
  BY <1>1, <1>3 DEF A!Lock, A!PwMainStep, A!InMain, A!sigVars, PwInv
<1>4. CASE A!Search
  BY <1>1, <1>4 DEF A!Search, A!PwMainStep, A!InMain, A!sigVars, PwInv
<1>5. CASE A!Unlock
  <2>1. late' \in BOOLEAN
    BY <1>5 DEF A!Unlock
  <2> QED
    BY <1>1, <1>5, <2>1 DEF A!Unlock, A!InMain, A!sigVars, PwInv
<1>6. CASE A!Compare
  <2>1. wrong' \in BOOLEAN
    BY <1>6 DEF A!Compare
  <2> QED
    BY <1>1, <1>6, <2>1 DEF A!Compare, A!PwMainStep, A!InMain, A!sigVars, PwInv
<1>7. ASSUME NEW w \in Places, frames # <<>>, A!Moves(w)
      PROVE  /\ Signalled(AlarmSigs)' /\ MainMask' = MainMask
             /\ frames' # <<>> /\ Last(frames').at = w
  BY <1>0, <1>7, MoveStep, SameSteps
<1>8. CASE A!HLock
  <2>1. /\ frames # <<>> /\ Last(frames).at = "start" /\ A!Moves("search")
        /\ holder = "none" /\ holder' = "handler" /\ UNCHANGED <<pc, timer, result, late, wrong>>
    BY <1>8 DEF A!HLock, A!At, A!In, A!Top, Last
  <2>2. /\ Signalled(AlarmSigs)' /\ MainMask' = MainMask
        /\ frames' # <<>> /\ Last(frames').at = "search"
    BY <1>7, <2>1 DEF Places
  <2> QED
    BY <2>1, <2>2 DEF PwInv
<1>9. CASE A!HSearch
  <2>1. /\ frames # <<>> /\ Last(frames).at = "search" /\ A!Moves("unlock")
        /\ result' = "handler" /\ late' = TRUE /\ UNCHANGED <<pc, timer, holder, wrong>>
    BY <1>9 DEF A!HSearch, A!At, A!In, A!Top, Last
  <2>2. /\ Signalled(AlarmSigs)' /\ MainMask' = MainMask
        /\ frames' # <<>> /\ Last(frames').at = "unlock"
    BY <1>7, <2>1 DEF Places
  <2>3. late' \in BOOLEAN /\ holder = "handler"
    BY <2>1 DEF PwInv
  <2> QED
    BY <2>1, <2>2, <2>3 DEF PwInv
<1>10. CASE A!HUnlock
  <2>1. /\ frames # <<>> /\ Last(frames).at = "unlock" /\ A!Moves("alarm")
        /\ holder' = "none" /\ UNCHANGED <<pc, timer, result, late, wrong>>
    BY <1>10 DEF A!HUnlock, A!At, A!In, A!Top, Last
  <2>2. /\ Signalled(AlarmSigs)' /\ MainMask' = MainMask
        /\ frames' # <<>> /\ Last(frames').at = "alarm"
    BY <1>7, <2>1 DEF Places
  <2>3. holder = "handler"
    BY <2>1 DEF PwInv
  <2> QED
    BY <2>1, <2>2, <2>3 DEF PwInv
<1>11. CASE A!HAlarm
  <2>1. /\ frames # <<>> /\ Last(frames).at = "alarm" /\ W!Leave
        /\ timer' = "on" /\ UNCHANGED <<pc, holder, result, late, wrong>>
    BY <1>11, SameSteps DEF A!HAlarm, A!At, A!In, A!Top, Last
  <2>2. Signalled(AlarmSigs)' /\ MainMask' = MainMask /\ frames' = Front(frames)
    BY <1>0, <2>1, LeaveStep
  <2>3. Len(frames) = 1
    <3>1. Len(frames) <= 1
      BY <1>0, OneAtMost
    <3>2. frames \in Seq(Frame)
      BY <1>0 DEF Signalled, Stack
    <3>3. Len(frames) \in DOMAIN frames
      BY <1>0, <2>1, InHandler
    <3> QED
      BY <3>1, <3>2, <3>3, LenProperties
  <2>4. frames' = <<>>
    <3>1. frames \in Seq(Frame)
      BY <1>0 DEF Signalled, Stack
    <3> QED
      BY <2>2, <2>3, <3>1 DEF Front
  <2>5. holder # "handler"
    BY <2>1 DEF PwInv
  <2> QED
    BY <2>1, <2>2, <2>4, <2>5 DEF PwInv
<1>12. CASE A!PwRing
  <2>1. /\ W!Raise("SIGALRM") /\ timer' = "off" /\ UNCHANGED <<pc, holder, result, late, wrong>>
    BY <1>12, SameSteps DEF A!PwRing
  <2>2. Signalled(AlarmSigs)' /\ MainMask' = MainMask /\ frames' = frames
    <3>1. "SIGALRM" \in AlarmSigs
      BY <1>0
    <3> QED
      BY <1>0, <2>1, <3>1, RaiseStep
  <2> QED
    BY <2>1, <2>2 DEF PwInv
<1>13. CASE A!PwDeliver
  <2>1. W!Enter("SIGALRM") /\ UNCHANGED <<pc, timer, holder, result, late, wrong>>
    BY <1>13, SameSteps DEF A!PwDeliver, A!pwMainVars
  <2>2. /\ Signalled(AlarmSigs)' /\ MainMask' = MainMask
        /\ frames' # <<>> /\ Last(frames').at = "start" /\ "SIGALRM" \notin Running(frames)
    BY <1>0, <2>1, EnterStep
  <2>3. frames = <<>>
    BY <1>0, <2>2, InHandler
  <2> QED
    BY <2>1, <2>2, <2>3 DEF PwInv
<1> QED
  BY <1>2, <1>3, <1>4, <1>5, <1>6, <1>8, <1>9, <1>10, <1>11, <1>12, <1>13
     DEF A!PwNext, A!PwMain, A!Handler

LEMMA PwListed == PwInv => A!PwTypeOK
<1> SUFFICES ASSUME PwInv PROVE A!PwTypeOK
  OBVIOUS
<1>1. AlarmSigs \in SUBSET AllSigs /\ AlarmSigs = {"SIGALRM"} /\ Signalled(AlarmSigs)
  BY DEF AlarmSigs, AllSigs, PwInv
<1>2. A!SigTypeOK
  BY <1>1, SignalTypes DEF A!SigTypeOK
<1>3. Len(frames) <= 1
  BY <1>1, OneAtMost
<1> QED
  BY <1>2, <1>3 DEF A!PwTypeOK, PwInv

\* main() and a handler that finds the lock taken wait for each other.
LEMMA PwStuck == PwInv /\ A!PwNext => A!StuckForEver /\ A!WrongOnlyIfLate
<1> SUFFICES ASSUME PwInv, A!PwNext PROVE A!StuckForEver /\ A!WrongOnlyIfLate
  OBVIOUS
<1>1. AlarmSigs \in SUBSET AllSigs /\ Signalled(AlarmSigs)
  BY DEF AlarmSigs, AllSigs, PwInv
<1>2. A!WrongOnlyIfLate
  BY DEF A!WrongOnlyIfLate, PwInv
<1>3. ASSUME A!Stuck PROVE A!Stuck' /\ pc' = pc
  <2>1. /\ frames # <<>> /\ Last(frames).sig = "SIGALRM" /\ Last(frames).at = "start"
        /\ holder = "main"
    BY <1>3 DEF A!Stuck, A!At, A!In, A!Top, Last
  <2>2. "SIGALRM" \in mask
    BY <1>1, <2>1, InHandler
  <2>3. ~A!PwMain /\ ~A!Handler /\ ~A!PwDeliver
    BY <2>1, <2>2 DEF A!PwMain, A!Start, A!Lock, A!Search, A!Unlock, A!Compare, A!PwMainStep, A!InMain,
       A!Handler, A!HLock, A!HSearch, A!HUnlock, A!HAlarm, A!At, A!In, A!Top, Last,
       A!PwDeliver, A!Enter, A!Deliverable
  <2>4. A!PwRing
    BY <2>3 DEF A!PwNext
  <2> QED
    BY <1>3, <2>4 DEF A!PwRing, A!Raise, A!Stuck, A!At, A!In, A!Top
<1> QED
  BY <1>2, <1>3 DEF A!StuckForEver

------------------------------------------------------------------------------
(* sigpend.c *)

LEMMA PendInitially == W!PendInit => PendInv
<1> SUFFICES ASSUME W!PendInit PROVE PendInv
  OBVIOUS
<1>1. /\ pend = {} /\ mask \in SUBSET WaitSigs /\ frames = <<>> /\ sent = 0 /\ pc = "signal"
      /\ caught = {} /\ oldmask = mask /\ raised = 0 /\ handled = 0 /\ seen = FALSE
  BY DEF W!PendInit
<1>2. Signalled(WaitSigs) /\ MainMask = oldmask
  <2>1. mask \subseteq AllSigs
    BY <1>1 DEF WaitSigs, AllSigs
  <2> QED
    BY <1>1, <2>1, Empty, MainOnly, SignalAssumption DEF Signalled
<1>3. Waits("SIGQUIT") = 0 /\ Raised = 0 /\ seen \in BOOLEAN
  BY <1>1 DEF Waits, Raised
<1>4. handled + Waits("SIGQUIT") <= sent + Raised
  BY <1>1, <1>3
<1> QED
  BY <1>1, <1>2, <1>3, <1>4 DEF PendInv, PendTypes, PendSteps, PendCount

\* How many signals of its own a program has handled or waits for.
LEMMA RaisedTypes ==
  ASSUME raised \in 0..6
  PROVE  /\ Raised \in 0..4 /\ (raised = 3 => Raised = 1) /\ (raised = 6 => Raised = 4)
BY DEF Raised

\* In main() nothing waits that is not blocked.
LEMMA PendQuiet ==
  ASSUME PendInv, frames = <<>>, \A s \in WaitSigs : ~W!Deliverable(s)
  PROVE  MainMask = mask /\ pend \subseteq mask
<1>1. pend \subseteq WaitSigs
  BY DEF PendInv, PendTypes, Signalled
<1> QED
  BY <1>1, MainOnly DEF W!Deliverable

LEMMA PendStep == PendInv /\ W!PendNext => PendInv'
<1> SUFFICES ASSUME PendInv, W!PendNext PROVE PendInv'
  OBVIOUS
<1> USE SignalAssumption
<1>0. /\ WaitSigs \in SUBSET AllSigs /\ WaitSigs = {"SIGINT", "SIGQUIT"} /\ Signalled(WaitSigs)
  BY DEF WaitSigs, AllSigs, PendInv, PendTypes
<1>a. /\ sent \in Nat /\ Waits("SIGQUIT") \in {0, 1} /\ handled \in Nat /\ raised \in 0..6
      /\ Raised \in 0..4 /\ ("SIGQUIT" \in pend <=> Waits("SIGQUIT") = 1)
  <2>1. raised \in 0..6 /\ handled \in Nat
    BY DEF PendInv, PendTypes
  <2> QED
    BY <1>0, <2>1, RaisedTypes DEF Signalled, Waits
<1>b. PendTypes /\ PendSteps /\ PendCount
  BY DEF PendInv
<1>1. ASSUME UNCHANGED <<pend, mask, frames, sent>>
      PROVE  /\ Signalled(WaitSigs)' /\ MainMask' = MainMask /\ sent' = sent /\ pend' = pend
             /\ Waits("SIGQUIT")' = Waits("SIGQUIT")
  BY <1>0, <1>1, StillStep
<1>2. CASE W!Signal
  <2>1. /\ UNCHANGED <<pend, mask, frames, sent, oldmask, raised, handled, seen>>
        /\ pc = "signal" /\ pc' = "block" /\ caught' = {"SIGQUIT"}
    BY <1>2 DEF W!Signal, W!PendMainStep, W!sigVars
  <2>2. Raised' = Raised
    BY <2>1 DEF Raised
  <2>3. PendTypes' /\ PendSteps'
    BY <1>1, <1>b, <2>1 DEF PendTypes, PendSteps
  <2>4. PendCount'
    BY <1>1, <1>b, <2>1, <2>2 DEF PendCount
  <2> QED
    BY <2>3, <2>4 DEF PendInv
<1>3. CASE W!PendBlock
  <2>1. /\ UNCHANGED <<caught, raised, handled, seen>> /\ frames = <<>>
        /\ pc = "block" /\ pc' = "raise" /\ oldmask' = mask /\ W!SetMask({"SIGQUIT"})
        /\ \A s \in WaitSigs : ~W!Deliverable(s)
    BY <1>3 DEF W!PendBlock, W!PendMainStep, W!InMain
  <2>2. /\ Signalled(WaitSigs)' /\ MainMask' = {"SIGQUIT"} /\ pend' = pend /\ sent' = sent
        /\ Waits("SIGQUIT")' = Waits("SIGQUIT")
    BY <1>0, <2>1, MaskStep
  <2>3. oldmask' = oldmask
    BY <1>b, <2>1, PendQuiet DEF PendTypes
  <2>4. Raised' = Raised
    BY <2>1 DEF Raised
  <2>5. PendTypes' /\ PendSteps'
    BY <1>b, <2>1, <2>2, <2>3 DEF PendTypes, PendSteps
  <2>6. PendCount'
    BY <1>b, <2>1, <2>2, <2>3, <2>4 DEF PendCount
  <2> QED
    BY <2>5, <2>6 DEF PendInv
<1>4. ASSUME W!Raise("SIGQUIT")
      PROVE  /\ Signalled(WaitSigs)' /\ MainMask' = MainMask /\ pend' = pend \cup {"SIGQUIT"}
             /\ sent' = sent /\ Waits("SIGQUIT")' = 1
  <2>1. "SIGQUIT" \in WaitSigs
    BY <1>0
  <2> QED
    BY <1>0, <1>4, <2>1, RaiseStep
<1>5. CASE W!RaiseQuit
  <2>1. /\ UNCHANGED <<caught, oldmask, handled, seen>> /\ W!Raise("SIGQUIT")
        /\ pc = "raise" /\ pc' = "raise" /\ raised < 3 /\ raised' = raised + 1
    BY <1>5 DEF W!RaiseQuit, W!PendMainStep
  <2>2. raised' \in 1..3
    BY <1>a, <2>1
  <2>3. PendTypes'
    BY <1>4, <1>b, <2>1, <2>2 DEF PendTypes
  <2>4. PendSteps'
    BY <1>4, <2>1, <2>2 DEF PendSteps
  <2>5. Raised' = 1 /\ (raised > 0 => Raised = 1) /\ (raised = 0 => Raised = 0)
    BY <1>a, <2>1, <2>2 DEF Raised
  <2>6. raised > 0 => Waits("SIGQUIT") = 1
    BY <1>a, <1>b, <2>1 DEF PendSteps
  <2>7. handled + Waits("SIGQUIT") <= sent + Raised
    BY <1>b DEF PendCount
  <2>8. handled' + Waits("SIGQUIT")' <= sent' + Raised'
    BY <1>4, <1>a, <2>1, <2>5, <2>6, <2>7
  <2>9. PendCount'
    BY <1>4, <1>b, <2>1, <2>8 DEF PendCount
  <2> QED
    BY <2>3, <2>4, <2>9 DEF PendInv
<1>6. CASE W!Sigpending
  <2>1. /\ UNCHANGED <<pend, mask, frames, sent, caught, oldmask, raised, handled>>
        /\ pc = "raise" /\ pc' = "restore" /\ raised = 3 /\ seen' = ("SIGQUIT" \in pend)
    BY <1>6 DEF W!Sigpending, W!PendMainStep, W!sigVars
  <2>2. "SIGQUIT" \in pend
    BY <1>b, <2>1 DEF PendSteps
  <2>3. seen' \in BOOLEAN /\ seen'
    BY <2>1, <2>2
  <2>4. Raised' = Raised
    BY <2>1 DEF Raised
  <2>5. PendTypes'
    BY <1>1, <1>b, <2>1, <2>3 DEF PendTypes
  <2>6. PendSteps'
    BY <2>1, <2>2, <2>3 DEF PendSteps
  <2>7. PendCount'
    BY <1>1, <1>b, <2>1, <2>4 DEF PendCount
  <2> QED
    BY <2>5, <2>6, <2>7 DEF PendInv
<1>7. CASE W!Restore
  <2>1. /\ UNCHANGED <<caught, oldmask, raised, handled, seen>> /\ frames = <<>>
        /\ pc = "restore" /\ pc' = "again" /\ W!SetMask(oldmask)
    BY <1>7 DEF W!Restore, W!PendMainStep, W!InMain
  <2>2. /\ Signalled(WaitSigs)' /\ MainMask' = oldmask /\ pend' = pend /\ sent' = sent
        /\ Waits("SIGQUIT")' = Waits("SIGQUIT")
    <3>1. oldmask \in SUBSET WaitSigs
      BY <1>b DEF PendTypes
    <3> QED
      BY <1>0, <2>1, <3>1, MaskStep
  <2>3. Raised' = Raised /\ raised = 3 /\ "SIGQUIT" \in pend /\ seen
    BY <1>b, <2>1 DEF Raised, PendSteps
  <2>4. PendTypes' /\ PendSteps'
    BY <1>b, <2>1, <2>2, <2>3 DEF PendTypes, PendSteps
  <2>5. handled' + Waits("SIGQUIT")' >= Raised'
    <3>1. Raised = 1 /\ Waits("SIGQUIT") = 1
      BY <1>a, <2>3, RaisedTypes
    <3> QED
      BY <1>a, <2>1, <2>2, <2>3, <3>1
  <2>6. PendCount'
    BY <1>b, <2>1, <2>2, <2>3, <2>5 DEF PendCount
  <2> QED
    BY <2>4, <2>6 DEF PendInv
<1>8. ASSUME frames = <<>>, \A s \in WaitSigs : ~W!Deliverable(s), pc = "again", "SIGQUIT" \notin oldmask
      PROVE  Waits("SIGQUIT") = 0
  <2>1. mask = oldmask /\ pend \subseteq mask
    BY <1>8, <1>b, PendQuiet DEF PendTypes
  <2> QED
    BY <1>8, <2>1 DEF Waits
<1>9. CASE W!RaiseAgain
  <2>1. /\ UNCHANGED <<caught, oldmask, handled, seen>> /\ W!Raise("SIGQUIT")
        /\ pc = "again" /\ pc' = "again" /\ raised < 6 /\ raised' = raised + 1
        /\ frames = <<>> /\ \A s \in WaitSigs : ~W!Deliverable(s)
    BY <1>9 DEF W!RaiseAgain, W!PendMainStep, W!InMain
  <2>2. raised >= 3 /\ raised' \in 4..6
    BY <1>a, <1>b, <2>1 DEF PendSteps
  <2>3. PendTypes'
    BY <1>4, <1>b, <2>1, <2>2 DEF PendTypes
  <2>4. PendSteps'
    BY <1>b, <2>1, <2>2 DEF PendSteps
  <2>5. Raised' = Raised + 1
    BY <1>a, <2>1, <2>2 DEF Raised
  <2>6. handled + Waits("SIGQUIT") <= sent + Raised
    BY <1>b DEF PendCount
  <2>7. handled' + Waits("SIGQUIT")' <= sent' + Raised'
    BY <1>4, <1>a, <2>1, <2>5, <2>6
  <2>8. "SIGQUIT" \notin oldmask => handled' + Waits("SIGQUIT")' >= Raised'
    <3>1. "SIGQUIT" \notin oldmask => handled + Waits("SIGQUIT") >= Raised
      BY <1>b, <2>1 DEF PendCount
    <3> QED
      BY <1>4, <1>8, <1>a, <2>1, <2>5, <3>1
  <2>9. PendCount'
    BY <1>4, <1>b, <2>1, <2>7, <2>8 DEF PendCount
  <2> QED
    BY <2>3, <2>4, <2>9 DEF PendInv
<1>10. CASE W!PendExit
  <2>1. /\ UNCHANGED <<pend, mask, frames, sent, caught, oldmask, raised, handled, seen>>
        /\ pc = "again" /\ pc' = "done" /\ raised = 6
        /\ frames = <<>> /\ \A s \in WaitSigs : ~W!Deliverable(s)
    BY <1>10 DEF W!PendExit, W!PendMainStep, W!InMain, W!sigVars
  <2>2. Raised' = Raised
    BY <2>1 DEF Raised
  <2>3. PendTypes' /\ PendSteps'
    BY <1>1, <1>b, <2>1 DEF PendTypes, PendSteps
  <2>4. "SIGQUIT" \notin oldmask => handled >= Raised
    <3>1. "SIGQUIT" \notin oldmask => handled + Waits("SIGQUIT") >= Raised
      BY <1>b, <2>1 DEF PendCount
    <3> QED
      BY <1>8, <1>a, <2>1, <3>1
  <2>5. PendCount'
    BY <1>1, <1>b, <2>1, <2>2, <2>4 DEF PendCount
  <2> QED
    BY <2>3, <2>5 DEF PendInv
<1>11. CASE W!PendArrive
  <2>1. PICK s \in WaitSigs : W!Send(s)
    BY <1>11 DEF W!PendArrive
  <2>2. UNCHANGED <<pc, caught, oldmask, raised, handled, seen>> /\ pc \notin {"done", "killed"}
    BY <1>11 DEF W!PendArrive, W!pendMainVars, W!Ended
  <2>3. /\ Signalled(WaitSigs)' /\ MainMask' = MainMask /\ pend' = pend \cup {s} /\ sent' = sent + 1
    BY <1>0, <2>1, SendStep
  <2>4. Waits("SIGQUIT")' \in {0, 1} /\ Waits("SIGQUIT")' >= Waits("SIGQUIT")
    BY <2>3 DEF Waits
  <2>5. Raised' = Raised
    BY <2>2 DEF Raised
  <2>6. PendTypes' /\ PendSteps'
    BY <1>b, <2>2, <2>3 DEF PendTypes, PendSteps
  <2>7. handled + Waits("SIGQUIT") <= sent + Raised
    BY <1>b DEF PendCount
  <2>8. handled' + Waits("SIGQUIT")' <= sent' + Raised'
    BY <1>a, <2>2, <2>3, <2>4, <2>5, <2>7
  <2>9. handled + Waits("SIGQUIT") >= Raised => handled' + Waits("SIGQUIT")' >= Raised'
    BY <1>a, <2>2, <2>4, <2>5
  <2>10. PendCount'
    BY <1>b, <2>2, <2>3, <2>8, <2>9 DEF PendCount
  <2> QED
    BY <2>6, <2>10 DEF PendInv
<1>12. CASE W!Return
  <2>1. /\ frames # <<>> /\ W!Leave /\ UNCHANGED <<pc, caught, oldmask, raised, handled, seen>>
    BY <1>12 DEF W!Return, W!pendMainVars
  <2>2. /\ Signalled(WaitSigs)' /\ MainMask' = MainMask /\ pend' = pend /\ sent' = sent
    BY <1>0, <2>1, LeaveStep
  <2>3. Raised' = Raised /\ Waits("SIGQUIT")' = Waits("SIGQUIT")
    BY <2>1, <2>2 DEF Raised, Waits
  <2>4. PendTypes' /\ PendSteps'
    BY <1>b, <2>1, <2>2 DEF PendTypes, PendSteps
  <2>5. PendCount'
    BY <1>b, <2>1, <2>2, <2>3 DEF PendCount
  <2> QED
    BY <2>4, <2>5 DEF PendInv
<1>13. ASSUME NEW s \in WaitSigs, W!PendDeliver(s) PROVE PendInv'
  <2>1. W!Enter(s) /\ UNCHANGED <<caught, oldmask, raised, seen>> /\ pc \notin {"done", "killed"}
    BY <1>13 DEF W!PendDeliver, W!Ended
  <2>2. /\ Signalled(WaitSigs)' /\ MainMask' = MainMask /\ pend' = pend \ {s} /\ sent' = sent
        /\ s \in pend /\ s \notin mask
    BY <1>0, <2>1, EnterStep
  <2>3. s \notin MainMask
    BY <2>2 DEF MainMask
  <2>4. Raised' = Raised
    BY <2>1 DEF Raised
  <2>5. CASE s \in caught
    <3>1. handled' = handled + 1 /\ pc' = pc /\ s = "SIGQUIT"
      BY <1>13, <1>b, <2>5 DEF W!PendDeliver, PendTypes
    <3>2. "SIGQUIT" \notin oldmask /\ pc \in {"signal", "block", "again"}
      BY <1>b, <2>1, <2>3, <3>1 DEF PendTypes
    <3>3. PendTypes'
      BY <1>b, <2>1, <2>2, <3>1 DEF PendTypes
    <3>5. PendSteps'
      BY <1>b, <2>1, <3>1, <3>2 DEF PendSteps
    <3>6. handled' + Waits("SIGQUIT")' = handled + Waits("SIGQUIT")
      <4>1. Waits("SIGQUIT") = 1 /\ Waits("SIGQUIT")' = 0
        BY <2>2, <3>1 DEF Waits
      <4> QED
        BY <1>a, <3>1, <4>1
    <3>7. PendCount'
      BY <1>b, <2>1, <2>2, <2>4, <3>1, <3>2, <3>6 DEF PendCount
    <3> QED
      BY <3>3, <3>5, <3>7 DEF PendInv
  <2>6. CASE s \notin caught
    <3>1. handled' = handled /\ pc' = "killed"
      BY <1>13, <2>6 DEF W!PendDeliver
    <3>2. PendTypes' /\ PendSteps'
      BY <1>b, <2>1, <2>2, <3>1 DEF PendTypes, PendSteps
    <3>3. Waits("SIGQUIT")' \in {0, 1} /\ Waits("SIGQUIT")' <= Waits("SIGQUIT")
      BY <2>2 DEF Waits
    <3>4. handled + Waits("SIGQUIT") <= sent + Raised
      BY <1>b DEF PendCount
    <3>5. handled' + Waits("SIGQUIT")' <= sent' + Raised'
      BY <1>a, <2>2, <2>4, <3>1, <3>3, <3>4
    <3>6. PendCount'
      BY <1>b, <2>1, <3>1, <3>5 DEF PendCount
    <3> QED
      BY <3>2, <3>6 DEF PendInv
  <2> QED
    BY <2>5, <2>6
<1> QED
  BY <1>2, <1>3, <1>5, <1>6, <1>7, <1>9, <1>10, <1>11, <1>12, <1>13 DEF W!PendNext, W!PendMain

LEMMA PendListed == PendInv => W!PendTypeOK /\ W!HandledOnce /\ W!SeenAndRestored
<1> SUFFICES ASSUME PendInv PROVE W!PendTypeOK /\ W!HandledOnce /\ W!SeenAndRestored
  OBVIOUS
<1>1. WaitSigs \in SUBSET AllSigs /\ WaitSigs = {"SIGINT", "SIGQUIT"} /\ Signalled(WaitSigs)
  BY DEF WaitSigs, AllSigs, PendInv, PendTypes
<1>2. W!SigTypeOK
  BY <1>1, SignalTypes DEF W!SigTypeOK
<1>3. Len(frames) <= 2
  BY <1>1, TwoAtMost
<1>4. /\ sent \in 0..MaxSent /\ Waits("SIGQUIT") \in {0, 1} /\ handled \in Nat /\ raised \in 0..6
      /\ Raised \in 0..4 /\ handled + Waits("SIGQUIT") <= sent + Raised
  <2>1. raised \in 0..6 /\ handled \in Nat
    BY DEF PendInv, PendTypes
  <2> QED
    BY <1>1, <2>1, RaisedTypes DEF Signalled, Waits, PendInv, PendCount
<1>5. handled \in 0..4 + MaxSent /\ handled <= sent + 4
  BY <1>4, SignalAssumption
<1>6. W!PendTypeOK
  <2>1. caught \subseteq WaitSigs
    BY <1>1 DEF PendInv, PendTypes
  <2> QED
    BY <1>2, <1>3, <1>5, <2>1 DEF W!PendTypeOK, W!Ended, PendInv, PendTypes
<1>7. W!HandledOnce
  <2>1. ASSUME pc = "done" PROVE Raised = 4
    BY <2>1, RaisedTypes DEF PendInv, PendTypes, PendSteps
  <2>2. ASSUME pc = "done", "SIGQUIT" \notin oldmask PROVE handled \in 4..4 + sent
    <3>1. handled >= Raised
      BY <2>2 DEF PendInv, PendCount
    <3> QED
      BY <1>4, <1>5, <2>1, <2>2, <3>1
  <2>3. ASSUME pc = "done", "SIGQUIT" \in oldmask PROVE handled = 0 /\ "SIGQUIT" \in pend
    BY <2>3 DEF PendInv, PendCount
  <2> QED
    BY <2>2, <2>3 DEF W!HandledOnce
<1>8. W!SeenAndRestored
  BY MainOnly DEF W!SeenAndRestored, W!InMain, PendInv, PendTypes, PendSteps
<1> QED
  BY <1>6, <1>7, <1>8

------------------------------------------------------------------------------
(* usekill.c *)

LEMMA KillInitially == K!KillInit => KillInv
<1> SUFFICES ASSUME K!KillInit PROVE KillInv
  OBVIOUS
<1>1. K!KillTypeOK
  BY DEF K!KillInit, K!KillTypeOK, K!KillEnded
<1>2. K!FoundUntilReaped
  BY DEF K!KillInit, K!FoundUntilReaped, K!Kills
<1>3. answers["after"] = "none" /\ recycled = FALSE /\ kid = "none" /\ main = "fork"
  BY DEF K!KillInit, K!Kills
<1> QED
  BY <1>1, <1>2, <1>3 DEF KillInv

\* A kill() changes the answer of its own kind only.
LEMMA KillAnswer ==
  ASSUME K!KillTypeOK, NEW k \in K!Kills, K!Answered(k)
  PROVE  /\ answers' \in [K!Kills -> {"none", "ok", "esrch"}]
         /\ answers'[k] = (IF K!Found THEN "ok" ELSE "esrch")
         /\ \A j \in K!Kills : j # k => answers'[j] = answers[j]
BY DEF K!KillTypeOK, K!Answered

LEMMA KillStep == KillInv /\ K!KillNext => KillInv'
<1> SUFFICES ASSUME KillInv, K!KillNext PROVE KillInv'
  OBVIOUS
<1>0. /\ K!KillTypeOK /\ K!FoundUntilReaped /\ (recycled => kid = "gone")
      /\ (main = "fork" => kid = "none") /\ (~ignored /\ kid = "gone" => main \in {"after", "done"})
      /\ (main = "after" => kid = "gone") /\ (main # "done" => answers["after"] = "none")
  BY DEF KillInv
<1>1. CASE K!KillFork
  <2>1. /\ UNCHANGED <<usr1, how, missed, answers, recycled, stranger, ignored>> /\ main = "fork"
        /\ (main' = "sleep" /\ kid' = "signal") \/ (main' = "failed" /\ kid' = kid)
    BY <1>1 DEF K!KillFork
  <2>2. K!KillTypeOK'
    BY <1>0, <2>1 DEF K!KillTypeOK, K!KillEnded
  <2> QED
    BY <1>0, <2>1, <2>2 DEF KillInv, K!FoundUntilReaped
<1>2. CASE K!Sleep \/ K!System
  <2>1. /\ UNCHANGED <<kid, usr1, how, missed, answers, recycled, stranger, ignored>>
        /\ main \notin {"fork", "after", "done"} /\ main' \in {"usr1", "null"}
    BY <1>2 DEF K!Sleep, K!System
  <2>2. K!KillTypeOK'
    BY <1>0, <2>1 DEF K!KillTypeOK, K!KillEnded
  <2> QED
    BY <1>0, <2>1, <2>2 DEF KillInv, K!FoundUntilReaped
<1>3. ASSUME NEW k \in {"usr1", "null", "again"}, K!Answered(k), main = k,
             main' \notin {"fork", "after", "done"}, main' \in {"system", "failed", "again", "waitpid"},
             UNCHANGED <<kid, how, missed, recycled, ignored>>,
             K!SendUsr1 \/ UNCHANGED <<usr1, stranger>>
      PROVE  KillInv'
  <2>1. usr1' \in BOOLEAN /\ stranger' \in BOOLEAN
    <3>1. usr1 \in BOOLEAN /\ stranger \in BOOLEAN
      BY <1>0 DEF K!KillTypeOK
    <3> QED
      BY <1>3, <3>1 DEF K!SendUsr1
  <2>2. k \in K!Kills /\ k # "after" /\ "after" \in K!Kills
    BY DEF K!Kills
  <2>3. /\ answers' \in [K!Kills -> {"none", "ok", "esrch"}]
        /\ answers'[k] = (IF K!Found THEN "ok" ELSE "esrch")
        /\ \A j \in K!Kills : j # k => answers'[j] = answers[j]
    BY <1>0, <1>3, <2>2, KillAnswer
  <2>4. K!KillTypeOK'
    BY <1>0, <1>3, <2>1, <2>3 DEF K!KillTypeOK, K!KillEnded
  <2>5. ~ignored => kid # "gone" /\ ~recycled
    BY <1>0, <1>3
  <2>6. K!FoundUntilReaped'
    <3>1. ~ignored => stranger' = stranger
      BY <1>3, <2>5, <1>0 DEF K!SendUsr1, K!KillTypeOK
    <3>2. ~ignored => \A j \in {"usr1", "null", "again"} : answers'[j] # "esrch"
      BY <1>0, <2>2, <2>3, <2>5 DEF K!Found, K!FoundUntilReaped, K!Kills
    <3> QED
      BY <1>0, <1>3, <2>2, <2>3, <3>1, <3>2 DEF K!FoundUntilReaped
  <2> QED
    BY <1>0, <1>3, <2>2, <2>3, <2>4, <2>6 DEF KillInv
<1>4. CASE K!Usr1
  BY <1>3, <1>4 DEF K!Usr1
<1>5. CASE K!Null
  BY <1>3, <1>5 DEF K!Null
<1>6. CASE K!Again
  BY <1>3, <1>6 DEF K!Again
<1>7. CASE K!Waitpid
  <2>1. /\ UNCHANGED <<usr1, how, missed, answers, recycled, stranger, ignored>> /\ main = "waitpid"
        /\ \/ main' = "after" /\ kid' = "gone"
           \/ main' = "failed" /\ kid' = kid
    BY <1>7 DEF K!Waitpid
  <2>2. K!KillTypeOK'
    BY <1>0, <2>1 DEF K!KillTypeOK, K!KillEnded
  <2> QED
    BY <1>0, <2>1, <2>2 DEF KillInv, K!FoundUntilReaped
<1>8. CASE K!After
  <2>1. /\ UNCHANGED <<kid, usr1, how, missed, recycled, stranger, ignored>>
        /\ main = "after" /\ main' = "done" /\ K!Answered("after") /\ kid = "gone"
    BY <1>0, <1>8 DEF K!After
  <2>2. "after" \in K!Kills
    BY DEF K!Kills
  <2>3. /\ answers' \in [K!Kills -> {"none", "ok", "esrch"}]
        /\ answers'["after"] = (IF K!Found THEN "ok" ELSE "esrch")
        /\ \A j \in K!Kills : j # "after" => answers'[j] = answers[j]
    BY <1>0, <2>1, <2>2, KillAnswer
  <2>4. K!KillTypeOK'
    BY <1>0, <2>1, <2>3 DEF K!KillTypeOK, K!KillEnded
  <2>5. K!FoundUntilReaped'
    BY <1>0, <2>1, <2>3 DEF K!Found, K!FoundUntilReaped, K!Kills
  <2> QED
    BY <1>0, <2>1, <2>4, <2>5 DEF KillInv
<1>9. ASSUME kid \notin {"none", "zombie", "gone"}, kid' \in {kid, "pause", "paused", "exit", K!Dead},
             usr1' \in BOOLEAN, missed' \in BOOLEAN, how' \in {"none", "exited", "killed"},
             UNCHANGED <<main, answers, recycled, stranger, ignored>>
      PROVE  KillInv'
  <2>1. K!Dead \in {"gone", "zombie"} /\ (~ignored => K!Dead = "zombie")
    BY DEF K!Dead
  <2>2. K!KillTypeOK'
    BY <1>0, <1>9, <2>1 DEF K!KillTypeOK
  <2> QED
    BY <1>0, <1>9, <2>1, <2>2 DEF KillInv, K!FoundUntilReaped
<1>a. usr1 \in BOOLEAN /\ missed \in BOOLEAN /\ how \in {"none", "exited", "killed"}
  BY <1>0 DEF K!KillTypeOK
<1>10. CASE K!KillSignal
  BY <1>9, <1>10, <1>a DEF K!KillSignal
<1>11. CASE K!Pause
  BY <1>9, <1>11, <1>a DEF K!Pause
<1>12. CASE K!Exit
  BY <1>9, <1>12, <1>a DEF K!Exit
<1>13. CASE K!Deliver
  <2>1. /\ kid \in {"signal", "pause", "paused", "exit"} /\ usr1' = FALSE
        /\ UNCHANGED <<main, answers, recycled, stranger, ignored>>
    BY <1>13 DEF K!Deliver, K!Alive
  <2>2. kid' \in {kid, "exit", K!Dead} /\ how' \in {how, "killed"} /\ missed' \in BOOLEAN
    BY <1>13, <1>a, <2>1 DEF K!Deliver
  <2> QED
    BY <1>9, <1>a, <2>1, <2>2
<1>14. CASE K!Recycle
  <2>1. recycled' = TRUE /\ UNCHANGED <<main, kid, usr1, how, missed, answers, stranger, ignored>>
        /\ kid = "gone"
    BY <1>14 DEF K!Recycle
  <2>2. K!KillTypeOK'
    BY <1>0, <2>1 DEF K!KillTypeOK
  <2> QED
    BY <1>0, <2>1, <2>2 DEF KillInv, K!FoundUntilReaped
<1> QED
  BY <1>1, <1>2, <1>4, <1>5, <1>6, <1>7, <1>8, <1>10, <1>11, <1>12, <1>13, <1>14
     DEF K!KillNext, K!Parent, K!KillChild

------------------------------------------------------------------------------
(* orphan.c *)

LEMMA OrphanInitially == K!OrphanInit => OrphanInv
<1> SUFFICES ASSUME K!OrphanInit PROVE OrphanInv
  OBVIOUS
<1>1. K!OrphanTypeOK
  BY DEF K!OrphanInit, K!OrphanTypeOK, K!OrphanEnded
<1> QED
  BY <1>1 DEF K!OrphanInit, OrphanInv, K!OrphanSurvives, K!Orphaned

LEMMA OrphanStep == OrphanInv /\ K!OrphanNext => OrphanInv'
<1> SUFFICES ASSUME OrphanInv, K!OrphanNext PROVE OrphanInv'
  OBVIOUS
<1> USE DEF K!KidStep
<1>0. /\ K!OrphanTypeOK /\ (parent = "fork" => kid = "none")
      /\ (kid \in {"stop", "read", "reading", "done"} => catches)
      /\ (stopped => kid = "read") /\ (hup => catches)
      /\ kid # "killed" /\ (parent = "exited" => ~stopped)
  BY DEF OrphanInv, K!OrphanSurvives, K!Orphaned
<1>a. stopped \in BOOLEAN /\ catches \in BOOLEAN /\ hup \in BOOLEAN
  BY <1>0 DEF K!OrphanTypeOK
<1>1. ASSUME K!OrphanTypeOK', parent' = "fork" => kid' = "none",
             kid' \in {"stop", "read", "reading", "done"} => catches',
             stopped' => kid' = "read", hup' => catches',
             kid' # "killed", parent' = "exited" => ~stopped'
      PROVE  OrphanInv'
  BY <1>1 DEF OrphanInv, K!OrphanSurvives, K!Orphaned
<1>2. CASE K!OrphanFork
  <2>1. /\ UNCHANGED <<stopped, catches, hup, fg, input, result>> /\ parent = "fork"
        /\ \/ parent' = "sleep" /\ kid' = "ids"
           \/ parent' = "exited" /\ kid' = kid
    BY <1>2 DEF K!OrphanFork
  <2>2. K!OrphanTypeOK'
    BY <1>0, <2>1 DEF K!OrphanTypeOK
  <2> QED
    BY <1>0, <1>1, <2>1, <2>2
<1>3. CASE K!ParentExit
  <2>1. /\ UNCHANGED <<kid, catches, fg, input, result>> /\ parent = "sleep" /\ parent' = "exited"
        /\ hup' = stopped /\ stopped' = FALSE
    BY <1>3 DEF K!ParentExit
  <2>2. K!OrphanTypeOK'
    BY <1>0, <2>1 DEF K!OrphanTypeOK
  <2> QED
    BY <1>0, <1>1, <2>1, <2>2
<1>4. CASE K!ShellTakes
  <2>1. UNCHANGED <<parent, kid, stopped, catches, hup, input, result>> /\ fg' = "shell"
    BY <1>4 DEF K!ShellTakes
  <2>2. K!OrphanTypeOK'
    BY <1>0, <2>1 DEF K!OrphanTypeOK
  <2> QED
    BY <1>0, <1>1, <2>1, <2>2
<1>5. CASE K!Ids
  <2>1. /\ UNCHANGED <<parent, stopped, catches, hup, fg, input, result>>
        /\ kid = "ids" /\ kid' = "signal"
    BY <1>5 DEF K!Ids
  <2>2. K!OrphanTypeOK'
    BY <1>0, <2>1 DEF K!OrphanTypeOK
  <2> QED
    BY <1>0, <1>1, <2>1, <2>2
<1>6. CASE K!OrphanSignal
  <2>1. /\ UNCHANGED <<parent, stopped, hup, fg, input, result>>
        /\ kid = "signal" /\ kid' = "stop" /\ catches' = TRUE
    BY <1>6 DEF K!OrphanSignal
  <2>2. K!OrphanTypeOK'
    BY <1>0, <2>1 DEF K!OrphanTypeOK
  <2> QED
    BY <1>0, <1>1, <2>1, <2>2
<1>7. CASE K!Stop
  <2>1. /\ UNCHANGED <<parent, catches, hup, fg, input, result>>
        /\ kid = "stop" /\ kid' = "read" /\ stopped' = (parent # "exited")
    BY <1>7 DEF K!Stop, K!Orphaned
  <2>2. stopped' \in BOOLEAN
    BY <2>1
  <2>3. K!OrphanTypeOK'
    BY <1>0, <2>1, <2>2 DEF K!OrphanTypeOK
  <2> QED
    BY <1>0, <1>1, <2>1, <2>3
<1>8. CASE K!Read
  <2>1. /\ UNCHANGED <<parent, stopped, catches, hup, fg, input>> /\ ~stopped
        /\ kid = "read" /\ kid' \in {"done", "reading"} /\ result' \in {"EIO", result}
    BY <1>8 DEF K!Read
  <2>2. K!OrphanTypeOK'
    BY <1>0, <2>1 DEF K!OrphanTypeOK, K!OrphanEnded
  <2> QED
    BY <1>0, <1>1, <2>1, <2>2
<1>9. CASE K!Got
  <2>1. /\ UNCHANGED <<parent, stopped, catches, hup, fg>> /\ ~stopped
        /\ kid = "reading" /\ kid' = "done" /\ input' = "none" /\ result' = "char"
    BY <1>9 DEF K!Got
  <2>2. K!OrphanTypeOK'
    BY <1>0, <2>1 DEF K!OrphanTypeOK, K!OrphanEnded
  <2> QED
    BY <1>0, <1>1, <2>1, <2>2
<1>10. CASE K!Hup
  <2>1. UNCHANGED <<parent, kid, stopped, catches, fg, input, result>> /\ hup' = FALSE
    BY <1>0, <1>10 DEF K!Hup
  <2>2. K!OrphanTypeOK'
    BY <1>0, <2>1 DEF K!OrphanTypeOK
  <2> QED
    BY <1>0, <1>1, <2>1, <2>2
<1>11. CASE K!Cont
  <2>1. UNCHANGED <<parent, kid, catches, hup, fg, input, result>> /\ stopped' = FALSE
    BY <1>11 DEF K!Cont
  <2>2. K!OrphanTypeOK'
    BY <1>0, <2>1 DEF K!OrphanTypeOK
  <2> QED
    BY <1>0, <1>1, <2>1, <2>2
<1>12. CASE K!Type
  <2>1. UNCHANGED <<parent, kid, stopped, catches, hup, fg, result>> /\ input' \in {"any", "none"}
    BY <1>12 DEF K!Type
  <2>2. K!OrphanTypeOK'
    BY <1>0, <2>1 DEF K!OrphanTypeOK
  <2> QED
    BY <1>0, <1>1, <2>1, <2>2
<1> QED
  BY <1>2, <1>3, <1>4, <1>5, <1>6, <1>7, <1>8, <1>9, <1>10, <1>11, <1>12
     DEF K!OrphanNext, K!OrphanChild

------------------------------------------------------------------------------
(* canon.c *)

LEMMA PassInitially == T!PassInit => PassInv
<1> SUFFICES ASSUME T!PassInit PROVE PassInv
  OBVIOUS
<1>1. /\ pend = {} /\ mask \in {{}, {"SIGINT"}} /\ frames = <<>> /\ sent = 0 /\ pc = "fopen"
      /\ osig = {} /\ echo \in BOOLEAN /\ oldterm = FALSE /\ queue = <<>> /\ buf = <<>> /\ typed = 0
      /\ by = "none" /\ stopped = FALSE /\ before = [mask |-> mask, echo |-> echo]
  BY DEF T!PassInit
<1>2. before \in [mask : {{}, {"SIGINT"}}, echo : BOOLEAN] /\ before.mask = mask /\ before.echo = echo
  BY <1>1
<1>3. oldterm \in BOOLEAN /\ stopped \in BOOLEAN
  BY <1>1
<1>4. /\ queue \in Seq({"shown", "hidden", "newline"}) /\ Len(queue) <= typed /\ typed \in 0..MaxTyped
      /\ buf \in Seq({"hidden"}) /\ Len(buf) <= MaxPass
  BY <1>1, EmptySeq, SignalAssumption
<1>5. /\ pend = {} /\ frames = <<>> /\ sent \in 0..MaxSent /\ pc = "fopen" /\ osig = {} /\ by = "none"
      /\ stopped = FALSE
  BY <1>1, SignalAssumption
<1> QED
  BY <1>2, <1>3, <1>4, <1>5 DEF PassInv

\* A line that is there is not empty, and nothing but what is hidden comes before
\* its end.
LEMMA PassQueue ==
  ASSUME NEW keys, NEW q \in Seq(keys), NEW i \in DOMAIN q
  PROVE  /\ Head(q) \in keys /\ Tail(q) \in Seq(keys) /\ Len(Tail(q)) = Len(q) - 1
<1>1. q # <<>>
  BY EmptySeq
<1> QED
  BY <1>1, HeadTailProperties

LEMMA PassMoves == PassInv /\ T!PassNext => PassInv'
<1> SUFFICES ASSUME PassInv, T!PassNext PROVE PassInv'
  OBVIOUS
<1> USE SignalAssumption
<1>0. /\ pend \subseteq PassSigs /\ frames = <<>> /\ sent \in 0..MaxSent
      /\ before.mask \in {{}, {"SIGINT"}} /\ before.echo \in BOOLEAN
      /\ PassSigs = {"SIGINT", "SIGTSTP", "SIGQUIT"}
      /\ queue \in Seq({"shown", "hidden", "newline"}) /\ Len(queue) <= typed /\ typed \in 0..MaxTyped
      /\ (pc = "getc" => queue \in Seq({"hidden", "newline"}))
      /\ buf \in Seq({"hidden"}) /\ Len(buf) <= MaxPass
  BY DEF PassInv, PassSigs
<1>a. <<>> \in Seq({"shown", "hidden", "newline"}) /\ <<>> \in Seq({"hidden", "newline"})
      /\ <<>> \in Seq({"hidden"}) /\ Len(<<>>) = 0
  BY EmptySeq
<1>1. CASE T!Fopen
  <2>1. /\ UNCHANGED <<pend, mask, frames, sent, osig, echo, oldterm, queue, buf, typed, by, stopped, before>>
        /\ pc = "fopen" /\ pc' \in {"block", "failed"}
    BY <1>1 DEF T!Fopen, T!PassStep, T!sigVars
  <2> QED
    BY <2>1 DEF PassInv
<1>2. CASE T!Block
  <2>1. /\ UNCHANGED <<pend, frames, sent, echo, oldterm, queue, buf, typed, by, stopped, before>>
        /\ pc = "block" /\ pc' = "getattr" /\ osig' = mask /\ mask' = mask \cup {"SIGINT", "SIGTSTP"}
    BY <1>2 DEF T!Block, T!PassStep, T!SetMask
  <2>2. mask = before.mask /\ osig' \subseteq PassSigs
    BY <1>0, <2>1 DEF PassInv
  <2> QED
    BY <2>1, <2>2 DEF PassInv
<1>3. CASE T!Tcgetattr
  <2>1. /\ UNCHANGED <<pend, mask, frames, sent, osig, echo, queue, buf, typed, by, stopped, before>>
        /\ pc = "getattr" /\ pc' = "setattr" /\ oldterm' = echo
    BY <1>3 DEF T!Tcgetattr, T!PassStep, T!sigVars
  <2>2. oldterm' = before.echo /\ oldterm' \in BOOLEAN
    BY <1>0, <2>1 DEF PassInv
  <2> QED
    BY <2>1, <2>2 DEF PassInv
<1>4. CASE T!EchoOff
  <2>1. /\ UNCHANGED <<pend, mask, frames, sent, osig, oldterm, buf, typed, by, stopped, before>>
        /\ pc = "setattr" /\ pc' = "getc" /\ echo' = FALSE /\ queue' = <<>> /\ ~stopped /\ by = "none"
    BY <1>4 DEF T!EchoOff, T!PassStep, T!Asking, T!sigVars
  <2>2. Len(queue') <= typed'
    BY <1>0, <1>a, <2>1
  <2> QED
    BY <1>a, <2>1, <2>2 DEF PassInv
<1>5. CASE T!Getc
  <2>1. /\ UNCHANGED <<pend, mask, frames, sent, osig, echo, oldterm, typed, by, stopped, before>>
        /\ pc = "getc" /\ (\E i \in DOMAIN queue : queue[i] = "newline") /\ queue' = Tail(queue)
        /\ \/ pc' = "restore" /\ buf' = buf
           \/ /\ pc' = "getc" /\ Head(queue) # "newline"
              /\ buf' = IF Len(buf) < MaxPass THEN Append(buf, Head(queue)) ELSE buf
    BY <1>5 DEF T!Getc, T!PassStep, T!sigVars
  <2>2. queue \in Seq({"hidden", "newline"})
    BY <1>0, <2>1
  <2>3. /\ Head(queue) \in {"hidden", "newline"} /\ queue' \in Seq({"hidden", "newline"})
        /\ queue' \in Seq({"shown", "hidden", "newline"}) /\ Len(queue') = Len(queue) - 1
    BY <1>0, <2>1, <2>2, PassQueue
  <2>4. buf' \in Seq({"hidden"}) /\ Len(buf') <= MaxPass
    <3>1. CASE buf' = buf
      BY <1>0, <3>1
    <3>2. CASE buf' # buf
      <4>1. Head(queue) = "hidden" /\ Len(buf) < MaxPass /\ buf' = Append(buf, Head(queue))
        BY <2>1, <2>3, <3>2
      <4>2. Len(buf) \in Nat /\ Append(buf, "hidden") \in Seq({"hidden"})
            /\ Len(Append(buf, "hidden")) = Len(buf) + 1
        BY <1>0, AppendProperties, LenProperties
      <4> QED
        BY <4>1, <4>2
    <3> QED
      BY <3>1, <3>2
  <2>5. Len(queue') <= typed' /\ pc' \in {"getc", "restore"}
    <3>1. Len(queue) \in Nat
      BY <1>0, LenProperties
    <3> QED
      BY <1>0, <2>1, <2>3, <3>1
  <2> QED
    BY <2>1, <2>3, <2>4, <2>5 DEF PassInv
<1>6. CASE T!EchoBack
  <2>1. /\ UNCHANGED <<pend, mask, frames, sent, osig, oldterm, buf, typed, by, stopped, before>>
        /\ pc = "restore" /\ pc' = "unmask" /\ echo' = oldterm /\ queue' = <<>>
    BY <1>6 DEF T!EchoBack, T!PassStep, T!sigVars
  <2>2. Len(queue') <= typed'
    BY <1>0, <1>a, <2>1
  <2> QED
    BY <1>a, <2>1, <2>2 DEF PassInv
<1>7. CASE T!Unmask
  <2>1. /\ UNCHANGED <<pend, frames, sent, osig, echo, oldterm, queue, buf, typed, by, stopped, before>>
        /\ pc = "unmask" /\ pc' = "clear" /\ mask' = osig
    BY <1>7 DEF T!Unmask, T!PassStep, T!SetMask
  <2> QED
    BY <2>1 DEF PassInv
<1>8. CASE T!Clear
  <2>1. /\ UNCHANGED <<pend, mask, frames, sent, osig, echo, oldterm, queue, typed, by, stopped, before>>
        /\ pc = "clear" /\ pc' = "done" /\ buf' = <<>>
    BY <1>8 DEF T!Clear, T!PassStep, T!sigVars
  <2>2. Len(buf') <= MaxPass
    BY <1>a, <2>1
  <2> QED
    BY <1>a, <2>1, <2>2 DEF PassInv
<1>9. CASE T!TypeHidden
  <2>1. /\ UNCHANGED <<pend, mask, frames, sent, pc, osig, echo, oldterm, buf, by, stopped, before>>
        /\ typed < MaxTyped /\ typed' = typed + 1
    BY <1>9 DEF T!TypeHidden, T!sigVars
  <2>2. PICK c \in {IF echo THEN "shown" ELSE "hidden", "newline"} : queue' = Append(queue, c)
    BY <1>9 DEF T!TypeHidden
  <2>3. /\ queue' \in Seq({"shown", "hidden", "newline"}) /\ Len(queue') = Len(queue) + 1
        /\ Len(queue) \in Nat
    BY <1>0, <2>2, AppendProperties, LenProperties
  <2>4. pc = "getc" => queue' \in Seq({"hidden", "newline"})
    <3>1. ASSUME pc = "getc" PROVE c \in {"hidden", "newline"}
      BY <2>2, <3>1 DEF PassInv
    <3> QED
      BY <1>0, <2>2, <3>1, AppendProperties
  <2>5. Len(queue') <= typed' /\ typed' \in 0..MaxTyped
    BY <1>0, <2>1, <2>3
  <2> QED
    BY <2>1, <2>3, <2>4, <2>5 DEF PassInv
<1>10. CASE T!PassArrive
  <2>1. PICK s \in PassSigs : T!Send(s)
    BY <1>10 DEF T!PassArrive
  <2>2. /\ UNCHANGED <<pc, osig, echo, oldterm, queue, buf, typed, by, stopped, before>>
        /\ UNCHANGED <<mask, frames>> /\ sent < MaxSent /\ sent' = sent + 1 /\ pend' = pend \cup {s}
    BY <1>10, <2>1 DEF T!PassArrive, T!passVars, T!Send
  <2>3. sent' \in 0..MaxSent /\ pend' \subseteq PassSigs
    BY <1>0, <2>2
  <2> QED
    BY <2>2, <2>3 DEF PassInv
<1>11. ASSUME NEW s \in PassSigs, T!PassDeliver(s) PROVE PassInv'
  <2>1. /\ UNCHANGED <<mask, frames, sent, pc, osig, echo, oldterm, queue, buf, typed, before>>
        /\ s \notin mask /\ pend' = pend \ {s} /\ by = "none" /\ pc \notin {"done", "failed"}
        /\ IF s = "SIGTSTP" THEN stopped' = TRUE /\ by' = by ELSE by' = s /\ stopped' = stopped
    BY <1>11 DEF T!PassDeliver, T!Asking, T!PassEnded, T!Deliverable
  <2>2. pc \in {"getc", "restore"} => s \notin {"SIGINT", "SIGTSTP"}
    BY <2>1 DEF PassInv
  <2>3. stopped' \in BOOLEAN /\ by' \in PassSigs \cup {"none"} /\ pend' \subseteq PassSigs
    BY <1>0, <2>1 DEF PassInv
  <2>4. pc \in {"getc", "restore"} => ~stopped' /\ by' \in {"none", "SIGQUIT"}
    BY <1>0, <2>1, <2>2 DEF PassInv
  <2> QED
    BY <2>1, <2>3, <2>4 DEF PassInv
<1>12. CASE T!PassCont
  <2>1. UNCHANGED <<pend, mask, frames, sent, pc, osig, echo, oldterm, queue, buf, typed, by, before>>
        /\ stopped' = FALSE
    BY <1>12 DEF T!PassCont, T!sigVars
  <2> QED
    BY <2>1 DEF PassInv
<1> QED
  BY <1>1, <1>2, <1>3, <1>4, <1>5, <1>6, <1>7, <1>8, <1>9, <1>10, <1>11, <1>12
     DEF T!PassNext, T!PassMain

LEMMA PassListed ==
  PassInv => T!PassTypeOK /\ T!EchoRestored /\ T!MaskAsBefore /\ T!NothingShown
<1> SUFFICES ASSUME PassInv
             PROVE  T!PassTypeOK /\ T!EchoRestored /\ T!MaskAsBefore /\ T!NothingShown
  OBVIOUS
<1>1. mask \subseteq PassSigs /\ echo \in BOOLEAN
  BY DEF PassInv, PassSigs
<1>2. T!SigTypeOK
  <2>1. DOMAIN frames = {}
    BY DEF PassInv
  <2> QED
    BY <1>1, <2>1 DEF PassInv, T!SigTypeOK
<1>3. buf \in Seq({"shown", "hidden"}) /\ (\A i \in DOMAIN buf : buf[i] # "shown")
  BY ElementOfSeq DEF PassInv
<1>4. T!PassTypeOK
  BY <1>1, <1>2, <1>3 DEF PassInv, T!PassTypeOK, T!PassEnded
<1>5. T!EchoRestored /\ T!MaskAsBefore
  BY DEF PassInv, T!EchoRestored, T!MaskAsBefore, T!PassEnded
<1> QED
  BY <1>3, <1>4, <1>5 DEF T!NothingShown

------------------------------------------------------------------------------
(* The programs of 18-termios that change a setting *)

LEMMA SettingsFields ==
  ASSUME NEW t \in Settings
  PROVE  DOMAIN t = Fields /\ t = [f \in Fields |-> t[f]]
BY DEF Settings, Fields

\* Two terminals with the same values are set alike.
LEMMA SameSettings ==
  ASSUME NEW t \in Settings, NEW u \in Settings, \A f \in Fields : t[f] = u[f]
  PROVE  t = u
<1>1. t = [f \in Fields |-> t[f]] /\ u = [f \in Fields |-> u[f]]
  BY SettingsFields
<1>2. [f \in Fields |-> t[f]] = [f \in Fields |-> u[f]]
  OBVIOUS
<1> QED
  BY <1>1, <1>2

\* What keeps each setting within its values fits.
LEMMA FitsIf ==
  ASSUME NEW c,
         "icanon" \in DOMAIN c => c.icanon \in BOOLEAN, "isig" \in DOMAIN c => c.isig \in BOOLEAN,
         "intr" \in DOMAIN c => c.intr \in T!Keys \cup {"none"},
         "quit" \in DOMAIN c => c.quit \in T!Keys, "susp" \in DOMAIN c => c.susp \in T!Keys,
         "eof" \in DOMAIN c => c.eof \in T!Keys, "vmin" \in DOMAIN c => c.vmin \in {0, 1, 3},
         "vtime" \in DOMAIN c => c.vtime \in {0, 20},
         "other" \in DOMAIN c => c.other \in {"as found", "changed"}
  PROVE  Fits(c)
<1> SUFFICES ASSUME NEW t \in Settings PROVE T!Changed(t, c) \in Settings
  BY DEF Fits
<1> DEFINE g == T!Changed(t, c)
<1>1. DOMAIN t = Fields
  BY SettingsFields
<1>2. /\ t.icanon \in BOOLEAN /\ t.isig \in BOOLEAN /\ t.intr \in T!Keys \cup {"none"} /\ t.quit \in T!Keys
      /\ t.susp \in T!Keys /\ t.eof \in T!Keys /\ t.vmin \in {0, 1, 3} /\ t.vtime \in {0, 20}
      /\ t.other \in {"as found", "changed"}
  BY DEF Settings
<1>3. DOMAIN g = Fields /\ g = [f \in Fields |-> g[f]]
  BY <1>1 DEF T!Changed
<1>4. \A f \in Fields : g[f] = IF f \in DOMAIN c THEN c[f] ELSE t[f]
  BY <1>1 DEF T!Changed
<1> HIDE DEF g
<1>5. /\ g.icanon \in BOOLEAN /\ g.isig \in BOOLEAN /\ g.intr \in T!Keys \cup {"none"} /\ g.quit \in T!Keys
      /\ g.susp \in T!Keys /\ g.eof \in T!Keys /\ g.vmin \in {0, 1, 3} /\ g.vtime \in {0, 20}
      /\ g.other \in {"as found", "changed"}
  BY <1>2, <1>4 DEF Fields
<1>6. g \in Settings
  BY <1>3, <1>5 DEF Settings, Fields
<1> QED
  BY <1>6 DEF g

\* The changes that the programs make.
LEMMA SetFits ==
  /\ Fits([other |-> "changed"]) /\ Fits([isig |-> FALSE]) /\ Fits([icanon |-> FALSE]) /\ Fits(<<>>)
  /\ Fits([intr |-> "]"]) /\ Fits([quit |-> "a"]) /\ Fits([susp |-> "z"]) /\ Fits([eof |-> "a"])
  /\ Fits([intr |-> "none", eof |-> "^B"])
  /\ \A min \in {0, 3}, time \in {0, 20} : Fits(T!MinTime(min, time))
<1>1. Fits([other |-> "changed"])
  BY FitsIf
<1>2. Fits([isig |-> FALSE])
  BY FitsIf
<1>3. Fits([icanon |-> FALSE])
  BY FitsIf
<1>4. Fits(<<>>)
  <2>1. DOMAIN <<>> = {}
    OBVIOUS
  <2> QED
    BY <2>1, FitsIf
<1>5. Fits([intr |-> "]"]) /\ Fits([eof |-> "a"])
  BY FitsIf DEF T!Keys
<1>6. Fits([quit |-> "a"]) /\ Fits([susp |-> "z"])
  BY FitsIf DEF T!Keys
<1>7. Fits([intr |-> "none", eof |-> "^B"])
  BY FitsIf DEF T!Keys
<1>8. ASSUME NEW min \in {0, 3}, NEW time \in {0, 20} PROVE Fits(T!MinTime(min, time))
  BY FitsIf DEF T!MinTime
<1> QED
  BY <1>1, <1>2, <1>3, <1>4, <1>5, <1>6, <1>7, <1>8

LEMMA StageKinds ==
  /\ T!Isatty.do = "isatty" /\ T!Get.do = "get" /\ T!Again.do = "again" /\ T!Read.do = "read"
  /\ T!Getchar.do = "getchar" /\ T!Once.do = "once" /\ T!Restore.do = "restore"
  /\ \A c : T!Set(c).do = "set" /\ T!Set(c).change = c
  /\ \A c : T!Command(c).do = "system" /\ T!Command(c).cmd = c
  /\ T!SetOther.do = "set" /\ T!SetOther.change = [other |-> "changed"]
BY DEF T!Isatty, T!Get, T!Again, T!Read, T!Getchar, T!Once, T!Restore, T!Set, T!SetOther, T!Command

\* Each program of 18-termios is staged as its source has it.
LEMMA Staged == \A p \in T!Programs : WellStaged(p)
<1>1. \A i \in 1..12 : \/ i = 1 \/ i = 2 \/ i = 3 \/ i = 4 \/ i = 5 \/ i = 6
                      \/ i = 7 \/ i = 8 \/ i = 9 \/ i = 10 \/ i = 11 \/ i = 12
  OBVIOUS
<1>2. WellStaged(T!Cr)
  <2> DEFINE p == T!Cr
  <2>1. /\ DOMAIN p = 1..8 /\ Len(p) = 8
        /\ p[1] = T!Isatty /\ p[2] = T!Get /\ p[3] = T!Command("stty") /\ p[4] = T!Read
        /\ p[5] = T!SetOther /\ p[6] = T!Command("stty") /\ p[7] = T!Read /\ p[8] = T!Restore
    BY DEF T!Cr
  <2> HIDE DEF p
  <2>2. WellStaged(p)
    BY <1>1, <2>1, StageKinds, SetFits DEF WellStaged, Changes, Commands
  <2> QED
    BY <2>2 DEF p
<1>3. WellStaged(T!Intr)
  <2> DEFINE p == T!Intr
  <2>1. /\ DOMAIN p = 1..6 /\ Len(p) = 6
        /\ p[1] = T!Get /\ p[2] = T!Set([intr |-> "]"]) /\ p[3] = T!Command("stty")
        /\ p[4] = T!Set([isig |-> FALSE]) /\ p[5] = T!Command("stty") /\ p[6] = T!Restore
    BY DEF T!Intr
  <2> HIDE DEF p
  <2>2. WellStaged(p)
    BY <1>1, <2>1, StageKinds, SetFits DEF WellStaged, Changes, Commands
  <2> QED
    BY <2>2 DEF p
<1>4. WellStaged(T!Quit)
  <2> DEFINE p == T!Quit
  <2>1. /\ DOMAIN p = 1..6 /\ Len(p) = 6
        /\ p[1] = T!Get /\ p[2] = T!Set([quit |-> "a"]) /\ p[3] = T!Command("cat")
        /\ p[4] = T!Set([isig |-> FALSE]) /\ p[5] = T!Command("cat") /\ p[6] = T!Restore
    BY DEF T!Quit
  <2> HIDE DEF p
  <2>2. WellStaged(p)
    BY <1>1, <2>1, StageKinds, SetFits DEF WellStaged, Changes, Commands
  <2> QED
    BY <2>2 DEF p
<1>5. WellStaged(T!Susp)
  <2> DEFINE p == T!Susp
  <2>1. /\ DOMAIN p = 1..7 /\ Len(p) = 7
        /\ p[1] = T!Get /\ p[2] = T!Command("cat") /\ p[3] = T!Set([susp |-> "z"])
        /\ p[4] = T!Command("cat") /\ p[5] = T!Set([isig |-> FALSE]) /\ p[6] = T!Command("cat")
        /\ p[7] = T!Restore
    BY DEF T!Susp
  <2> HIDE DEF p
  <2>2. WellStaged(p)
    BY <1>1, <2>1, StageKinds, SetFits DEF WellStaged, Changes, Commands
  <2> QED
    BY <2>2 DEF p
<1>6. WellStaged(T!Start)
  <2> DEFINE p == T!Start
  <2>1. /\ DOMAIN p = 1..5 /\ Len(p) = 5
        /\ p[1] = T!Get /\ p[2] = T!Command("top") /\ p[3] = T!SetOther /\ p[4] = T!Command("top")
        /\ p[5] = T!Restore
    BY DEF T!Start
  <2> HIDE DEF p
  <2>2. WellStaged(p)
    BY <1>1, <2>1, StageKinds, SetFits DEF WellStaged, Changes, Commands
  <2> QED
    BY <2>2 DEF p
<1>7. WellStaged(T!Reprint)
  <2> DEFINE p == T!Reprint
  <2>1. /\ DOMAIN p = 1..5 /\ Len(p) = 5
        /\ p[1] = T!Get /\ p[2] = T!Command("cat") /\ p[3] = T!SetOther /\ p[4] = T!Command("cat")
        /\ p[5] = T!Restore
    BY DEF T!Reprint
  <2> HIDE DEF p
  <2>2. WellStaged(p)
    BY <1>1, <2>1, StageKinds, SetFits DEF WellStaged, Changes, Commands
  <2> QED
    BY <2>2 DEF p
<1>8. WellStaged(T!Eof)
  <2> DEFINE p == T!Eof
  <2>1. /\ DOMAIN p = 1..5 /\ Len(p) = 5
        /\ p[1] = T!Isatty /\ p[2] = T!Get /\ p[3] = T!Read /\ p[4] = T!Set([eof |-> "a"])
        /\ p[5] = T!Read
    BY DEF T!Eof
  <2> HIDE DEF p
  <2>2. WellStaged(p)
    BY <1>1, <2>1, StageKinds, SetFits DEF WellStaged, Changes, Commands
  <2> QED
    BY <2>2 DEF p
<1>9. WellStaged(T!Eol)
  <2> DEFINE p == T!Eol
  <2>1. /\ DOMAIN p = 1..4 /\ Len(p) = 4
        /\ p[1] = T!Isatty /\ p[2] = T!Get /\ p[3] = T!SetOther /\ p[4] = T!Read
    BY DEF T!Eol
  <2> HIDE DEF p
  <2>2. WellStaged(p)
    BY <1>1, <2>1, StageKinds, SetFits DEF WellStaged, Changes, Commands
  <2> QED
    BY <2>2 DEF p
<1>10. WellStaged(T!Erase)
  <2> DEFINE p == T!Erase
  <2>1. /\ DOMAIN p = 1..4 /\ Len(p) = 4
        /\ p[1] = T!Get /\ p[2] = T!Read /\ p[3] = T!SetOther /\ p[4] = T!Read
    BY DEF T!Erase
  <2> HIDE DEF p
  <2>2. WellStaged(p)
    BY <1>1, <2>1, StageKinds, SetFits DEF WellStaged, Changes, Commands
  <2> QED
    BY <2>2 DEF p
<1>11. WellStaged(T!Disable)
  <2> DEFINE p == T!Disable
  <2>1. /\ DOMAIN p = 1..3 /\ Len(p) = 3
        /\ p[1] = T!Isatty /\ p[2] = T!Get /\ p[3] = T!Set([intr |-> "none", eof |-> "^B"])
    BY DEF T!Disable
  <2> HIDE DEF p
  <2>2. WellStaged(p)
    BY <1>1, <2>1, StageKinds, SetFits DEF WellStaged, Changes, Commands
  <2> QED
    BY <2>2 DEF p
<1>12. WellStaged(T!Baudrate)
  <2> DEFINE p == T!Baudrate
  <2>1. /\ DOMAIN p = 1..3 /\ Len(p) = 3
        /\ p[1] = T!Get /\ p[2] = T!SetOther /\ p[3] = T!Restore
    BY DEF T!Baudrate
  <2> HIDE DEF p
  <2>2. WellStaged(p)
    BY <1>1, <2>1, StageKinds, SetFits DEF WellStaged, Changes, Commands
  <2> QED
    BY <2>2 DEF p
<1>13. WellStaged(T!Optflag)
  <2> DEFINE p == T!Optflag
  <2>1. /\ DOMAIN p = 1..4 /\ Len(p) = 4
        /\ p[1] = T!Get /\ p[2] = T!SetOther /\ p[3] = T!Again /\ p[4] = T!Restore
    BY DEF T!Optflag
  <2> HIDE DEF p
  <2>2. WellStaged(p)
    BY <1>1, <2>1, StageKinds, SetFits DEF WellStaged, Changes, Commands
  <2> QED
    BY <2>2 DEF p
<1>14. WellStaged(T!Tabdly)
  <2> DEFINE p == T!Tabdly
  <2>1. /\ DOMAIN p = 1..5 /\ Len(p) = 5
        /\ p[1] = T!Get /\ p[2] = T!Getchar /\ p[3] = T!SetOther /\ p[4] = T!Getchar
        /\ p[5] = T!Restore
    BY DEF T!Tabdly
  <2> HIDE DEF p
  <2>2. WellStaged(p)
    BY <1>1, <2>1, StageKinds, SetFits DEF WellStaged, Changes, Commands
  <2> QED
    BY <2>2 DEF p
<1>15. WellStaged(T!Inlcr)
  <2> DEFINE p == T!Inlcr
  <2>1. /\ DOMAIN p = 1..5 /\ Len(p) = 5
        /\ p[1] = T!Get /\ p[2] = T!Getchar /\ p[3] = T!SetOther /\ p[4] = T!Getchar
        /\ p[5] = T!Restore
    BY DEF T!Inlcr
  <2> HIDE DEF p
  <2>2. WellStaged(p)
    BY <1>1, <2>1, StageKinds, SetFits DEF WellStaged, Changes, Commands
  <2> QED
    BY <2>2 DEF p
<1>16. WellStaged(T!Ixon)
  <2> DEFINE p == T!Ixon
  <2>1. /\ DOMAIN p = 1..6 /\ Len(p) = 6
        /\ p[1] = T!Get /\ p[2] = T!Command("yes") /\ p[3] = T!SetOther /\ p[4] = T!Command("yes")
        /\ p[5] = T!Command("cat") /\ p[6] = T!Restore
    BY DEF T!Ixon
  <2> HIDE DEF p
  <2>2. WellStaged(p)
    BY <1>1, <2>1, StageKinds, SetFits DEF WellStaged, Changes, Commands
  <2> QED
    BY <2>2 DEF p
<1>17. WellStaged(T!Isig)
  <2> DEFINE p == T!Isig
  <2>1. /\ DOMAIN p = 1..4 /\ Len(p) = 4
        /\ p[1] = T!Get /\ p[2] = T!Set([isig |-> FALSE]) /\ p[3] = T!Command("cat")
        /\ p[4] = T!Restore
    BY DEF T!Isig
  <2> HIDE DEF p
  <2>2. WellStaged(p)
    BY <1>1, <2>1, StageKinds, SetFits DEF WellStaged, Changes, Commands
  <2> QED
    BY <2>2 DEF p
<1>18. WellStaged(T!Echo)
  <2> DEFINE p == T!Echo
  <2>1. /\ DOMAIN p = 1..4 /\ Len(p) = 4
        /\ p[1] = T!Get /\ p[2] = T!SetOther /\ p[3] = T!Command("cat") /\ p[4] = T!Restore
    BY DEF T!Echo
  <2> HIDE DEF p
  <2>2. WellStaged(p)
    BY <1>1, <2>1, StageKinds, SetFits DEF WellStaged, Changes, Commands
  <2> QED
    BY <2>2 DEF p
<1>19. WellStaged(T!Icanon)
  <2> DEFINE p == T!Icanon
  <2>1. /\ DOMAIN p = 1..5 /\ Len(p) = 5
        /\ p[1] = T!Get /\ p[2] = T!Command("cat") /\ p[3] = T!Set([icanon |-> FALSE])
        /\ p[4] = T!Command("cat") /\ p[5] = T!Restore
    BY DEF T!Icanon
  <2> HIDE DEF p
  <2>2. WellStaged(p)
    BY <1>1, <2>1, StageKinds, SetFits DEF WellStaged, Changes, Commands
  <2> QED
    BY <2>2 DEF p
<1>20. WellStaged(T!Flusho)
  <2> DEFINE p == T!Flusho
  <2>1. /\ DOMAIN p = 1..4 /\ Len(p) = 4
        /\ p[1] = T!Get /\ p[2] = T!Set(<<>>) /\ p[3] = T!Command("cat") /\ p[4] = T!Restore
    BY DEF T!Flusho
  <2> HIDE DEF p
  <2>2. WellStaged(p)
    BY <1>1, <2>1, StageKinds, SetFits DEF WellStaged, Changes, Commands
  <2> QED
    BY <2>2 DEF p
<1>21. WellStaged(T!Mintime)
  <2> DEFINE p == T!Mintime
  <2>1. /\ DOMAIN p = 1..12 /\ Len(p) = 12
        /\ p[1] = T!Get /\ p[2] = T!Set(T!MinTime(0, 0)) /\ p[3] = T!Once
        /\ p[4] = T!Set(T!MinTime(3, 0)) /\ p[5] = T!Once /\ p[6] = T!Set(T!MinTime(0, 20))
        /\ p[7] = T!Once /\ p[8] = T!Set(T!MinTime(3, 20)) /\ p[9] = T!Once
        /\ p[10] = T!Set(T!MinTime(0, 0)) /\ p[11] = T!Once /\ p[12] = T!Restore
    BY DEF T!Mintime
  <2> HIDE DEF p
  <2>2. WellStaged(p)
    BY <1>1, <2>1, StageKinds, SetFits DEF WellStaged, Changes, Commands, T!MinTime
  <2> QED
    BY <2>2 DEF p
<1> QED
  BY <1>2, <1>3, <1>4, <1>5, <1>6, <1>7, <1>8, <1>9, <1>10, <1>11, <1>12, <1>13, <1>14, <1>15,
     <1>16, <1>17, <1>18, <1>19, <1>20, <1>21 DEF T!Programs

LEMMA ModesInitially == T!ModesInit => ModesInv
<1> SUFFICES ASSUME T!ModesInit PROVE ModesInv
  OBVIOUS
<1> USE SignalAssumption
<1>1. /\ term = T!Normal /\ before = T!Normal /\ local = T!Normal /\ oldterm = T!Normal
      /\ stages \in T!Programs /\ at = 1 /\ cmd = "none" /\ runs = 1
      /\ queue = <<>> /\ by = "none" /\ stopped = FALSE
  BY DEF T!ModesInit
<1>2. T!Normal \in Settings
  BY DEF T!Normal, Settings, T!Keys
<1>3. Len(stages) \in Nat \ {0}
  BY <1>1, Staged DEF WellStaged
<1>4. queue \in Seq(Typed) /\ Len(queue) <= MaxKeys /\ DOMAIN queue = {}
  BY <1>1, EmptySeq
<1>5. ModesTypes
  <2>1. at \in 1..(Len(stages) + 1) /\ runs \in 1..MaxRuns
    BY <1>1, <1>3
  <2>2. stopped \in BOOLEAN
    BY <1>1
  <2> QED
    BY <1>1, <1>2, <1>4, <2>1, <2>2 DEF ModesTypes
<1>6. ModesSettings
  BY <1>1, <1>3, <1>4 DEF ModesSettings, HasGot, T!FreshInput
<1> QED
  BY <1>5, <1>6 DEF ModesInv

\* What the stage that a program is at says, before and after it.
LEMMA ModesAt ==
  ASSUME ModesInv
  PROVE  /\ WellStaged(stages) /\ Len(stages) \in Nat \ {0} /\ at \in Nat /\ at > 0
         /\ at <= Len(stages) + 1
         /\ at <= Len(stages) /\ stages[at].do \in {"set", "restore", "again"} =>
              \E i \in 1..(at - 1) : stages[i].do = "get"
         /\ at <= Len(stages) /\ stages[at].do = "get" =>
              \A i \in 1..(at - 1) : stages[i].do # "set"
<1>1. WellStaged(stages) /\ at \in 1..(Len(stages) + 1)
  BY Staged DEF ModesInv, ModesTypes
<1>2. Len(stages) \in Nat \ {0}
  BY <1>1 DEF WellStaged
<1>3. PICK g \in 1..Len(stages) :
        /\ \A i \in 1..Len(stages) : stages[i].do = "get" <=> i = g
        /\ \A i \in 1..g : stages[i].do \notin {"again", "set", "restore"}
  BY <1>1 DEF WellStaged
<1>4. ASSUME at <= Len(stages), stages[at].do \in {"set", "restore", "again"}
      PROVE  \E i \in 1..(at - 1) : stages[i].do = "get"
  <2>1. g \in 1..(at - 1) /\ stages[g].do = "get"
    BY <1>1, <1>2, <1>3, <1>4
  <2> QED
    BY <2>1
<1>5. ASSUME at <= Len(stages), stages[at].do = "get", NEW i \in 1..(at - 1)
      PROVE  stages[i].do # "set"
  BY <1>1, <1>2, <1>3, <1>5
<1> QED
  BY <1>1, <1>2, <1>4, <1>5

\* A program goes on to its next stage; what it reads, or a signal flushes, is gone.
LEMMA ModesPast ==
  ASSUME ModesInv, by = "none", at <= Len(stages), stages[at].do \notin {"get", "set", "restore"},
         stages[at].do = "again" => local' = term, stages[at].do # "again" => local' = local,
         at' = at + 1, cmd' = "none", UNCHANGED <<oldterm, by, stopped, before, stages, term, runs>>,
         queue' \in Seq(Typed), Len(queue') <= MaxKeys,
         \A i \in DOMAIN queue' : \E j \in DOMAIN queue : queue'[i] = queue[j]
  PROVE  ModesInv'
<1>0. /\ ModesTypes /\ ModesSettings /\ at \in Nat /\ at > 0 /\ Len(stages) \in Nat \ {0}
      /\ (stages[at].do = "again" => \E i \in 1..(at - 1) : stages[i].do = "get")
  BY ModesAt DEF ModesInv
<1>1. \A i \in 1..(at' - 1) : i \in 1..(at - 1) \/ i = at
  BY <1>0
<1>2. \A i \in 1..(at - 1) : i \in 1..(at' - 1)
  BY <1>0
<1>3. \A i \in DOMAIN queue : queue[i].at \in Nat
  <2>1. queue \in Seq(Typed)
    BY <1>0 DEF ModesTypes
  <2>2. \A i \in DOMAIN queue : queue[i] \in Typed
    BY <2>1
  <2> QED
    BY <2>2 DEF Typed
<1>4. ModesTypes'
  <2>1. \A i \in DOMAIN queue' : queue'[i].at <= at'
    BY <1>0, <1>3 DEF ModesTypes
  <2>2. at' \in 1..(Len(stages') + 1)
    BY <1>0
  <2> QED
    BY <1>0, <2>1, <2>2 DEF ModesTypes
<1>5. \A f : SetBefore(f) => SetBefore(f)'
  BY <1>2 DEF SetBefore, Changes
<1>6. \A f \in Fields : term'[f] # before'[f] => SetBefore(f)'
  BY <1>0, <1>5 DEF ModesSettings
<1>7. HasGot' => HasGot
  BY <1>0, <1>1 DEF HasGot
<1>8. HasGot' => oldterm' = before' /\ \A f \in Fields : local'[f] # before'[f] => SetBefore(f)'
  BY <1>0, <1>5, <1>6, <1>7 DEF ModesSettings
<1>9. ~(at' = Len(stages') + 1 /\ stages'[Len(stages')].do = "restore")
  <2>1. SUFFICES ASSUME at' = Len(stages) + 1 PROVE stages[Len(stages)].do # "restore"
    OBVIOUS
  <2>2. at = Len(stages)
    BY <1>0, <2>1
  <2> QED
    BY <2>2
<1>10. T!FreshInput'
  <2>1. SUFFICES ASSUME NEW i \in DOMAIN queue', NEW s \in 1..(at' - 1),
                        stages[s].do \in {"set", "restore"}
                 PROVE  queue'[i].at > s
    BY DEF T!FreshInput
  <2>2. s \in 1..(at - 1)
    BY <1>1, <2>1
  <2>3. PICK j \in DOMAIN queue : queue'[i] = queue[j]
    OBVIOUS
  <2> QED
    BY <1>0, <2>1, <2>2, <2>3 DEF ModesSettings, T!FreshInput
<1>11. ModesSettings'
  BY <1>6, <1>8, <1>9, <1>10 DEF ModesSettings
<1> QED
  BY <1>4, <1>11 DEF ModesInv

\* A program stays at its stage, and something may be typed.
LEMMA ModesStay ==
  ASSUME ModesInv, by = "none", UNCHANGED <<oldterm, by, before, stages, at, term, local, runs>>,
         stopped' \in BOOLEAN, cmd' \in Commands \cup {"none"},
         cmd' # "none" => at <= Len(stages) /\ stages[at] = T!Command(cmd'),
         queue' \in Seq(Typed), Len(queue') <= MaxKeys,
         \A i \in DOMAIN queue' : queue'[i].at = at \/ \E j \in DOMAIN queue : queue'[i] = queue[j]
  PROVE  ModesInv'
<1>0. ModesTypes /\ ModesSettings /\ at \in Nat
  BY ModesAt DEF ModesInv
<1>1. \A i \in DOMAIN queue' : queue'[i].at <= at'
  BY <1>0 DEF ModesTypes
<1>2. ModesTypes'
  BY <1>0, <1>1 DEF ModesTypes
<1>3. T!FreshInput'
  <2>1. SUFFICES ASSUME NEW i \in DOMAIN queue', NEW s \in 1..(at - 1),
                        stages[s].do \in {"set", "restore"}
                 PROVE  queue'[i].at > s
    BY DEF T!FreshInput
  <2> QED
    BY <1>0, <2>1 DEF ModesSettings, T!FreshInput
<1>4. /\ (HasGot' <=> HasGot) /\ \A f : SetBefore(f)' <=> SetBefore(f)
  BY DEF HasGot, SetBefore, Changes
<1>5. ModesSettings'
  BY <1>0, <1>3, <1>4 DEF ModesSettings
<1> QED
  BY <1>2, <1>5 DEF ModesInv

\* The process is over; what it has left is in the terminal.
LEMMA ModesOver ==
  ASSUME ModesInv, NEW what \in {"exit0", "exit1", "SIGINT", "SIGQUIT", "SIGTERM"}, T!Over(what),
         what = "exit0" => at = Len(stages) + 1, cmd' = "none", stopped' \in BOOLEAN
  PROVE  ModesInv'
<1>0. ModesTypes /\ ModesSettings
  BY DEF ModesInv
<1>1. /\ by' = what /\ queue' = <<>> /\ local' = T!Normal /\ oldterm' = T!Normal
      /\ UNCHANGED <<before, stages, at, term, runs>>
  BY DEF T!Over
<1>2. T!Normal \in Settings
  BY DEF T!Normal, Settings, T!Keys
<1>3. queue' \in Seq(Typed) /\ Len(queue') <= MaxKeys /\ DOMAIN queue' = {}
  BY <1>1, EmptySeq, SignalAssumption
<1>4. ModesTypes'
  BY <1>0, <1>1, <1>2, <1>3 DEF ModesTypes
<1>5. ~HasGot' /\ \A f : SetBefore(f)' <=> SetBefore(f)
  BY <1>1 DEF HasGot, SetBefore, Changes
<1>6. ModesSettings'
  BY <1>0, <1>1, <1>3, <1>5 DEF ModesSettings, T!FreshInput
<1> QED
  BY <1>4, <1>6 DEF ModesInv

\* What SubSeq leaves of a sequence whose first elements are taken.
LEMMA RestOfSeq ==
  ASSUME NEW kinds, NEW keys \in Seq(kinds), NEW taken \in 0..Len(keys)
  PROVE  /\ SubSeq(keys, taken + 1, Len(keys)) \in Seq(kinds)
         /\ Len(SubSeq(keys, taken + 1, Len(keys))) = Len(keys) - taken
         /\ \A j \in 1..(Len(keys) - taken) :
              SubSeq(keys, taken + 1, Len(keys))[j] = keys[taken + j]
<1> DEFINE last == Len(keys)
           start == taken + 1
<1>1. last \in Nat /\ DOMAIN keys = 1..last
  BY LenProperties
<1>2. taken \in Nat /\ taken <= last
  BY <1>1
<1>3. start \in Int /\ last \in Int
  BY <1>1, <1>2
<1>4. \A k \in 1..last : keys[k] \in kinds
  BY <1>1
<1>5. start..last \subseteq 1..last
  BY ONLY <1>1, <1>2
<1>6. \A k \in start..last : keys[k] \in kinds
  BY ONLY <1>4, <1>5
<1>7. /\ SubSeq(keys, start, last) \in Seq(kinds)
      /\ Len(SubSeq(keys, start, last)) = IF start <= last THEN last - start + 1 ELSE 0
      /\ \A j \in 1..last - start + 1 : SubSeq(keys, start, last)[j] = keys[start + j - 1]
  <2> HIDE DEF last, start
  <2> QED
    BY ONLY <1>3, <1>6, SubSeqProperties
<1>8. last - start + 1 = last - taken /\ (~(start <= last) => last - taken = 0)
  <2>1. \A k, m \in Nat : k <= m => m - (k + 1) + 1 = m - k /\ (~(k + 1 <= m) => m - k = 0)
    OBVIOUS
  <2> HIDE DEF last
  <2> QED
    BY ONLY <1>1, <1>2, <2>1
<1>9. Len(SubSeq(keys, start, last)) = last - taken
  <2> HIDE DEF last, start
  <2> QED
    BY ONLY <1>7, <1>8
<1>10. \A j \in 1..(last - taken) : start + j - 1 = taken + j
  BY ONLY <1>1, <1>2
<1>11. \A j \in 1..(last - taken) : SubSeq(keys, start, last)[j] = keys[taken + j]
  <2> HIDE DEF last, start
  <2> QED
    BY ONLY <1>7, <1>8, <1>10
<1> QED
  BY ONLY <1>7, <1>9, <1>11

\* A read() leaves the end of the queue.
LEMMA ModesRest ==
  ASSUME ModesInv, NEW i \in T!Taken, queue' = SubSeq(queue, i + 1, Len(queue))
  PROVE  /\ queue' \in Seq(Typed) /\ Len(queue') <= MaxKeys
         /\ \A j \in DOMAIN queue' : \E k \in DOMAIN queue : queue'[j] = queue[k]
<1>1. queue \in Seq(Typed) /\ Len(queue) \in Nat /\ DOMAIN queue = 1..Len(queue) /\ Len(queue) <= MaxKeys
  BY LenProperties DEF ModesInv, ModesTypes
<1>2. i \in 0..Len(queue)
  BY DEF T!Taken
<1>4. /\ queue' \in Seq(Typed) /\ Len(queue') = Len(queue) - i
      /\ \A j \in 1..(Len(queue) - i) : queue'[j] = queue[i + j]
  BY <1>1, <1>2, RestOfSeq
<1>5. DOMAIN queue' = 1..(Len(queue) - i)
  BY <1>4, LenProperties
<1>6. ASSUME NEW j \in DOMAIN queue' PROVE \E k \in DOMAIN queue : queue'[j] = queue[k]
  <2>1. j \in 1..(Len(queue) - i)
    BY <1>5
  <2>2. i + j \in 1..Len(queue)
    BY <1>1, <1>2, <2>1
  <2>3. queue'[j] = queue[i + j] /\ i + j \in DOMAIN queue
    BY <1>1, <1>4, <2>1, <2>2
  <2> QED
    BY <2>3
<1>7. Len(queue') <= MaxKeys
  <2>1. Len(queue) \in Nat /\ Len(queue) <= MaxKeys
    BY <1>1
  <2>2. i \in Nat
    BY <1>2, <2>1
  <2>3. Len(queue') = Len(queue) - i
    BY <1>4
  <2>4. \A l, m, r \in Nat : l <= r => l - m <= r
    OBVIOUS
  <2> QED
    BY <2>1, <2>2, <2>3, <2>4, SignalAssumption, Zenon
<1> QED
  BY <1>4, <1>6, <1>7

\* While main() waits in system(), it is at that stage.
LEMMA ModesCommand ==
  ASSUME ModesInv, cmd # "none"
  PROVE  /\ by = "none" /\ at <= Len(stages) /\ stages[at] = T!Command(cmd)
         /\ stages[at].do = "system" /\ stages[at].cmd = cmd
BY StageKinds DEF ModesInv, ModesTypes

LEMMA ModesStep == ModesInv /\ T!ModesNext => ModesInv'
<1> SUFFICES ASSUME ModesInv, T!ModesNext PROVE ModesInv'
  OBVIOUS
<1> USE SignalAssumption
<1>0. /\ ModesTypes /\ ModesSettings /\ WellStaged(stages) /\ at \in Nat /\ at > 0
      /\ Len(stages) \in Nat \ {0} /\ at <= Len(stages) + 1
  BY ModesAt DEF ModesInv
<1>a. /\ queue \in Seq(Typed) /\ Len(queue) <= MaxKeys /\ cmd \in Commands \cup {"none"}
      /\ stopped \in BOOLEAN /\ (cmd # "none" => at <= Len(stages) /\ stages[at] = T!Command(cmd))
      /\ \A j \in DOMAIN queue : \E k \in DOMAIN queue : queue[j] = queue[k]
  BY <1>0 DEF ModesTypes
<1>b. <<>> \in Seq(Typed) /\ Len(<<>>) <= MaxKeys /\ DOMAIN <<>> = {}
  BY EmptySeq
<1>c. ASSUME NEW do, T!On(do)
      PROVE  /\ by = "none" /\ ~stopped /\ at <= Len(stages) /\ stages[at].do = do
             /\ (do # "system" => cmd = "none")
  BY <1>c, ModesCommand DEF T!On, T!Up, T!Here
<1>1. CASE T!Tests
  <2>1. UNCHANGED <<oldterm, queue, by, stopped, before, stages, term, local, cmd, runs>> /\ at' = at + 1
        /\ T!On("isatty")
    BY <1>1 DEF T!Tests, T!Past
  <2> QED
    BY <1>a, <1>c, <2>1, ModesPast
<1>2. CASE T!Gets
  <2>1. /\ UNCHANGED <<queue, by, stopped, before, stages, term, cmd, runs>> /\ at' = at + 1
        /\ local' = term /\ oldterm' = (IF stages[at].do = "get" THEN term ELSE oldterm)
        /\ T!On("get") \/ T!On("again")
    BY <1>2 DEF T!Gets, T!Past, T!Here
  <2>2. CASE T!On("again")
    <3>1. oldterm' = oldterm /\ stages[at].do = "again" /\ by = "none" /\ at <= Len(stages) /\ cmd = "none"
      BY <1>c, <2>1, <2>2
    <3> QED
      BY <1>a, <2>1, <3>1, ModesPast
  <2>3. CASE T!On("get")
    <3>1. oldterm' = term /\ stages[at].do = "get" /\ by = "none" /\ at <= Len(stages) /\ cmd = "none"
      BY <1>c, <2>1, <2>3
    <3>2. \A i \in 1..(at - 1) : stages[i].do # "set"
      BY <3>1, ModesAt
    <3>3. \A f : ~SetBefore(f)
      BY <3>2 DEF SetBefore, Changes
    <3>4. term = before
      <4>1. \A f \in Fields : term[f] = before[f]
        BY <1>0, <3>3 DEF ModesSettings
      <4>2. term \in Settings /\ before \in Settings
        BY <1>0 DEF ModesTypes
      <4> QED
        BY <4>1, <4>2, SameSettings
    <3>5. \A i \in DOMAIN queue : queue[i].at \in Nat
      <4>1. \A i \in DOMAIN queue : queue[i] \in Typed
        BY <1>a
      <4> QED
        BY <4>1 DEF Typed
    <3>6. ModesTypes'
      <4>1. \A i \in DOMAIN queue : queue[i].at <= at'
        BY <1>0, <2>1, <3>5 DEF ModesTypes
      <4>2. at' \in 1..(Len(stages) + 1)
        BY <1>0, <2>1, <3>1
      <4> QED
        BY <1>0, <2>1, <3>1, <4>1, <4>2 DEF ModesTypes
    <3>7. T!FreshInput'
      <4>1. \A s \in 1..(at' - 1) : s \in 1..(at - 1) \/ s = at
        BY <1>0, <2>1
      <4> QED
        BY <1>0, <2>1, <3>1, <4>1 DEF ModesSettings, T!FreshInput
    <3>8. ModesSettings'
      <4>1. \A f \in Fields : term'[f] = before'[f] /\ local'[f] = before'[f]
        BY <2>1, <3>4
      <4> QED
        BY <2>1, <3>1, <3>4, <3>7, <4>1 DEF ModesSettings
    <3> QED
      BY <3>6, <3>8 DEF ModesInv
  <2> QED
    BY <2>1, <2>2, <2>3
<1>d. ASSUME by = "none", at <= Len(stages), stages[at].do \in {"set", "restore"},
             UNCHANGED <<oldterm, by, stopped, before, stages, cmd, runs>>, at' = at + 1, queue' = <<>>,
             cmd = "none", local' \in Settings, term' \in Settings
      PROVE  ModesTypes' /\ T!FreshInput' /\ HasGot /\ (\A f : SetBefore(f) => SetBefore(f)')
  <2>1. queue' \in Seq(Typed) /\ Len(queue') <= MaxKeys /\ DOMAIN queue' = {}
    BY <1>b, <1>d
  <2>2. at' \in 1..(Len(stages) + 1)
    BY <1>0, <1>d
  <2>3. ModesTypes'
    BY <1>0, <1>d, <2>1, <2>2 DEF ModesTypes
  <2>4. T!FreshInput'
    BY <2>1 DEF T!FreshInput
  <2>5. HasGot
    BY <1>d, ModesAt DEF HasGot
  <2>6. \A i \in 1..(at - 1) : i \in 1..(at' - 1)
    BY <1>0, <1>d
  <2>7. \A f : SetBefore(f) => SetBefore(f)'
    BY <1>d, <2>6 DEF SetBefore, Changes
  <2> QED
    BY <2>3, <2>4, <2>5, <2>7
<1>3. CASE T!Sets
  <2>1. /\ UNCHANGED <<oldterm, by, stopped, before, stages, cmd, runs>> /\ at' = at + 1 /\ T!On("set")
        /\ local' = T!Changed(local, stages[at].change) /\ term' = local' /\ queue' = <<>>
    BY <1>3 DEF T!Sets, T!Past, T!Here
  <2>2. by = "none" /\ at <= Len(stages) /\ stages[at].do = "set" /\ cmd = "none"
    BY <1>c, <2>1
  <2>3. at \in 1..Len(stages) /\ at \in 1..(at' - 1)
    BY <1>0, <2>1, <2>2
  <2>4. local \in Settings /\ local' \in Settings
    <3>1. local \in Settings
      BY <1>0 DEF ModesTypes
    <3>2. Fits(stages[at].change)
      BY <1>0, <2>2, <2>3 DEF WellStaged
    <3> QED
      BY <2>1, <3>1, <3>2 DEF Fits
  <2>5. ModesTypes' /\ T!FreshInput' /\ HasGot /\ (\A f : SetBefore(f) => SetBefore(f)')
    BY <1>d, <2>1, <2>2, <2>4
  <2>6. ASSUME NEW f \in Fields, local'[f] # before[f] PROVE SetBefore(f)'
    <3>1. CASE f \in DOMAIN stages[at].change
      BY <2>1, <2>2, <2>3, <3>1 DEF SetBefore, Changes
    <3>2. CASE f \notin DOMAIN stages[at].change
      <4>1. DOMAIN local = Fields
        BY <2>4, SettingsFields
      <4>2. local'[f] = local[f]
        BY <2>1, <3>2, <4>1 DEF T!Changed
      <4>3. SetBefore(f)
        BY <1>0, <2>5, <2>6, <4>2 DEF ModesSettings
      <4> QED
        BY <2>5, <4>3
    <3> QED
      BY <3>1, <3>2
  <2>7. oldterm = before
    BY <1>0, <2>5 DEF ModesSettings
  <2>8. ~(at' = Len(stages) + 1 /\ stages[Len(stages)].do = "restore")
    BY <1>0, <2>1, <2>2
  <2>9. ModesSettings'
    BY <2>1, <2>5, <2>6, <2>7, <2>8 DEF ModesSettings
  <2> QED
    BY <2>5, <2>9 DEF ModesInv
<1>4. CASE T!Restores
  <2>1. /\ UNCHANGED <<oldterm, by, stopped, before, stages, local, cmd, runs>> /\ at' = at + 1
        /\ T!On("restore") /\ term' = oldterm /\ queue' = <<>>
    BY <1>4 DEF T!Restores, T!Past
  <2>2. by = "none" /\ at <= Len(stages) /\ stages[at].do = "restore" /\ cmd = "none"
    BY <1>c, <2>1
  <2>3. local \in Settings /\ oldterm \in Settings
    BY <1>0 DEF ModesTypes
  <2>4. ModesTypes' /\ T!FreshInput' /\ HasGot /\ (\A f : SetBefore(f) => SetBefore(f)')
    BY <1>d, <2>1, <2>2, <2>3
  <2>5. term' = before /\ oldterm = before /\ \A f \in Fields : local[f] # before[f] => SetBefore(f)
    BY <1>0, <2>1, <2>4 DEF ModesSettings
  <2>6. ModesSettings'
    BY <2>1, <2>4, <2>5 DEF ModesSettings
  <2> QED
    BY <2>4, <2>6 DEF ModesInv
<1>5. CASE T!Runs
  <2>1. /\ UNCHANGED <<oldterm, queue, by, stopped, before, stages, term, local, runs>>
        /\ T!On("system") /\ cmd = "none"
        /\ \/ cmd' = stages[at].cmd /\ at' = at
           \/ at' = at + 1 /\ cmd' = cmd
    BY <1>5 DEF T!Runs, T!Past, T!Here
  <2>2. by = "none" /\ at <= Len(stages) /\ stages[at].do = "system"
    BY <1>c, <2>1
  <2>3. at \in 1..Len(stages)
    BY <1>0, <2>2
  <2>4. stages[at].cmd \in Commands /\ stages[at] = T!Command(stages[at].cmd)
    BY <1>0, <2>2, <2>3 DEF WellStaged
  <2>5. CASE cmd' = stages[at].cmd /\ at' = at
    BY <1>a, <2>1, <2>2, <2>4, <2>5, ModesStay
  <2>6. CASE at' = at + 1 /\ cmd' = cmd
    BY <1>a, <2>1, <2>2, <2>6, ModesPast
  <2> QED
    BY <2>1, <2>5, <2>6
<1>6. ASSUME NEW done \in BOOLEAN, T!ReadBy(done), by = "none", at <= Len(stages),
             stages[at].do \notin {"get", "set", "restore", "again"},
             done => cmd' = "none", ~done => cmd' = cmd
      PROVE  ModesInv'
  <2>1. PICK i \in T!Taken : queue' = SubSeq(queue, i + 1, Len(queue))
    BY <1>6 DEF T!ReadBy
  <2>2. /\ queue' \in Seq(Typed) /\ Len(queue') <= MaxKeys
        /\ \A j \in DOMAIN queue' : \E k \in DOMAIN queue : queue'[j] = queue[k]
    BY <2>1, ModesRest
  <2>3. UNCHANGED <<oldterm, by, stopped, before, stages, term, local, runs>>
    BY <1>6 DEF T!ReadBy, T!Past
  <2>4. CASE done
    <3>1. at' = at + 1
      BY <1>6, <2>4 DEF T!ReadBy, T!Past
    <3> QED
      BY <1>6, <2>2, <2>3, <2>4, <3>1, ModesPast
  <2>5. CASE ~done
    <3>1. at' = at
      BY <1>6, <2>5 DEF T!ReadBy
    <3> QED
      BY <1>6, <1>a, <2>2, <2>3, <2>5, <3>1, ModesStay
  <2> QED
    BY <2>4, <2>5
<1>e. T!EofRead \in BOOLEAN
  BY DEF T!EofRead
<1>7. CASE T!Reads
  <2>1. by = "none" /\ at <= Len(stages) /\ stages[at].do \in {"read", "getchar"} /\ cmd = "none"
    BY <1>7, <1>c DEF T!Reads
  <2> QED
    BY <1>6, <1>7, <1>e, <2>1 DEF T!Reads
<1>8. CASE T!ReadOnce
  <2>1. by = "none" /\ at <= Len(stages) /\ stages[at].do = "once" /\ cmd = "none"
    BY <1>8, <1>c DEF T!ReadOnce
  <2> QED
    BY <1>6, <1>8, <2>1 DEF T!ReadOnce
<1>9. CASE T!Cat
  <2>1. by = "none" /\ at <= Len(stages) /\ stages[at].do = "system" /\ cmd = "cat"
    BY <1>9, ModesCommand DEF T!Cat
  <2>2. T!ReadBy(T!EofRead) /\ cmd' = (IF T!EofRead THEN "none" ELSE cmd)
    BY <1>9 DEF T!Cat
  <2> QED
    BY <1>6, <1>e, <2>1, <2>2
<1>10. CASE T!StickyEof
  <2>1. /\ UNCHANGED <<oldterm, queue, by, stopped, before, stages, term, local, cmd, runs>>
        /\ at' = at + 1 /\ T!On("getchar")
    BY <1>10 DEF T!StickyEof, T!Past
  <2> QED
    BY <1>a, <1>c, <2>1, ModesPast
<1>11. ASSUME NEW c, c # "none", T!Finishes(c) PROVE ModesInv'
  <2>1. /\ UNCHANGED <<oldterm, queue, by, stopped, before, stages, term, local, runs>>
        /\ at' = at + 1 /\ cmd = c /\ cmd' = "none"
    BY <1>11 DEF T!Finishes, T!Past
  <2>2. by = "none" /\ at <= Len(stages) /\ stages[at].do = "system"
    BY <1>11, <2>1, ModesCommand
  <2> QED
    BY <1>a, <2>1, <2>2, ModesPast
<1>12. CASE T!Returns
  <2>1. T!Over("exit0") /\ at = Len(stages) + 1 /\ cmd = "none" /\ cmd' = cmd /\ stopped' = stopped
    BY <1>0, <1>12, <1>a DEF T!Returns
  <2> QED
    BY <1>a, <2>1, ModesOver
<1>13. CASE T!Fails
  <2>1. PICK do \in {"isatty", "get", "again", "set", "restore", "read", "once"} : T!On(do)
    BY <1>13 DEF T!Fails
  <2>2. T!Over("exit1") /\ cmd = "none" /\ cmd' = cmd /\ stopped' = stopped
    BY <1>13, <1>c, <2>1 DEF T!Fails
  <2> QED
    BY <1>a, <2>2, ModesOver
<1>14. CASE T!Continue
  <2>1. /\ by = "none" /\ stopped' = FALSE
        /\ UNCHANGED <<oldterm, queue, by, before, stages, at, term, local, cmd, runs>>
    BY <1>14 DEF T!Continue
  <2>2. stopped' \in BOOLEAN
    BY <2>1
  <2> QED
    BY <1>a, <2>1, <2>2, ModesStay
<1>15. CASE T!Kill
  <2>1. T!Over("SIGTERM") /\ cmd' = "none" /\ stopped' = FALSE
    BY <1>15 DEF T!Kill
  <2>2. stopped' \in BOOLEAN
    BY <2>1
  <2> QED
    BY <2>1, <2>2, ModesOver
<1>16. CASE T!RunNext
  <2>1. /\ by # "none" /\ runs < MaxRuns /\ runs' = runs + 1 /\ before' = term' /\ term' \in {term, before}
        /\ stages' \in T!Later /\ at' = 1 /\ by' = "none"
        /\ UNCHANGED <<oldterm, queue, stopped, local, cmd>>
    BY <1>16 DEF T!RunNext
  <2>2. stages' \in T!Programs
    BY <2>1 DEF T!Later, T!Programs
  <2>3. Len(stages') \in Nat \ {0}
    BY <2>2, Staged DEF WellStaged
  <2>4. queue = <<>> /\ cmd = "none" /\ DOMAIN queue = {}
    BY <1>0, <2>1 DEF ModesTypes
  <2>5. ModesTypes'
    <3>1. at' \in 1..(Len(stages') + 1) /\ runs' \in 1..MaxRuns
      BY <1>0, <2>1, <2>3 DEF ModesTypes
    <3> QED
      BY <1>0, <2>1, <2>2, <2>4, <3>1 DEF ModesTypes
  <2>6. ModesSettings'
    BY <2>1, <2>3, <2>4 DEF ModesSettings, HasGot, T!FreshInput
  <2> QED
    BY <2>5, <2>6 DEF ModesInv
<1>17. ASSUME NEW sig \in {"SIGINT", "SIGQUIT"}, T!Interrupt(sig), by = "none" PROVE ModesInv'
  <2>1. CASE cmd = "none"
    <3>1. T!Over(sig) /\ stopped' = stopped /\ cmd' = cmd
      BY <1>17, <2>1 DEF T!Interrupt
    <3> QED
      BY <1>a, <2>1, <3>1, ModesOver
  <2>2. CASE cmd # "none"
    <3>1. /\ queue' = <<>> /\ cmd' = "none" /\ at' = at + 1
          /\ UNCHANGED <<oldterm, by, stopped, before, stages, term, local, runs>>
      BY <1>17, <2>2 DEF T!Interrupt, T!Past
    <3>2. at <= Len(stages) /\ stages[at].do = "system"
      BY <2>2, ModesCommand
    <3> QED
      BY <1>17, <1>b, <3>1, <3>2, ModesPast
  <2> QED
    BY <2>1, <2>2
<1>18. ASSUME T!Suspend, by = "none" PROVE ModesInv'
  <2>1. /\ stopped' = TRUE /\ queue' = <<>>
        /\ UNCHANGED <<oldterm, by, before, stages, at, term, local, cmd, runs>>
    BY <1>18 DEF T!Suspend
  <2>2. stopped' \in BOOLEAN
    BY <2>1
  <2> QED
    BY <1>18, <1>a, <1>b, <2>1, <2>2, ModesStay
<1>19. ASSUME NEW k, T!Queued(k), by = "none", Len(queue) < MaxKeys PROVE ModesInv'
  <2> DEFINE typed1 == [at |-> at, is |-> IF term.icanon /\ k = term.eof THEN "eof"
                                          ELSE IF k = "newline" THEN k ELSE "char"]
  <2>1. /\ queue' = Append(queue, typed1)
        /\ UNCHANGED <<oldterm, by, stopped, before, stages, at, term, local, cmd, runs>>
    BY <1>19 DEF T!Queued
  <2>2. typed1 \in Typed /\ typed1.at = at
    BY <1>0 DEF Typed
  <2> HIDE DEF typed1
  <2>3. /\ queue' \in Seq(Typed) /\ Len(queue') = Len(queue) + 1 /\ Len(queue) \in Nat
        /\ queue'[Len(queue) + 1] = typed1 /\ \A j \in 1..Len(queue) : queue'[j] = queue[j]
    BY <1>a, <2>1, <2>2, AppendProperties, LenProperties
  <2>4. DOMAIN queue' = 1..(Len(queue) + 1) /\ DOMAIN queue = 1..Len(queue)
    BY <1>a, <2>3, LenProperties
  <2>5. \A j \in DOMAIN queue' : queue'[j].at = at \/ \E i \in DOMAIN queue : queue'[j] = queue[i]
    <3>1. ASSUME NEW j \in DOMAIN queue' PROVE j \in DOMAIN queue \/ j = Len(queue) + 1
      BY <2>3, <2>4
    <3> QED
      BY <2>2, <2>3, <2>4, <3>1
  <2>6. Len(queue') <= MaxKeys
    BY <1>19, <2>3
  <2> QED
    BY <1>19, <1>a, <2>1, <2>3, <2>5, <2>6, ModesStay
<1>20. ASSUME NEW k \in T!Keys, T!Press(k) PROVE ModesInv'
  <2>1. by = "none" /\ Len(queue) < MaxKeys
    BY <1>20 DEF T!Press, T!Up
  <2>2. T!Interrupt("SIGINT") \/ T!Interrupt("SIGQUIT") \/ T!Suspend \/ T!Queued(k)
    BY <1>20 DEF T!Press
  <2> QED
    BY <1>17, <1>18, <1>19, <2>1, <2>2
<1>21. ASSUME T!ModesMain PROVE ModesInv'
  BY <1>1, <1>2, <1>3, <1>4, <1>5, <1>7, <1>8, <1>9, <1>10, <1>11, <1>12, <1>13, <1>21 DEF T!ModesMain
<1> QED
  BY <1>11, <1>14, <1>15, <1>16, <1>20, <1>21 DEF T!ModesNext

LEMMA ModesListed ==
  ModesInv => T!ModesTypeOK /\ T!SettingsBack /\ T!FreshInput /\ T!NotLockedIn
<1> SUFFICES ASSUME ModesInv
             PROVE  T!ModesTypeOK /\ T!SettingsBack /\ T!FreshInput /\ T!NotLockedIn
  OBVIOUS
<1>0. /\ ModesTypes /\ ModesSettings /\ WellStaged(stages) /\ at \in Nat /\ at > 0
      /\ Len(stages) \in Nat \ {0} /\ at <= Len(stages) + 1
  BY ModesAt DEF ModesInv
<1>1. T!ModesTypeOK
  <2>1. ASSUME NEW t \in {term, local, oldterm, before}
        PROVE  /\ DOMAIN t = DOMAIN T!Normal /\ t.icanon \in BOOLEAN /\ t.isig \in BOOLEAN
               /\ t.eof \in T!Keys /\ t.intr \in T!Keys \cup {"none"}
    <3>1. t \in Settings
      BY <1>0 DEF ModesTypes
    <3>2. DOMAIN T!Normal = Fields
      BY DEF T!Normal, Fields
    <3> QED
      BY <3>1, <3>2, SettingsFields DEF Settings
  <2>2. ASSUME NEW i \in DOMAIN queue
        PROVE  queue[i].is \in {"char", "newline", "eof"} /\ queue[i].at <= at
    <3>1. queue \in Seq(Typed) /\ queue[i].at <= at
      BY <1>0 DEF ModesTypes
    <3>2. queue[i] \in Typed
      BY <3>1
    <3> QED
      BY <3>1, <3>2 DEF Typed
  <2> QED
    BY <1>0, <2>1, <2>2 DEF ModesTypes, T!ModesTypeOK, T!Here, Commands
<1>2. T!SettingsBack
  <2>1. ASSUME by = "exit0", stages[Len(stages)] = T!Restore PROVE term = before
    <3>1. stages[Len(stages)].do = "restore" /\ at = Len(stages) + 1
      BY <1>0, <2>1, StageKinds DEF ModesTypes
    <3> QED
      BY <1>0, <3>1 DEF ModesSettings
  <2>2. DOMAIN term = Fields
    BY <1>0, SettingsFields DEF ModesTypes
  <2>3. ASSUME NEW f \in DOMAIN term, term[f] # before[f]
        PROVE  \E i \in 1..at - 1 : stages[i].do = "set" /\ f \in DOMAIN stages[i].change
    BY <1>0, <2>2, <2>3 DEF ModesSettings, SetBefore, Changes
  <2> QED
    BY <2>1, <2>3 DEF T!SettingsBack
<1>3. T!NotLockedIn
  <2>1. SUFFICES ASSUME before.isig, before.icanon, T!Up,
                        \/ cmd \in {"cat", "yes"} \/ T!On("read") \/ T!On("getchar") \/ T!On("once")
                 PROVE  \E k \in T!Keys : T!CanEnd(k)
    BY DEF T!NotLockedIn
  <2>2. term \in Settings /\ before \in Settings
    BY <1>0 DEF ModesTypes
  <2>3. CASE term.isig
    <3>1. term.quit \in T!Keys
      BY <2>2 DEF Settings
    <3> QED
      BY <2>3, <3>1 DEF T!CanEnd
  <2>4. CASE ~term.isig
    <3>1. SetBefore("isig")
      BY <1>0, <2>1, <2>4 DEF ModesSettings, Fields
    <3>2. PICK i \in 1..(at - 1) : Changes(stages, i, "isig")
      BY <3>1 DEF SetBefore
    <3>3. i \in 1..Len(stages)
      BY <1>0
    <3>4. \A j \in 1..Len(stages) : ~Changes(stages, j, "icanon") /\ stages[j] # T!Command("yes")
      BY <1>0, <3>2, <3>3 DEF WellStaged
    <3>5. term.icanon
      <4>1. \A j \in 1..(at - 1) : j \in 1..Len(stages)
        BY <1>0
      <4>2. ~SetBefore("icanon")
        BY <3>4, <4>1 DEF SetBefore
      <4>3. term["icanon"] = before["icanon"]
        BY <1>0, <4>2 DEF ModesSettings, Fields
      <4> QED
        BY <2>1, <4>3
    <3>6. cmd # "yes"
      <4>1. SUFFICES ASSUME cmd = "yes" PROVE FALSE
        OBVIOUS
      <4>2. at \in 1..Len(stages) /\ stages[at] = T!Command("yes")
        BY <1>0, <4>1, ModesCommand
      <4> QED
        BY <3>4, <4>2
    <3>7. term.eof \in T!Keys
      BY <2>2 DEF Settings
    <3> QED
      BY <3>5, <3>6, <3>7 DEF T!CanEnd
  <2> QED
    BY <2>3, <2>4
<1> QED
  BY <1>0, <1>1, <1>2, <1>3 DEF ModesSettings

------------------------------------------------------------------------------
(* All programs *)

LEMMA Initially == Init => IInv
<1> SUFFICES ASSUME Init PROVE IInv
  OBVIOUS
<1>0. prog \in {"waitsig", "critical", "sleep1", "sleep2", "sigsetjmp", "alarm", "alarmread",
                "sigaction", "reentrant", "sigpend", "usekill", "orphan", "getpass", "modes"}
  BY DEF Init
<1>1. ASSUME prog = "waitsig" PROVE WaitInv
  BY <1>1, WaitInitially DEF Init
<1>2. ASSUME prog = "critical" PROVE RegionInv
  BY <1>2, RegionInitially DEF Init
<1>3. ASSUME prog \in {"sleep1", "sleep2"} PROVE SleepInv
  BY <1>3, SleepInitially DEF Init
<1>4. ASSUME prog = "sigsetjmp" PROVE JumpInv
  BY <1>4, JumpInitially DEF Init
<1>5. ASSUME prog \in {"alarm", "alarmread", "sigaction"} PROVE AlarmInv
  BY <1>5, AlarmInitially DEF Init
<1>6. ASSUME prog = "reentrant" PROVE PwInv
  BY <1>6, PwInitially DEF Init
<1>7. ASSUME prog = "sigpend" PROVE PendInv
  BY <1>7, PendInitially DEF Init
<1>8. ASSUME prog = "usekill" PROVE KillInv
  BY <1>8, KillInitially DEF Init
<1>9. ASSUME prog = "orphan" PROVE OrphanInv
  BY <1>9, OrphanInitially DEF Init
<1>10. ASSUME prog = "getpass" PROVE PassInv
  BY <1>10, PassInitially DEF Init
<1>11. ASSUME prog = "modes" PROVE ModesInv
  BY <1>11, ModesInitially DEF Init
<1> QED
  BY <1>0, <1>1, <1>2, <1>3, <1>4, <1>5, <1>6, <1>7, <1>8, <1>9, <1>10, <1>11 DEF IInv

\* What the signals say stays the same in a step that changes no variable.
LEMMA SameSignals ==
  ASSUME UNCHANGED <<pend, mask, frames, sent>>
  PROVE  /\ \A sigs : Signalled(sigs)' <=> Signalled(sigs)
         /\ MainMask' = MainMask /\ Running(frames)' = Running(frames)
         /\ \A s : Waits(s)' = Waits(s) /\ Runs(s)' = Runs(s)
BY DEF Signalled, MainMask, Waits, Runs

LEMMA Inductive == IInv /\ [Next]_vars => IInv'
<1> SUFFICES ASSUME IInv, [Next]_vars PROVE IInv'
  OBVIOUS
<1>1. CASE InWait(W!WaitNext)
  BY <1>1, WaitStep DEF IInv, InWait
<1>2. CASE InRegion(C!RegionNext)
  BY <1>2, RegionStep DEF IInv, InRegion
<1>3. CASE InSleep(S!Next)
  BY <1>3, SleepStep DEF IInv, InSleep
<1>4. CASE InJump(J!Next)
  BY <1>4, SigJumpStep DEF IInv, InJump
<1>5. CASE InAlarm(A!Next)
  BY <1>5, AlarmStep DEF IInv, InAlarm
<1>6. CASE InPw(A!PwNext)
  BY <1>6, PwStep DEF IInv, InPw
<1>7. CASE InPend(W!PendNext)
  BY <1>7, PendStep DEF IInv, InPend
<1>8. CASE InKill(K!KillNext)
  BY <1>8, KillStep DEF IInv, InKill
<1>9. CASE InGroup(K!OrphanNext)
  BY <1>9, OrphanStep DEF IInv, InGroup
<1>10. CASE InTerm(T!PassNext)
  BY <1>10, PassMoves DEF IInv, InTerm
<1>11. CASE InModes(T!ModesNext)
  BY <1>11, ModesStep DEF IInv, InModes
<1>12. CASE UNCHANGED vars
  <2>1. UNCHANGED <<prog, pend, mask, frames, sent, pc, caught, woken, timer, handled>>
    BY <1>12 DEF vars, firstVars
  <2>2. UNCHANGED <<quitflag, quits, tested, handler, jmpbuf, rang, early, left, calls,
                    sigenv, env, canjump, canjump2, jumps>>
    BY <1>12 DEF vars, firstVars, waitVars, sleepVars, jumpVars
  <2>3. UNCHANGED <<input, n, holder, result, late, wrong, oldmask, raised, seen,
                    main, kid, usr1, how, missed, answers, recycled, stranger, ignored>>
    BY <1>12 DEF vars, laterVars, alarmVars, pwVars, pendVars, killVars
  <2>4. UNCHANGED <<parent, stopped, catches, hup, fg, osig, echo, oldterm, queue, buf, typed,
                    by, before, stages, at, term, local, cmd, runs>>
    BY <1>12 DEF vars, laterVars, groupVars, termVars, flagVars
  <2>5. /\ \A sigs : Signalled(sigs)' <=> Signalled(sigs)
        /\ MainMask' = MainMask /\ Running(frames)' = Running(frames)
        /\ \A s : Waits(s)' = Waits(s) /\ Runs(s)' = Runs(s)
    BY <2>1, SameSignals
  <2>6. WaitInv => WaitInv'
    BY <2>1, <2>2, <2>5 DEF WaitInv
  <2>7. RegionInv => RegionInv'
    BY <2>1, <2>5 DEF RegionInv
  <2>8. SleepInv => SleepInv'
    BY <2>1, <2>2, <2>5 DEF SleepInv, SleepTypes, SleepTimer, SleepJumps, S!Calls, S!Returned
  <2>9. JumpInv => JumpInv'
    BY <2>1, <2>2, <2>5 DEF JumpInv, JumpPlaces
  <2>10. AlarmInv => AlarmInv'
    BY <2>1, <2>2, <2>3, <2>5 DEF AlarmInv, AlarmTypes, AlarmCount, AlarmOnce, Armed, Rings,
       A!CancelledInTime
  <2>11. PwInv => PwInv'
    BY <2>1, <2>3, <2>5 DEF PwInv
  <2>12. PendInv => PendInv'
    BY <2>1, <2>3, <2>5 DEF PendInv, PendTypes, PendSteps, PendCount, Raised
  <2>13. KillInv => KillInv'
    BY <2>3 DEF KillInv, K!KillTypeOK, K!FoundUntilReaped
  <2>14. OrphanInv => OrphanInv'
    BY <2>3, <2>4 DEF OrphanInv, K!OrphanTypeOK, K!OrphanSurvives, K!Orphaned
  <2>15. PassInv => PassInv'
    BY <2>1, <2>4 DEF PassInv
  <2>16. ModesInv => ModesInv'
    BY <2>4 DEF ModesInv, ModesTypes, ModesSettings, SetBefore, HasGot, T!FreshInput
  <2> QED
    BY <2>1, <2>6, <2>7, <2>8, <2>9, <2>10, <2>11, <2>12, <2>13, <2>14, <2>15, <2>16 DEF IInv
<1> QED
  BY <1>1, <1>2, <1>3, <1>4, <1>5, <1>6, <1>7, <1>8, <1>9, <1>10, <1>11, <1>12 DEF Next

LEMMA Listed == IInv => TypeOK /\ NoSignalMissed /\ MasksKept
<1> SUFFICES ASSUME IInv PROVE TypeOK /\ NoSignalMissed /\ MasksKept
  OBVIOUS
<1>0. prog \in {"waitsig", "critical", "sleep1", "sleep2", "sigsetjmp", "alarm", "alarmread",
                "sigaction", "reentrant", "sigpend", "usekill", "orphan", "getpass", "modes"}
  BY DEF IInv
<1>1. ASSUME prog = "waitsig"
      PROVE  W!WaitTypeOK /\ W!LeavesOnQuit /\ W!NoQuitInBetween /\ W!FlagAtEnd
  BY <1>1, WaitListed DEF IInv
<1>2. ASSUME prog = "critical" PROVE C!RegionTypeOK /\ C!RegionUndisturbed /\ C!MaskInHandler
  BY <1>2, RegionListed DEF IInv
<1>3. ASSUME prog \in {"sleep1", "sleep2"} PROVE S!TypeOK /\ S!ResultTellsTruth /\ S!NoAlarmLeft
  BY <1>3, SleepListed DEF IInv
<1>4. ASSUME prog = "sigsetjmp" PROVE J!TypeOK /\ J!JumpsOnlyWhenSet /\ J!MaskRestored
  BY <1>4, JumpListed DEF IInv
<1>5. ASSUME prog \in {"alarm", "alarmread", "sigaction"}
      PROVE  A!TypeOK /\ A!EachAlarmOnce /\ A!CancelledInTime /\ A!BlockedInHandler
  BY <1>5, AlarmListed DEF IInv
<1>6. ASSUME prog = "reentrant" PROVE A!PwTypeOK
  BY <1>6, PwListed DEF IInv
<1>7. ASSUME prog = "sigpend" PROVE W!PendTypeOK /\ W!HandledOnce /\ W!SeenAndRestored
  BY <1>7, PendListed DEF IInv
<1>8. ASSUME prog = "usekill" PROVE K!KillTypeOK /\ K!FoundUntilReaped
  BY <1>8 DEF IInv, KillInv
<1>9. ASSUME prog = "orphan" PROVE K!OrphanTypeOK /\ K!OrphanSurvives
  BY <1>9 DEF IInv, OrphanInv
<1>10. ASSUME prog = "getpass"
       PROVE  T!PassTypeOK /\ T!EchoRestored /\ T!MaskAsBefore /\ T!NothingShown
  BY <1>10, PassListed DEF IInv
<1>11. ASSUME prog = "modes"
       PROVE  T!ModesTypeOK /\ T!SettingsBack /\ T!FreshInput /\ T!NotLockedIn
  BY <1>11, ModesListed DEF IInv
<1>12. TypeOK
  BY <1>0, <1>1, <1>2, <1>3, <1>4, <1>5, <1>6, <1>7, <1>8, <1>9, <1>10, <1>11 DEF TypeOK
<1>13. NoSignalMissed
  BY <1>1, <1>3, <1>5, <1>7, <1>8 DEF NoSignalMissed
<1>14. MasksKept
  BY <1>2, <1>4, <1>5, <1>7, <1>9, <1>10, <1>11 DEF MasksKept
<1> QED
  BY <1>12, <1>13, <1>14

\* What a step of critical.c, sleep2.c, sigsetjmp.c, alarmread.c and reentrant.c may do.
Allowed == /\ prog = "critical" => C!WaitNotKilled
           /\ prog = "sleep2" => S!JumpsIntoLive
           /\ prog = "sigsetjmp" => J!MaskAfterLongjmp
           /\ prog = "alarmread" => A!OnlyInputEndsRead
           /\ prog = "reentrant" => A!StuckForEver /\ A!WrongOnlyIfLate

\* Each of their steps has an effect that is allowed.
LEMMA StepsAllowed == IInv /\ [Next]_vars => [Allowed]_vars
<1> SUFFICES ASSUME IInv, Next PROVE Allowed
  OBVIOUS
<1> USE DEF InWait, InRegion, InSleep, InJump, InAlarm, InPw, InPend, InKill, InGroup, InTerm, InModes
<1>1. ASSUME prog = "critical" PROVE C!WaitNotKilled
  BY <1>1, RegionWait DEF IInv, Next
<1>2. ASSUME prog = "sleep2" PROVE S!JumpsIntoLive
  BY <1>2, SleepJumpsLive DEF IInv
<1>3. ASSUME prog = "sigsetjmp" PROVE J!MaskAfterLongjmp
  BY <1>3, JumpMask DEF IInv, Next
<1>4. ASSUME prog = "alarmread" PROVE A!OnlyInputEndsRead
  BY <1>4, AlarmReads DEF IInv, Next
<1>5. ASSUME prog = "reentrant" PROVE A!StuckForEver /\ A!WrongOnlyIfLate
  BY <1>5, PwStuck DEF IInv, Next
<1> QED
  BY <1>1, <1>2, <1>3, <1>4, <1>5 DEF Allowed

\* Whichever program runs, its invariant holds in every state it reaches.
THEOREM Invariance == Spec => []IInv
BY Initially, Inductive, PTL DEF Spec

\* Every variable of the program that runs keeps its type: no more handlers run than
\* there are signals, and no counter passes what was sent.
THEOREM TypeCorrect == Spec => []TypeOK
BY Invariance, Listed, PTL

\* waitsig.c, sleep1.c, sleep2.c, alarm.c, alarmread.c, sigpend.c and usekill.c: no signal
\* is lost, none is handled twice, and none outlives its wait or reaches a stranger.
THEOREM SignalsAlways == Spec => []NoSignalMissed
BY Invariance, Listed, PTL

\* critical.c, sigsetjmp.c, sigaction.c, sigpend.c, orphan.c, canon.c and 18-termios: masks
\* and terminals are what they were set to, and what they were, when they should be.
THEOREM MasksAlways == Spec => []MasksKept
BY Invariance, Listed, PTL

\* critical.c, sleep2.c, sigsetjmp.c, alarmread.c and reentrant.c: a signal ends no wait, and
\* a handler cuts off no other, but where the code lets it.
THEOREM EffectsAlways == Spec => OnlyAllowedEffects
<1>1. [Allowed]_vars => [/\ prog = "critical" => C!WaitNotKilled
                         /\ prog = "sleep2" => S!JumpsIntoLive
                         /\ prog = "sigsetjmp" => J!MaskAfterLongjmp
                         /\ prog = "alarmread" => A!OnlyInputEndsRead
                         /\ prog = "reentrant" => A!StuckForEver /\ A!WrongOnlyIfLate]_vars
  BY DEF Allowed
<1> QED
  BY <1>1, Invariance, StepsAllowed, PTL DEF Spec, OnlyAllowedEffects
=============================================================================
