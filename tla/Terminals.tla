-------------------------------- MODULE Terminals -----------------------------
(*****************************************************************************)
(* Programs of 18-termios that change the terminal they run on.              *)
(*                                                                           *)
(* 13-canon/canon.c: getpass_l() turns the echo off while it reads, with     *)
(* SIGINT and SIGTSTP blocked.                                               *)
(*                                                                           *)
(* The programs on the special characters and the flags: main() reads the    *)
(* settings, changes one, lets the user try the terminal, with a command     *)
(* or a loop of its own, and most restore what they found.  A program is a   *)
(* sequence of such stages.  The settings belong to the terminal: the next   *)
(* program that is run finds what the last one has left.                     *)
(*****************************************************************************)
EXTENDS Signals

CONSTANTS MaxPass,  \* MAX_PASS_LEN
          MaxTyped, \* bound on what is typed into getpass_l()
          MaxKeys,  \* bound on the keys that wait to be read
          MaxRuns   \* bound on the programs that are run

VARIABLES pc,      \* getpass_l(): what main() does next
          osig,    \* mask saved by sigprocmask()
          echo,    \* ECHO of the terminal
          buf,     \* the password
          oldterm, \* settings saved by tcgetattr()
          queue,   \* typed and not yet read
          typed,   \* keys typed so far
          by,      \* the signal that has killed the program, "exit0", "exit1" or "none"
          stopped, \* it is stopped
          before,  \* what it was started with
          stages,  \* the flag program that runs
          at,      \* its stage
          term,    \* settings of the terminal
          local,   \* term of main()
          cmd,     \* what system() runs, or "none"
          runs     \* programs run so far

passVars == <<pc, osig, echo, oldterm, queue, buf, typed, by, stopped, before>>

PassInit == /\ pend = {} /\ mask \in {{}, {"SIGINT"}} /\ frames = <<>> /\ sent = 0
            /\ pc = "fopen" /\ osig = {} /\ echo \in BOOLEAN /\ oldterm = FALSE
            /\ queue = <<>> /\ buf = <<>> /\ typed = 0 /\ by = "none" /\ stopped = FALSE
            /\ before = [mask |-> mask, echo |-> echo]

PassEnded == {"done", "failed"}
Asking == by = "none" /\ pc \notin PassEnded

\* A call does not return before a signal that is there has been taken.
PassStep(from, to) == /\ Asking /\ ~stopped /\ pc = from /\ pc' = to
                      /\ \A s \in Sigs : ~Deliverable(s)

Fopen == /\ pc = "fopen" /\ \E to \in {"block", "failed"} : PassStep("fopen", to)
         /\ UNCHANGED <<sigVars, osig, echo, oldterm, queue, buf, typed, by, stopped, before>>

\* Mutant: nothing is blocked.
Block_Skipped == /\ PassStep("block", "getattr") /\ osig' = mask /\ UNCHANGED sigVars
                 /\ UNCHANGED <<echo, oldterm, queue, buf, typed, by, stopped, before>>

Block == /\ PassStep("block", "getattr")
         /\ osig' = mask /\ SetMask(mask \cup {"SIGINT", "SIGTSTP"})
         /\ UNCHANGED <<echo, oldterm, queue, buf, typed, by, stopped, before>>

Tcgetattr == /\ PassStep("getattr", "setattr") /\ oldterm' = echo
             /\ UNCHANGED <<sigVars, osig, echo, queue, buf, typed, by, stopped, before>>

\* Mutant: TCSADRAIN.
EchoOff_Keeps == /\ PassStep("setattr", "getc") /\ echo' = FALSE
                 /\ UNCHANGED <<sigVars, osig, oldterm, queue, buf, typed, by, stopped, before>>

\* TCSAFLUSH forgets what was typed before.
EchoOff == /\ PassStep("setattr", "getc") /\ echo' = FALSE /\ queue' = <<>>
           /\ UNCHANGED <<sigVars, osig, oldterm, buf, typed, by, stopped, before>>

\* The terminal gives whole lines; what does not fit into buf is dropped.
Getc == /\ pc = "getc" /\ (\E i \in DOMAIN queue : queue[i] = "newline") /\ queue' = Tail(queue)
        /\ IF Head(queue) = "newline" THEN PassStep("getc", "restore") /\ UNCHANGED buf
           ELSE /\ PassStep("getc", "getc")
                /\ buf' = IF Len(buf) < MaxPass THEN Append(buf, Head(queue)) ELSE buf
        /\ UNCHANGED <<sigVars, osig, echo, oldterm, typed, by, stopped, before>>

\* Mutant: the signals are unblocked and the terminal is left as it is.
EchoBack_Late == /\ PassStep("restore", "unmask") /\ SetMask(osig)
                 /\ UNCHANGED <<osig, echo, oldterm, queue, buf, typed, by, stopped, before>>

EchoBack == /\ PassStep("restore", "unmask") /\ echo' = oldterm /\ queue' = <<>>
            /\ UNCHANGED <<sigVars, osig, oldterm, buf, typed, by, stopped, before>>

Unmask == /\ PassStep("unmask", "clear") /\ SetMask(osig)
          /\ UNCHANGED <<osig, echo, oldterm, queue, buf, typed, by, stopped, before>>

\* main() prints the password, and clearpass_l()
Clear == /\ PassStep("clear", "done") /\ buf' = <<>>
         /\ UNCHANGED <<sigVars, osig, echo, oldterm, queue, typed, by, stopped, before>>

PassMain == Fopen \/ Block \/ Tcgetattr \/ EchoOff \/ Getc \/ EchoBack \/ Unmask \/ Clear

------------------------------------------------------------------------------
(* getpass_l(): the user and the signals *)

TypeHidden == /\ Asking /\ ~stopped /\ typed < MaxTyped /\ typed' = typed + 1
              /\ \E c \in {IF echo THEN "shown" ELSE "hidden", "newline"} : queue' = Append(queue, c)
              /\ UNCHANGED <<sigVars, pc, osig, echo, oldterm, buf, by, stopped, before>>

PassArrive == /\ Asking /\ \E s \in Sigs : Send(s)
              /\ UNCHANGED passVars

\* The default actions
PassDeliver(s) == /\ Asking /\ ~stopped /\ Deliverable(s) /\ pend' = pend \ {s}
                  /\ IF s = "SIGTSTP" THEN stopped' = TRUE /\ UNCHANGED by
                     ELSE by' = s /\ UNCHANGED stopped
                  /\ UNCHANGED <<mask, frames, sent, pc, osig, echo, oldterm, queue, buf, typed, before>>

PassCont == /\ stopped /\ stopped' = FALSE
            /\ UNCHANGED <<sigVars, pc, osig, echo, oldterm, queue, buf, typed, by, before>>

PassNext == PassMain \/ TypeHidden \/ PassArrive \/ PassCont \/ \E s \in Sigs : PassDeliver(s)

------------------------------------------------------------------------------
(* getpass_l(): what must hold *)

PassTypeOK == /\ SigTypeOK /\ frames = <<>>
              /\ pc \in PassEnded \cup {"fopen", "block", "getattr", "setattr", "getc", "restore",
                                        "unmask", "clear"}
              /\ osig \subseteq Sigs /\ echo \in BOOLEAN /\ oldterm \in BOOLEAN
              /\ queue \in Seq({"shown", "hidden", "newline"}) /\ buf \in Seq({"shown", "hidden"})
              /\ Len(queue) <= typed /\ typed \in 0..MaxTyped /\ Len(buf) <= MaxPass
              /\ by \in Sigs \cup {"none"} /\ stopped \in BOOLEAN

\* canon.c, lines 62-70 and 80-81: whoever takes the terminal from the program,
\* because it is over, stopped, or killed, finds the echo as it was before.  Only
\* SIGQUIT, which is not blocked, leaves it off.
EchoRestored ==
  pc \in PassEnded \/ stopped \/ by \notin {"none", "SIGQUIT"} => echo = before.echo

MaskAsBefore == pc \in PassEnded => mask = before.mask

\* Lines 69-70: no character of the password was shown on the terminal.
NothingShown == \A i \in DOMAIN buf : buf[i] # "shown"

------------------------------------------------------------------------------
(* The other programs, stage by stage *)

\* stty -a of a terminal nobody has changed; other is whatever else a program sets.
Normal == [icanon |-> TRUE, isig |-> TRUE, intr |-> "^C", quit |-> "^\\", susp |-> "^Z",
           eof |-> "^D", vmin |-> 1, vtime |-> 0, other |-> "as found"]

Keys == {"^C", "^\\", "^Z", "^D", "^B", "]", "a", "z", "newline"}

Isatty       == [do |-> "isatty"]
Get          == [do |-> "get"]     \* tcgetattr(), and oldterm = term
Again        == [do |-> "again"]   \* tcgetattr() alone
Set(change)  == [do |-> "set", change |-> change]
SetOther     == Set([other |-> "changed"])
Command(c)   == [do |-> "system", cmd |-> c]
Read         == [do |-> "read"]    \* read_write(): until end of file
Getchar      == [do |-> "getchar"] \* readwrite() on stdin
Once         == [do |-> "once"]    \* readwrite() of mintime.c
Restore      == [do |-> "restore"]

Cr       == <<Isatty, Get, Command("stty"), Read, SetOther, Command("stty"), Read, Restore>>
Intr     == <<Get, Set([intr |-> "]"]), Command("stty"), Set([isig |-> FALSE]), Command("stty"),
              Restore>>
Quit     == <<Get, Set([quit |-> "a"]), Command("cat"), Set([isig |-> FALSE]), Command("cat"),
              Restore>>
Susp     == <<Get, Command("cat"), Set([susp |-> "z"]), Command("cat"), Set([isig |-> FALSE]),
              Command("cat"), Restore>>
Start    == <<Get, Command("top"), SetOther, Command("top"), Restore>>
Reprint  == <<Get, Command("cat"), SetOther, Command("cat"), Restore>>
Eof      == <<Isatty, Get, Read, Set([eof |-> "a"]), Read>>
Eol      == <<Isatty, Get, SetOther, Read>>
Erase    == <<Get, Read, SetOther, Read>>
Disable  == <<Isatty, Get, Set([intr |-> "none", eof |-> "^B"])>>
Baudrate == <<Get, SetOther, Restore>>
Optflag  == <<Get, SetOther, Again, Restore>>
Tabdly   == <<Get, Getchar, SetOther, Getchar, Restore>>
Inlcr    == <<Get, Getchar, SetOther, Getchar, Restore>>
Ixon     == <<Get, Command("yes"), SetOther, Command("yes"), Command("cat"), Restore>>
Isig     == <<Get, Set([isig |-> FALSE]), Command("cat"), Restore>>
Echo     == <<Get, SetOther, Command("cat"), Restore>>

\* Mutant: ISIG goes with ICANON.
Icanon_Raw == <<Get, Command("cat"), Set([icanon |-> FALSE, isig |-> FALSE]), Command("cat"),
                Restore>>

Icanon   == <<Get, Command("cat"), Set([icanon |-> FALSE]), Command("cat"), Restore>>

\* Line 27 gives &oldterm to tcsetattr(): FLUSHO is never set.
Flusho   == <<Get, Set(<<>>), Command("cat"), Restore>>

MinTime(min, time) == [icanon |-> FALSE, vmin |-> min, vtime |-> time]

\* The rounds (0, 0), (MIN, 0), (0, 20), (MIN, 20) and (0, 0)
Mintime  == <<Get, Set(MinTime(0, 0)), Once, Set(MinTime(3, 0)), Once,
              Set(MinTime(0, 20)), Once, Set(MinTime(3, 20)), Once,
              Set(MinTime(0, 0)), Once, Restore>>

Programs == {Cr, Intr, Quit, Susp, Start, Reprint, Eof, Eol, Erase, Disable, Baudrate, Optflag,
             Tabdly, Inlcr, Ixon, Isig, Echo, Icanon, Flusho, Mintime}

\* Bound: the programs that are run after the first one
Later    == {Eof, Quit, Ixon, Icanon}

modesVars == <<oldterm, queue, by, stopped, before, stages, at, term, local, cmd, runs>>

ModesInit == /\ term = Normal /\ before = Normal /\ local = Normal /\ oldterm = Normal
             /\ stages \in Programs /\ at = 1 /\ cmd = "none" /\ runs = 1
             /\ queue = <<>> /\ by = "none" /\ stopped = FALSE

Here   == stages[at]
Up     == by = "none" /\ ~stopped
On(do) == Up /\ at <= Len(stages) /\ Here.do = do
Past   == at' = at + 1

Tests == /\ On("isatty") /\ Past
         /\ UNCHANGED <<oldterm, queue, by, stopped, before, stages, term, local, cmd, runs>>

Gets == /\ On("get") \/ On("again")
        /\ local' = term /\ oldterm' = IF Here.do = "get" THEN term ELSE oldterm
        /\ Past /\ UNCHANGED <<queue, by, stopped, before, stages, term, cmd, runs>>

\* The settings t with those of change.
Changed(t, change) == [f \in DOMAIN t |-> IF f \in DOMAIN change THEN change[f] ELSE t[f]]

\* Mutant: TCSADRAIN.
Sets_Drain == /\ On("set") /\ local' = Changed(local, Here.change) /\ term' = local'
              /\ Past /\ UNCHANGED <<oldterm, queue, by, stopped, before, stages, cmd, runs>>

\* TCSAFLUSH forgets what was typed before.
Sets == /\ On("set") /\ local' = Changed(local, Here.change) /\ term' = local' /\ queue' = <<>>
        /\ Past /\ UNCHANGED <<oldterm, by, stopped, before, stages, cmd, runs>>

\* Mutant: the settings in term are set once more.
Restores_Term == /\ On("restore") /\ term' = local /\ queue' = <<>>
                 /\ Past /\ UNCHANGED <<oldterm, by, stopped, before, stages, local, cmd, runs>>

Restores == /\ On("restore") /\ term' = oldterm /\ queue' = <<>>
            /\ Past /\ UNCHANGED <<oldterm, by, stopped, before, stages, local, cmd, runs>>

\* system() is not checked: if it cannot fork, main() goes on.
Runs == /\ On("system") /\ cmd = "none"
        /\ \/ cmd' = Here.cmd /\ UNCHANGED at
           \/ Past /\ UNCHANGED cmd
        /\ UNCHANGED <<oldterm, queue, by, stopped, before, stages, term, local, runs>>

\* A line, or what there is if the terminal is not canonical; how many keys of the
\* queue a read() takes.  Zero is end of file, and so is an EOF at the start of a line.
Delimiters == {i \in DOMAIN queue : queue[i].is \in {"newline", "eof"}}
Readable == IF term.icanon THEN Delimiters # {}
            ELSE Len(queue) >= term.vmin \/ (term.vtime > 0 /\ queue # <<>>)
Taken    == {i \in 0..Len(queue) : IF term.icanon THEN i \in Delimiters /\ \A j \in Delimiters : i <= j
                                   ELSE i = Len(queue)}
EofRead  == 0 \in Taken \/ Head(queue).is = "eof"

ReadBy(done) == /\ Readable /\ \E i \in Taken : queue' = SubSeq(queue, i + 1, Len(queue))
                /\ IF done THEN Past ELSE UNCHANGED at
                /\ UNCHANGED <<oldterm, by, stopped, before, stages, term, local, runs>>

Reads    == (On("read") \/ On("getchar")) /\ ReadBy(EofRead) /\ UNCHANGED cmd
ReadOnce == On("once") /\ ReadBy(TRUE) /\ UNCHANGED cmd
Cat      == Up /\ cmd = "cat" /\ ReadBy(EofRead) /\ cmd' = IF EofRead THEN "none" ELSE cmd

\* stdin keeps its end-of-file indicator: since glibc 2.28 getchar() reads no more.
StickyEof == /\ On("getchar") /\ \E i \in 1..at - 1 : stages[i].do = "getchar"
             /\ Past /\ UNCHANGED <<oldterm, queue, by, stopped, before, stages, term, local,
                                    cmd, runs>>

Finishes(c) == /\ Up /\ cmd = c /\ cmd' = "none"
               /\ Past /\ UNCHANGED <<oldterm, queue, by, stopped, before, stages, term, local, runs>>

\* The process is over, and its variables with it; the shell reads what is typed.
Over(how) == /\ by' = how /\ queue' = <<>> /\ local' = Normal /\ oldterm' = Normal
             /\ UNCHANGED <<before, stages, at, term, runs>>

Returns == Up /\ at > Len(stages) /\ Over("exit0") /\ UNCHANGED <<stopped, cmd>>

\* A call fails, write() after read() too: nothing is restored.
Fails == /\ \E do \in {"isatty", "get", "again", "set", "restore", "read", "once"} : On(do)
         /\ Over("exit1") /\ UNCHANGED <<stopped, cmd>>

ModesMain == \/ Tests \/ Gets \/ Sets \/ Restores \/ Runs \/ Reads \/ ReadOnce \/ StickyEof
             \/ Cat \/ Finishes("stty") \/ Returns \/ Fails

------------------------------------------------------------------------------
(* The user, and whoever kills the program *)

\* While system() waits main() ignores the signals of INTR and QUIT; the command
\* does not.  A signal flushes the queue.
Interrupt(sig) == IF cmd = "none" THEN Over(sig) /\ UNCHANGED <<stopped, cmd>>
                  ELSE /\ queue' = <<>> /\ cmd' = "none" /\ Past
                       /\ UNCHANGED <<oldterm, by, stopped, before, stages, term, local, runs>>

Suspend == /\ stopped' = TRUE /\ queue' = <<>>
           /\ UNCHANGED <<oldterm, by, before, stages, at, term, local, cmd, runs>>

Queued(k) == /\ queue' = Append(queue, [at |-> at,
                                        is |-> IF term.icanon /\ k = term.eof THEN "eof"
                                               ELSE IF k = "newline" THEN k ELSE "char"])
             /\ UNCHANGED <<oldterm, by, stopped, before, stages, at, term, local, cmd, runs>>

Press(k) == /\ Up /\ Len(queue) < MaxKeys
            /\ CASE term.isig /\ k = term.intr -> Interrupt("SIGINT")
                 [] term.isig /\ k = term.quit /\ k # term.intr -> Interrupt("SIGQUIT")
                 [] term.isig /\ k = term.susp /\ k \notin {term.intr, term.quit} -> Suspend
                 [] ~term.isig \/ k \notin {term.intr, term.quit, term.susp} -> Queued(k)

Continue == /\ stopped /\ by = "none" /\ stopped' = FALSE
            /\ UNCHANGED <<oldterm, queue, by, before, stages, at, term, local, cmd, runs>>

Kill == by = "none" /\ Over("SIGTERM") /\ cmd' = "none" /\ stopped' = FALSE

\* The shell runs another program; it may put the terminal right after a signal.
RunNext == /\ by # "none" /\ runs < MaxRuns /\ runs' = runs + 1
           /\ term' \in {term} \cup (IF by \in {"exit0", "exit1"} THEN {} ELSE {before})
           /\ before' = term' /\ stages' \in Later /\ at' = 1 /\ by' = "none"
           /\ UNCHANGED <<oldterm, queue, stopped, local, cmd>>

ModesNext == \/ ModesMain \/ Continue \/ Kill \/ RunNext \/ Finishes("top")
             \/ \E k \in Keys : Press(k)

------------------------------------------------------------------------------
(* What must hold *)

ModesTypeOK ==
  /\ stages \in Programs /\ at \in 1..Len(stages) + 1 /\ runs \in 1..MaxRuns
  /\ \A t \in {term, local, oldterm, before} :
       /\ DOMAIN t = DOMAIN Normal /\ t.icanon \in BOOLEAN /\ t.isig \in BOOLEAN
       /\ t.eof \in Keys /\ t.intr \in Keys \cup {"none"}
  /\ Len(queue) <= MaxKeys /\ stopped \in BOOLEAN
  /\ \A i \in DOMAIN queue : queue[i].is \in {"char", "newline", "eof"} /\ queue[i].at <= at
  /\ by \in {"none", "exit0", "exit1", "SIGINT", "SIGQUIT", "SIGTERM"}
  /\ cmd \in {"none", "cat", "stty", "top", "yes"}
  /\ cmd # "none" => at <= Len(stages) /\ Here = Command(cmd)

\* A program that restores leaves nothing behind when it returns 0, and whatever
\* ends a program, or stops it, no other setting has changed than those it has set.
SettingsBack ==
  /\ by = "exit0" /\ stages[Len(stages)] = Restore => term = before
  /\ \A f \in DOMAIN term : term[f] # before[f] =>
       \E i \in 1..at - 1 : stages[i].do = "set" /\ f \in DOMAIN stages[i].change

\* What was typed under other settings is never read: it was typed for them.
FreshInput == \A i \in DOMAIN queue, s \in 1..at - 1 :
                stages[s].do \in {"set", "restore"} => queue[i].at > s

\* Some key ends every wait, whatever the earlier runs have left, as long as the
\* terminal still had ISIG and ICANON when the program was started.
CanEnd(k) == \/ term.isig /\ k \in {term.intr, term.quit}
             \/ cmd # "yes" /\ IF term.icanon THEN k = term.eof
                               ELSE On("once") \/ term.vmin = 0
NotLockedIn ==
  /\ before.isig /\ before.icanon /\ Up
  /\ cmd \in {"cat", "yes"} \/ On("read") \/ On("getchar") \/ On("once")
  => \E k \in Keys : CanEnd(k)

\* A stage that waits for nobody, or for a line when an EOF has been typed at the
\* start of one: the program does not stay there unless it is stopped.
MustGoOn ==
  \/ \E do \in {"isatty", "get", "again", "set", "restore"} : On(do)
  \/ Up /\ (cmd = "stty" \/ at > Len(stages))
  \/ On("once") /\ term.vmin = 0
  \/ /\ (Up /\ cmd = "cat") \/ On("read") \/ On("getchar")
     /\ term.icanon /\ queue # <<>> /\ Head(queue).is = "eof"
==============================================================================
