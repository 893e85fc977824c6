------------------------------- MODULE ForkExec -------------------------------
(***************************************************************************)
(* Programs that fork one child after the other: exec.c, execlp.c,         *)
(* interp.c, wait.c, fork.c, vfork.c, zombie.c and proctime.c of 8-process, *)
(* the shells myshell.c and signals.c of 1-overview.  A child has a copy   *)
(* of the memory of its parent, the text that stdout has not written yet   *)
(* included, until it executes another program.                            *)
(***************************************************************************)
EXTENDS Naturals, Sequences

CONSTANTS MaxLines,     \* bound on the commands that are typed, or given as arguments
          MaxInterrupts \* bound on the interrupt characters typed

VARIABLES program,
          nocldwait, \* it was started with SIGCHLD ignored
          tty,       \* standard input and output are a terminal
          here,      \* what exec is to find is in the current directory
          lines,     \* commands there will be
          image,     \* process -> globval, unwritten text, whether PATH has the current directory
          main,      \* what the parent does next
          round,     \* children so far
          kid,       \* what the present child does next; then "zombie", "none" or "gone"
          out,       \* texts written, in order
          ended,     \* the children that have ended, with the status of each
          reaped,    \* those whose status the parent has
          clock,     \* tms_cutime now, and when proctime.c asked before the command
          interrupts

forkExecVars == <<program, nocldwait, tty, here, lines, image, main, round, kid, out, ended,
                  reaped, clock, interrupts>>
started == <<program, nocldwait, tty, here, lines>>

Shells == {"myshell", "signals"}
Exited == {"exit0", "exit1", "killed"}

ForkExecInit ==
  /\ program \in Shells \cup {"exec", "execlp", "interp", "wait", "fork", "vfork", "zombie",
                              "proctime"}
  /\ nocldwait \in BOOLEAN /\ tty \in BOOLEAN /\ here \in BOOLEAN /\ lines \in 0..MaxLines
  /\ \E inpath \in BOOLEAN :
       image = [p \in {"main", "kid", "sh"} |-> [glob |-> 6, held |-> <<>>, path |-> p # "sh" /\ inpath]]
  /\ main = CASE program \in Shells -> "prompt" [] program = "proctime" -> "next"
              [] program \in {"fork", "vfork"} -> "before" [] OTHER -> "fork"
  /\ round = IF program \in Shells \cup {"proctime"} THEN 0 ELSE 1
  /\ kid = "none" /\ out = <<>> /\ ended = <<>> /\ reaped = <<>>
  /\ clock = [now |-> 0, start |-> 0] /\ interrupts = 0

------------------------------------------------------------------------------
(* What the programs are made of *)

\* printf() of a line: on a terminal it is written at once, with what came before.
Puts(p, text) ==
  IF tty THEN /\ out' = (out \o image[p].held) \o <<text>>
              /\ image' = [image EXCEPT ![p].held = <<>>]
  ELSE UNCHANGED out /\ image' = [image EXCEPT ![p].held = Append(@, text)]

\* exit(), or return from main(): what is held is written, and text after it.
Exits(status, text) == /\ main' = status /\ out' = (out \o image["main"].held) \o text
                       /\ image' = [image EXCEPT !["main"].held = <<>>]

Fork(after) == /\ main = "fork" /\ main' = after /\ kid' = "born"
               /\ image' = [image EXCEPT !["kid"] = image["main"]]
               /\ UNCHANGED <<started, round, out, ended, reaped, clock, interrupts>>

ForkFails(status) == /\ main = "fork" /\ Exits(status, <<>>)
                     /\ UNCHANGED <<started, round, kid, ended, reaped, clock, interrupts>>

\* A child that ends is a zombie unless SIGCHLD is ignored.
Dies(status) == /\ kid' = IF nocldwait THEN "gone" ELSE "zombie"
                /\ ended' = Append(ended, <<round, status>>)
                /\ UNCHANGED <<started, main, round, reaped, clock, interrupts>>

\* Without exit() nothing is written.
KidDies(status) == Dies(status) /\ UNCHANGED <<image, out>>

KidExits(status, text) == Dies(status) /\ out' = (out \o image["kid"].held) \o text /\ UNCHANGED image

\* An exec that finds its file replaces the memory but for the environment.
KidExecs(found, status) ==
  IF found THEN /\ kid' = "command"
                /\ image' = [image EXCEPT !["kid"].glob = 6, !["kid"].held = <<>>]
                /\ UNCHANGED <<started, main, round, out, ended, reaped, clock, interrupts>>
  ELSE KidExits(status, <<>>)

CommandEnds == kid = "command" /\ KidDies("0")

KidKilled == kid \notin {"none", "zombie", "gone"} /\ KidDies("killed")

\* wait(), waitpid(), or the waitpid() of system(): its time is added to tms_cutime.
Reap(after) == /\ main = "wait" /\ kid = "zombie"
               /\ kid' = "none" /\ reaped' = Append(reaped, ended[Len(ended)]) /\ main' = after
               /\ clock' = [clock EXCEPT !.now = @ + round]
               /\ UNCHANGED <<started, image, round, out, ended, interrupts>>

\* ECHILD.
NoChild == /\ main = "wait" /\ kid = "gone" /\ Exits("exit1", <<>>)
           /\ UNCHANGED <<started, round, kid, ended, reaped, clock, interrupts>>

Another(n, after) == /\ main = "next"
                     /\ IF round < n THEN round' = round + 1 /\ main' = after /\ UNCHANGED <<image, out>>
                        ELSE Exits("exit0", <<>>) /\ UNCHANGED round
                     /\ UNCHANGED <<started, kid, ended, reaped, clock, interrupts>>

------------------------------------------------------------------------------
(* The programs *)

\* system() in the fourth child forks a shell of its own, if it can.
ExecSystem == /\ kid = "born" /\ round = 4
              /\ \/ kid' = "system" /\ image' = [image EXCEPT !["sh"] = image["kid"]]
                 \/ kid' = "search" /\ UNCHANGED image
              /\ UNCHANGED <<started, main, round, out, ended, reaped, clock, interrupts>>

\* "export PATH=$PATH:" in that shell.
ExportPath == /\ kid = "system" /\ kid' = "search"
              /\ image' = [image EXCEPT !["sh"].path = TRUE]
              /\ UNCHANGED <<started, main, round, out, ended, reaped, clock, interrupts>>

\* exec.c: four children; when it cannot fork the second one it returns 0.
Exec ==
  /\ program = "exec"
  /\ \/ Fork("wait") \/ ForkFails(IF round = 2 THEN "exit0" ELSE "exit1")
     \/ Reap("next") \/ NoChild \/ Another(4, "fork")
     \/ kid = "born" /\ round \in 1..3 /\ KidExecs(here, "1")
     \/ kid = "born" /\ round = 2 /\ KidExits("1", <<>>)  \* getcwd() fails
     \/ ExecSystem \/ ExportPath
     \/ kid = "search" /\ KidExecs(here /\ image["kid"].path, "1")

\* execlp.c looks for its interpreter file in PATH.
Execlp ==
  /\ program = "execlp"
  /\ \/ Fork("wait") \/ ForkFails("exit1") \/ Reap("next") \/ NoChild \/ Another(1, "fork")
     \/ kid = "born" /\ KidExecs(here /\ image["kid"].path, "1")

\* interp.c, where "here" says that the file is executable.
Interp ==
  /\ program = "interp"
  /\ \/ Fork("wait") \/ ForkFails("exit1") \/ Reap("next") \/ NoChild \/ Another(1, "fork")
     \/ kid = "born" /\ KidExecs(here, "1")

\* pr_exit().
PrExit == /\ main = "status" /\ main' = "next"
          /\ Puts("main", <<"status", round, reaped[Len(reaped)][2]>>)
          /\ UNCHANGED <<started, round, kid, ended, reaped, clock, interrupts>>

\* wait.c.  abort() may write what is held; division by zero, which is undefined, gives a
\* signal, or the child goes on to a wait() that has nothing to wait for.
Wait ==
  /\ program = "wait"
  /\ \/ Fork("wait") \/ ForkFails("exit1") \/ Reap("status") \/ NoChild \/ PrExit
     \/ Another(3, "fork")
     \/ kid = "born" /\ round = 1 /\ KidExits("7", <<>>)
     \/ kid = "born" /\ round = 2 /\ (KidDies("abrt") \/ KidExits("abrt", <<>>))
     \/ kid = "born" /\ round = 3 /\ (KidDies("fpe") \/ KidExits("1", <<>>))

Before == /\ main = "before" /\ main' = "fork" /\ Puts("main", <<"before", 0, "main">>)
          /\ UNCHANGED <<started, round, kid, ended, reaped, clock, interrupts>>

Values(p, glob) == <<<<"values", glob, p>>>>

\* The end of fork.c and vfork.c.
PrintValues == /\ Exits("exit0", Values("main", image["main"].glob))
               /\ UNCHANGED <<started, round, kid, ended, reaped, clock, interrupts>>

\* fork.c: the child increments its own globval; sleep() orders nothing.
ForkProgram ==
  /\ program = "fork"
  /\ \/ Before \/ Fork("sleep") \/ ForkFails("exit1")
     \/ kid = "born" /\ KidExits("0", Values("kid", image["kid"].glob + 1))
     \/ main = "sleep" /\ PrintValues

\* Mutant: fork().
VforkIncrement_Copy == /\ kid = "born" /\ kid' = "_exit"
                       /\ image' = [image EXCEPT !["kid"].glob = @ + 1]
                       /\ UNCHANGED <<started, main, round, out, ended, reaped, clock, interrupts>>

\* The child of vfork() runs in the memory of its parent.
VforkIncrement == /\ kid = "born" /\ kid' = "_exit"
                  /\ image' = [image EXCEPT !["main"].glob = @ + 1]
                  /\ UNCHANGED <<started, main, round, out, ended, reaped, clock, interrupts>>

\* vfork.c: the parent goes on after _exit().
Vfork ==
  /\ program = "vfork"
  /\ \/ Before \/ Fork("vforked") \/ ForkFails("exit1")
     \/ VforkIncrement
     \/ kid = "_exit" /\ KidDies("0")
     \/ main = "vforked" /\ kid \in {"zombie", "gone"} /\ PrintValues

\* zombie.c does not wait; ps finds the child in the state it has by then.
Zombie ==
  /\ program = "zombie"
  /\ \/ Fork("sleep") \/ ForkFails("exit1")
     \/ kid = "born" /\ KidExits("0", <<>>)
     \/ /\ main = "sleep" /\ Exits("exit0", <<<<"ps", 0, kid>>>>)
        /\ UNCHANGED <<started, round, kid, ended, reaped, clock, interrupts>>

\* The first times() of do_cmd().
Times == /\ main = "times"
         /\ \/ main' = "fork" /\ clock' = [clock EXCEPT !.start = clock.now]
            \/ main' = "next" /\ UNCHANGED clock
         /\ UNCHANGED <<started, image, round, kid, out, ended, reaped, interrupts>>

\* system() returns -1: no process, or no child to wait for.
SystemFails == /\ \/ main = "fork"
                  \/ main = "wait" /\ kid = "gone"
               /\ main' = "next"
               /\ UNCHANGED <<started, image, round, kid, out, ended, reaped, clock, interrupts>>

\* pr_times() and pr_exit(), unbuffered, if the second times() succeeds.
PrTimes == /\ main = "end" /\ main' = "next"
           /\ \/ out' = Append(out, <<"times", clock.now - clock.start, reaped[Len(reaped)][2]>>)
              \/ UNCHANGED out
           /\ UNCHANGED <<started, image, round, kid, ended, reaped, clock, interrupts>>

\* proctime.c: do_cmd() for each argument; the shell that system() cannot find gives 127.
Proctime ==
  /\ program = "proctime"
  /\ \/ Another(lines, "times") \/ Times \/ Fork("wait") \/ SystemFails \/ Reap("end") \/ PrTimes
     \/ kid = "born" /\ (KidExecs(TRUE, "127") \/ KidDies("127"))

\* printf("%% "), without a newline.
Prompt == /\ main = "prompt" /\ main' = "read"
          /\ image' = [image EXCEPT !["main"].held = Append(@, <<"prompt", round, "main">>)]
          /\ UNCHANGED <<started, round, kid, out, ended, reaped, clock, interrupts>>

\* fgets() from a terminal first writes what stdout holds.
Fgets ==
  /\ main = "read"
  /\ IF round < lines
     THEN /\ main' = "fork" /\ round' = round + 1
          /\ IF tty THEN /\ out' = out \o image["main"].held
                         /\ image' = [image EXCEPT !["main"].held = <<>>]
             ELSE UNCHANGED <<image, out>>
     ELSE Exits("exit0", <<>>) /\ UNCHANGED round
  /\ UNCHANGED <<started, kid, ended, reaped, clock, interrupts>>

\* What myshell.c and signals.c do alike: any command may be there or not.
Shell == \/ Prompt \/ Fgets \/ Fork("wait") \/ ForkFails("exit1") \/ Reap("prompt") \/ NoChild
         \/ kid = "born" /\ \E found \in BOOLEAN : KidExecs(found, "127")

Myshell == program = "myshell" /\ Shell
SignalsShell == program = "signals" /\ Shell

\* The interrupt character ends myshell.c and its child.
Interrupt ==
  /\ program = "myshell" /\ tty /\ interrupts < MaxInterrupts /\ main \notin Exited
  /\ interrupts' = interrupts + 1 /\ main' = "killed"
  /\ IF kid \in {"born", "command"} THEN kid' = "gone" /\ ended' = Append(ended, <<round, "int">>)
     ELSE UNCHANGED <<kid, ended>>
  /\ UNCHANGED <<started, image, round, out, reaped, clock>>

\* sig_int(): "interrupt\n% ", whose second line is held again.
Notice(p)  == image[p].held \o <<<<"interrupt", interrupts, p>>>>
Reprompt(p) == <<<<"prompt", 100 + interrupts, p>>>>

\* Mutant: without signal() (line 18).
SignalsInterrupt_Default ==
  /\ program = "signals" /\ tty /\ interrupts < MaxInterrupts /\ main \notin Exited
  /\ interrupts' = interrupts + 1 /\ main' = "killed"
  /\ UNCHANGED <<started, image, round, kid, out, ended, reaped, clock>>

\* In signals.c each process that has the handler calls it; a program that was executed has
\* not got it any more.
SignalsInterrupt ==
  /\ program = "signals" /\ tty /\ interrupts < MaxInterrupts /\ main \notin Exited
  /\ interrupts' = interrupts + 1
  /\ IF kid = "born"
     THEN /\ out' = (out \o Notice("main")) \o Notice("kid")
          /\ image' = [image EXCEPT !["main"].held = Reprompt("main"), !["kid"].held = Reprompt("kid")]
     ELSE out' = out \o Notice("main") /\ image' = [image EXCEPT !["main"].held = Reprompt("main")]
  /\ IF kid = "command"
     THEN /\ kid' = IF nocldwait THEN "gone" ELSE "zombie"
          /\ ended' = Append(ended, <<round, "int">>)
     ELSE UNCHANGED <<kid, ended>>
  /\ UNCHANGED <<started, main, round, reaped, clock>>

ForkExecRun == \/ Exec \/ Execlp \/ Interp \/ Wait \/ ForkProgram \/ Vfork \/ Zombie \/ Proctime
               \/ Myshell \/ SignalsShell \/ CommandEnds

ForkExecNext == ForkExecRun \/ KidKilled \/ Interrupt \/ SignalsInterrupt

------------------------------------------------------------------------------
(* What must hold *)

ForkExecTypeOK ==
  /\ \A p \in {"main", "kid", "sh"} : image[p].glob \in 6..7 /\ image[p].path \in BOOLEAN
  /\ kid \in {"none", "born", "system", "search", "command", "_exit", "zombie", "gone"}
  /\ round \in 0..MaxLines + 4 /\ interrupts \in 0..MaxInterrupts

\* wait.c, lines 22-54, and the other loops: the parent has the statuses of its children
\* one by one and in order, and of all of them when it succeeds.
ReapedInOrder ==
  /\ Len(reaped) <= Len(ended) /\ \A i \in DOMAIN reaped : reaped[i] = ended[i]
  /\ main = "exit0" /\ ~nocldwait /\ program \notin {"fork", "vfork", "zombie"} => reaped = ended

\* wait.c, lines 26-54, and proctime.c, lines 60-68: each line shows the status, or the
\* time, of the child it is about and nobody else's.
ShownOfChild ==
  \A i \in DOMAIN out : out[i][1] \in {"status", "times"} =>
    \E j \in DOMAIN reaped : reaped[j] = <<out[i][2], out[i][3]>>

\* fork.c, lines 27-32, myshell.c and wait.c: what stdout holds is written once unless
\* a child that has a copy of it ends by exit() or abort().  On a terminal only
\* the prompt of sig_int() can be copied.
WrittenOnce ==
  \A i, j \in DOMAIN out : i < j /\ out[i] = out[j] =>
    IF tty THEN out[i][1] = "prompt" /\ out[i][2] >= 100
    ELSE \E k \in DOMAIN ended : ended[k][2] \in {"0", "1", "127", "abrt"}

\* fork.c, lines 54-62, and vfork.c, lines 34-56: what the parent prints is its own
\* value after fork() and that of its child after vfork(), unless it was killed before.
ValuesOfImage ==
  \A i \in DOMAIN out : out[i][1] = "values" =>
    \/ out[i][2] = IF program = "vfork" \/ out[i][3] = "kid" THEN 7 ELSE 6
    \/ program = "vfork" /\ \E j \in DOMAIN ended : ended[j] = <<1, "killed">>

\* zombie.c, lines 33-39: as long as nobody waits, ps finds the child.
ZombieShown ==
  ~nocldwait => \A i \in DOMAIN out : out[i] \notin {<<"ps", 0, "gone">>, <<"ps", 0, "none">>}

\* signals.c, lines 18-19 and 29: an interrupt ends a command that is executing and
\* nothing else, and every interrupt is told.
InterruptEndsCommand ==
  program = "signals" /\ interrupts' # interrupts =>
    /\ main' = main /\ kid' \notin {"command"}
    /\ kid # "command" => kid' = kid
    /\ \E i \in DOMAIN out' : out'[i] = <<"interrupt", interrupts, "main">>

\* The programs end after the last command, when every command does.
ForkExecEnds == <>(main \in Exited)
==============================================================================
