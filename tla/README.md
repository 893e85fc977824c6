# Verification of the APUE2 programs

`src/` is a collection of C programs written while working through *Advanced
Programming in the UNIX Environment*. Most of them print what a single system
call returns. About a hundred carry logic of their own: they fork, share files and
locks, handle signals, run threads, or talk over sockets, and what they do
depends on an order of events that nobody chose. This directory holds TLA+
models of those programs, TLC configurations that check them on small
instances, and theorems that TLAPS has proved about them.

There is no common library in the repository: every directory is a program (or
a pair that talk to each other), and a function such as `daemonize()` or
`connect_retry()` is copied where it is needed. The parts of the system are
therefore programs and the kernel objects they share, and programs interact
through those objects: descriptors and pipes, record locks, signals, mutexes and
condition variables, sockets, semaphores, message queues.

How to run:

    tlc -config Popen.cfg Popen.tla          # any run of the table below
    tlapm SingleInstanceProofs.tla           # the proofs of a ...Proofs module

## 1. Inventory

For each component: the state it keeps, its operations, what it interacts with,
what is hard about it, and what makes it correct. `PROJECT.json` lists all
components with their files and status, and under `hazards` the lines where
each difficulty bites.

| Component (src/) | State | Operations | Interaction | Hard behaviour | Correct when |
|---|---|---|---|---|---|
| popen, `15-ipc/4-popen` | `childpid[]`, descriptor tables of parent and children, pipe ends | `popen_l`, `pclose_l`, the child up to `execl` | pipes, `waitpid`, the caller's own `open`, `close`, `wait` | overlapping streams inherit each other's ends; descriptors are reused; one of `pipe`, `fork`, `fdopen`, `fclose` fails | table and streams agree; a command holds no foreign end; `pclose_l` returns, with the status of its own child |
| daemonize, `13-daemon/2-coderule` | session, controlling terminals, descriptor tables of three generations | two forks, `setsid`, `SIGHUP` ignored, descriptors closed and reopened | terminal driver, process groups | hang-up or death between two steps; limits on descriptors | the daemon has no terminal, can get none, and has nothing inherited open |
| single instance, `13-daemon/4-single` | the lock on and the content of `daemon.pid` | `already_running`, `lockfile` inside `daemonize` | record lock, file | races of copies, death between truncation and write | one daemon; the file names it; nobody is refused by a dead one |
| record locks, `14-advanio/2,3,4` | lock table, sleepers | `lock_reg` and the macros, `lockabyte`, main of each | shared file, fork, close | opposite orders, release by closing another descriptor, end of file that moves | no deadlock, locks where the comments say they are |
| mandatory locks, `14-advanio/5` | lock and length of the file, results of the child | main: truncate, lock, fork, the child's `read` | file, second run | a run that is refused the lock has already emptied the file | one run forks; the child's refusals come from its parent |
| non-blocking writes, `14-advanio/1` | `O_NONBLOCK` of one open file, `ptr`, `ntowrite` | `set_fl`, `clr_fl`, the write loop | another run with the same standard output | flags read and written in two steps; partial writes and `EAGAIN` | all written in order, and it blocks again |
| select, vectors, mapping, `14-advanio/6,7,8` | sets; pieces of the two buffers; offset and mapping | one call after the other | file, terminal | sets that `select()` has changed; short reads; a file that is cut after `fstat()`, or is both input and output | the second call sees input; output is input |
| condition variable, `11-thread/10-cond` | `state`, mutex, waiters | two threads and main | `pthread_cond_*` | lost, stolen and spurious wake-ups, `state` set outside the mutex | all waiters leave, and for the right reason |
| signal thread, `12-thrctl/8-thrsig` | `quitflag`, masks, pending signals | `thr_rtn`, main | `sigwait`, condition variable | signals before, during and after the wait | main misses no wake-up and is not killed while it listens |
| fork handlers, `12-thrctl/9-thrfork` | two mutexes in two processes | `prepare`, `parent`, `child`, two threads | `fork` copies locks | fork while another thread holds a lock | child never inherits a lock it cannot release |
| waiting for a signal, `10-signal/16,17` | mask, pending set, flag | main and handlers | kernel delivery | signal between test and wait | none lost, none too early |
| sleeps, `10-signal/8,9` | alarm, handler, mask, `jmpbuf` | `sleep1`, `sleep2` | `alarm`, `pause`, `longjmp` | alarm before `pause`, jump across another handler, mask left behind | returns, with a true remainder |
| jumping handlers, `10-signal/15` | two jump buffers and flags, stack of handlers | `sig_usr1`, `sig_usr2`, `sig_alarm`, main | `siglongjmp`, `longjmp` | signals before the buffer is set, nested handlers | no jump without buffer; mask as before |
| uptime over TCP, `16-netipc/12,13` | listen queue, connections, server processes | `serve` (two versions), `connect_retry`, `print_uptime` | sockets, fork, exec | server that dies or leaves, failing exec, inherited connection | whole answers, everybody ends |
| uptime over UDP, `16-netipc/14` | datagrams in flight, alarm | client and server | network | loss, duplication, delay, alarm too early | client ends; answers go to requesters |
| unique connections, `17-advanipc/3` | names in the file system, listen queues | `serv_listen`, `serv_accept`, `cli_conn` | file system, UNIX-domain sockets | names that outlive processes, pids used again | the server learns the right user |
| threads that begin and end, `11-thread/2-4,6`, `12-thrctl/1,2,10` | `arg`, detached or not, who has ended | thread functions and main of each | `pthread_create`, `join`, `detach`, `pread`, `exit` | the process ends before its thread; a join of a detached thread; a structure on the stack of a thread that is over | a join has seen the end; a thread reads its own offset |
| semaphore, `15-ipc/9-semaph` | value, adjustments, id under the key | `semget`, `SETVAL`, `semop`, `IPC_RMID` | other runs with the same key | a second run resets or removes, a process is killed inside | turns kept, no unit lost |
| system, `8-process/11-System` | child, status | `System()` | `waitpid`, other children of the caller, `SIGCHLD` | interrupted wait, another child that ends first, `SIGCHLD` ignored | own status, no child left |
| double fork, `8-process/6-waitpid` | three processes, who is whose parent | main | `fork`, `waitpid`, adoption by init | orphan before or after it asks for its parent | no zombie, the program reaps its one child |
| fork, exec and their like, `8-process/2,3,5,8,10,14-16` | image of parent and child, unwritten text of stdout, statuses | main of each, `pr_exit`, `do_cmd` | memory that is copied or shared, `execvp`, `wait`, `times` | text that is written twice, a `SIGCHLD` that is ignored, `vfork` that lends the memory, an exec that fails | each status is shown once, for its own child |
| shell, `1-overview/6,9` | prompt, the present child | read, fork, exec, wait; `sig_int` | terminal | interrupt characters at every moment, a failing exec in a child that has a copy of the prompt | commands are reaped in order; an interrupt ends the command |
| coprocess, `15-ipc/6-copro` | two pipes, their ends | `copro.c`, `add2.c` | pipes, `SIGPIPE` | an end left open, a process that dies, a request without bytes | answers in step, nobody left waiting |
| message queue, `15-ipc/8-msgqueue` | the queue of a key | `msgsnd.c`, `msgrcv.c` | System V queue that outlives its users | types asked in the opposite order, leftovers, a full queue | each message taken once, the oldest of its type |
| FIFO, `15-ipc/7` | the name, opens that wait, lines in it | `fifo.c`, `wfifo.c` | `mkfifo`, `open`, `read`, `write`, `unlink` | open that waits for the other end; a reader that ends between two writers; a name removed under a run | lines once and in order; nobody waits with both ends open |
| shared files, `3-fileio/8-sharing,9-atomic` | offsets, bytes of the file | a.c, b.c of each | one file | separate offsets overwrite each other | O_APPEND loses nothing |
| dup2, `3-fileio/18-dup2` | descriptor table | `dup2_l` | `dup`, `close`, limit | failure in the middle | the same as `dup2()` |
| mutex and reader-writer lock, `11-thread/7,9` | locks, `number` | two threads and main | `pthread_mutex_*`, `pthread_rwlock_*` | unlocked writes, a read lock left behind | who has a lock finds what it left; unlock what one has |
| out-of-band data, `16-netipc/16-oobdata` | stream with its urgent mark, owner of the socket, `n`, `errno` | `send_data`, `recv_data`, `sigurg` handler | TCP urgent pointer, `SIGURG` | the urgent byte comes before `F_SETOWN`, during a read, or twice | stream and urgent bytes in order, the server ends |
| binding programs, `16-netipc/9,10,11,15`, `17-advanipc/2` | one TCP port, its queue, `TIME_WAIT`; one name in the file system | `initserver`, listen and accept, `connect_retry`; `bind`, `unlink` | several runs, callers | a run that is killed or closes first; an error path that goes on; a name left behind | refused only for a cause that exists; nobody loses a connection |
| passing descriptors, `17-advanipc/4` | one connection, messages with a right or a status | `send_fd`, `send_err`, `recv_fd`, connect over the addresses | UNIX or TCP sockets | the server serves one and ends; a queue that is dropped; a message without a right | one receiver per start; each is answered or told |
| pseudo terminals, `19-pseudo` | masters and slaves, `TIOCSPTLCK`, the buffer of the name | `ptym_open`, `ptys_open`, main of `openpt.c` | several openers | a failure after the master was opened; a name that is cut off | own slave; a failure keeps nothing |
| thread-safe environment, `12-thrctl/5,6` | mutex, once control, buffers | `getenv_l`, `getenv_r_l`, `thread_init` | `pthread_once`, keys and destructors | initialisation races with use; `malloc()` fails inside | each thread prints from its own live buffer |
| cancellation and clean-up, `12-thrctl/7`, `11-thread/5` | cancel types, handler stacks, lock of stdout | three thread functions and main of each | `pthread_cancel`, `pthread_exit` | cancellation in the middle of `printf()`; a frame that is gone | handlers in reverse order, once; threads end |
| alarms and waits, `10-signal/7,10,14` | alarm, mask, handler flags | main and handlers of `alarm.c`, `alarmread.c`, `sigaction.c` | `alarm`, `pause`, `read` | alarm before the wait; a `read()` that is restarted | one handler call per alarm that was not replaced; `alarm(0)` in time |
| reentrancy, `10-signal/3` | the lock and the static buffer of `getpwnam()` | main, `my_alarm` | `getpwnam`, `alarm` | the handler interrupts the function it calls | stuck or wrong only where the comment says so |
| pending signals and kill, `10-signal/13,5` | pending set, saved mask; a child and its zombie | main and handlers of `sigpend.c`, `usekill.c` | `sigprocmask`, `kill`, `waitpid` | several signals while blocked; signals before `pause()`; a pid used again | handled once; a child is found until it is reaped |
| orphaned group, `9-procship/5` | stopped child, foreground group of the terminal | parent, child, `sig_hup` | the shell, job control | the parent ends before or after the child stops | the child survives its `SIGHUP` and does not stay stopped |
| password, `18-termios/13-canon` | echo, mask, buffer | `getpass_l`, `clearpass_l` | terminal, its signals, the user | a signal or typing between any two calls | echo and mask given back; nothing shown |
| special characters and flags, `18-termios/4,5,7,8` | settings of the terminal, their copy, keys typed | set, try, restore in twenty programs | the terminal, the next program on it | a run that is killed or stopped between set and restore; input typed under other settings | settings back; no old input read; every wait can end |
| pipe and pager, `15-ipc/1,2` | ends of one pipe in two processes | parent and child | pipe, `SIGPIPE`, the pager's user | the pager quits early or cannot be executed; an end left open | lines in order and then their end; both end |
| file tree walk, `4-filedir/26-myftw` | one path buffer, open directories, counters | `myftw`, `dopath`, `myfunc` | the file system, changed by others | files move between `readdir`, `lstat` and `opendir`; too many open directories | every file that stays is counted once |

Not modelled, and why: the programs that print the result of one call (most of
`3-fileio`, `4-filedir`, `5-stdio`, `7-proenv`, `16-netipc/1-8`, the rest of the attribute
programs of `12-thrctl`, `getids.c`, `getlogin.c`) keep no state between calls. The other
flag programs of `18-termios` have the three stages of the twenty that Terminals has,
with another flag. `race.c` promises nothing about the order of its two outputs.
`socketpair.c` exchanges two messages that cannot cross. What `longjmp()` does to
automatic variables (`7-proenv/9-longjmp`) depends on the optimiser. Sorting
(`1-overview/2-sortls`), `preadaw.c`, `dup.c` and the log mask of `syslog.c` are
sequential and have no order of events to explore. The note of each component in
`PROJECT.json` says which reason applies.

## 2. Plan and order

The order follows how much can go wrong: first processes and what they inherit
(popen, daemonize, single instance), then threads, then signals, then network
programs, then the smaller shared objects.

1. **Core**: Popen with PopenSpec; Daemonize, SingleInstance and Exclusive;
   CondWait, ThreadSignal, ThreadLocks, Getenv; UptimeClient with
   UptimeServer and UptimeForkServer, UptimeDatagram; RecordLocks with LockRules,
   Semaphore; UniqueConn; Signals with BlockedSignals, SleepAlarm,
   AlarmWait and SigJump; SignalledChild; ChildProcesses, Pipes, SharedFile with
   AppendLog, FileTreeWalk.
2. **Families of smaller programs**, one module for the programs that use the same kernel
   object: LockRules, FileIo, SocketPrograms, the queues of Pipes, ThreadLife, ForkExec,
   Terminals. Five suites run everything that is not checked by
   itself.
3. **Proofs**, one module each: SingleInstance, Popen (with the refinement of PopenSpec),
   UniqueConn, and the suites ThreadPrograms, FilePrograms, ProcessPrograms, NetworkPrograms and
   SignalPrograms. None of these modules has a RECURSIVE operator, their parameters are constants,
   and their type invariants are written per process so that they are inductive or nearly so.

## 3. Modules and the code they model

A process is a program counter in `pc` (or `main`, `thr`, `cl`, `srv`); each
value names the call that is executed next. One action is one system or library
call with the code up to the next one, because that is the unit in which other
processes can see it. What the kernel or the C library does is modelled from the
way the code uses it and marked external in the map.

| Module | Code | Correspondence |
|---|---|---|
| Popen | `popen.c` | `childpid[]` is `childpid`; `fdt` and `kid[c].fds` are the descriptor tables; call, child and pipe of the c-th `popen_l()` share the number c; actions `PopenPipe`, `PopenFork`, `PopenParent`, `ChildPlumb`, `ChildCloseStreams`, `PcloseBegin`, `PcloseFclose`, `PcloseReap` and their failing variants |
| PopenSpec | contract of `popen()` | a stream and a command per call; Popen implements it (refinement in `Popen!Abstract`) |
| Daemonize | `daemonize.c` | process `<<l, g>>` is generation g of launch l; actions `Fork1`, `Setsid`, `IgnoreHup`, `Fork2`, `CloseAll`, `OpenNull`, `CheckFds` |
| SingleInstance | `single.c` | INSTANCE of Daemonize plus `OpenLockFile`, `Lock`, `AlreadyRunning`, `Truncate`, `WritePid`; death releases the lock |
| Exclusive | mutual exclusion | abstract specification implemented by SingleInstance |
| CondWait | `cond.c` | `thr_rtn1`, `thr_rtn2` and main; `blocked` is the queue of the condition variable |
| ThreadSignal | `thrsig.c` | thread, main, pending signals; default action when unblocked |
| UptimeClient, UptimeServer, UptimeForkServer | `12-sendrecv`, `13-othersrv` | a connection is a record of sent and read pieces and its end; the servers extend the client |
| UptimeDatagram | `14-connless` | `net` is the set of datagrams in flight; taking one may leave it there (duplication) |
| RecordLocks | `lock_reg()` and the kernel's table | INSTANCEd by the programs that lock bytes |
| LockRules | `filelock.c`; `implyIR.c`, `lockEOF.c`, `mandlock.c` | several launches on one file, processes `<<l, "parent">>` and `<<l, "child">>`; `off` is the file offset that parent and child of `lockEOF.c` share, `text` the length of the file of `mandlock.c` and `holder` who has the lock of the whole of it |
| FileIo | `nonblock.c`, `select.c`, `rdwrv.c`, `mmap.c`, `dup2.c`; `openpt.c`, both `ptym_open.c` | `nonblock` is the flag of the open file, `val` what `F_GETFL` gave each run, `todo` is `ntowrite`; `stream` and `taken` are the pipe and what was read from it; `rset` the set that `select()` changes; `pieces` the lengths in the `iovec`; `map` the step of `mmap.c` with `statsize` and the files; `fd` the array of `dup2_l()`; of the pseudo terminals `step` is the call each opener is at, `room` the size it gives for the name, `master`, `slave`, `pname` what it has open and the name it was given, `locked` the slaves that are still locked |
| UniqueConn | `cli.c`, `srv.c` | a name is a record of who bound it, whether its mode was set, and whether it is older than `STALE` |
| Signals | delivery, masks, pending set, stack of handlers | extended by the signal programs |
| BlockedSignals, SleepAlarm, SigJump | `waitsig.c`, `critical.c` and `sigpend.c`, `sleep1.c` and `sleep2.c`, `sigsetjmp.c` | `frames` is the stack of running handlers with the masks they restore; `oldmask` is the mask that `sigpend.c` has saved, `raised` counts its calls of `raise()`, `seen` is what `sigpending()` told |
| Semaphore | `semaph.c` | `undo` is the adjustment of each process, `reset` remembers which semaphore another run has disturbed |
| ChildProcesses | `System.c` with `useSystem.c`; `waitpid.c` | one pc per process (`pc`, `child`; `at`), `parent` is who would have to wait for each |
| Pipes | `copro.c` and `add2.c`; `pipe.c`, `pager.c`; `msgsnd.c` and `msgrcv.c`; `fifo.c` and `wfifo.c` | `holds` are the pipe ends of each process; `program` tells `pipe.c` from `pager.c`; `queue` are the messages in order; `name` is the FIFO behind the name, `opened` who has which FIFO open or waits for its other end, `line` what is in it |
| ForkExec | `fork.c`, `vfork.c`, `wait.c`, `zombie.c`, `proctime.c`, `exec.c`, `execlp.c`, `interp.c`; `myshell.c`, `signals.c` | `program` tells which; `image` is the memory of each process with the text its stdout holds, `main` and `kid` what they do next, `round` the child they are at; `out` what was written; `clock` is `tms_cutime` |
| FileTreeWalk | `myftw.c` | `frames` are the activations of `dopath()` with their `ptr`, `fullpath` the buffer as a sequence of components; `counted` counts per file what the seven counters count per type |
| SharedFile, AppendLog | `8-sharing`, `9-atomic` | `offset` of each descriptor; with O_APPEND it implements the log of AppendLog |
| AlarmWait | `alarm.c`, `alarmread.c`, `sigaction.c`; `reentrant.c` | `prog` tells which of them runs, as in SleepAlarm; `input` is what the terminal has, `n` the result of `read()`; `holder` has the lock inside `getpwnam()`, `result` is its static buffer |
| SignalledChild | `usekill.c`; `orphan.c` | `main` or `parent` and `kid` are the two processes, `answers` what each `kill()` told, `recycled` a new owner of the pid, `fg` the group that has the terminal |
| Terminals | `canon.c`; twenty programs of `4-input`, `5-disable`, `7-optflag`, `8-baudrate` | for `canon.c` `queue` is what was typed and whether it was shown, `echo` and `oldterm` the terminal's flag and its copy, `osig` the saved mask. Each other program is a sequence of stages (`Cr`, `Intr`, ..., `Mintime`: get, set, run a command, read, restore), `at` its stage, `term` the settings of the terminal, `local` and `oldterm` the variables of main(), `cmd` what `system()` runs |
| ThreadLocks | `rwlock.c`; `mutex.c`; `thrfork.c` | `readers` and `writer`; `holder`; `lock` are the lock tables of parent and child, with the handlers as actions |
| ThreadLife | `create.c`, `exitjoin.c`, `errexit.c`, `detach.c`, `attr.c`, `thrio.c`, `mutexatt.c`; `cancel.c`, `cancelup.c` | `begun` tells which of the first seven runs, `told` is what each thread has printed or read, `codes` what main() has; `type` is the cancelability type; `stack` are the handlers pushed, `ran` those run |
| Getenv | `thrsafe.c`, `thrspec.c` | the constant `Specific` chooses; `once` is the once control, `buf` the buffer of each thread |
| SocketPrograms | `oobdata.c`, `oobsrv.c`; `initserver.c`, `listenap.c`, `9-bind/bind.c`, `connect.c`; `nameing.c`; `send_fd.c`, `recv_fd.c` | `wire` and `stream` are bytes sent and received, `mark` the urgent one, `handler` the frame of the signal handler; `sock` is the socket of each run that binds, `backlog` its queue, `peer` the connection of each caller; the name of `nameing.c` and who has bound it; the connections of the receivers of a descriptor |
| SingleInstanceProofs, PopenProofs, UniqueConnProofs, ThreadProofs, FileProofs, ProcessProofs, NetworkProofs, SignalProofs | proofs about the modules they extend (ThreadProofs: about ThreadPrograms, FileProofs: about FilePrograms, ProcessProofs: about ProcessPrograms, NetworkProofs: about NetworkPrograms, SignalProofs: about SignalPrograms) | see section 5 |
| ThreadPrograms, SignalPrograms, FilePrograms, NetworkPrograms, ProcessPrograms | the suites | see below |

A suite chooses one program in its initial state (`prog`), INSTANCEs the module of
each program, and takes that module's steps while the variables of the others keep
their first values. Its properties are implications from `prog`, one conjunct for
each program, so that one run of TLC checks a family of programs without their
state spaces being multiplied. The liveness property of a suite is one leads-to formula,
`MustEnd ~> HasEnded`, whose sides name the program: as `prog` never changes, it says the same
as one formula for each program, and TLC has one tableau to explore. Each component module keeps its own `Spec`,
`FairSpec` and properties and can be read, or run, without its suite. Where one module
has several programs their definitions carry a prefix (`RwInit`, `MutexInit`), and each
specification constrains the variables of its own program only.

## 4. Runs

`violation` runs check one sentence of a comment of the repository that the code
does not keep; `PROJECT.json` quotes it under `findings`.

| Run | Module | Expect | Properties | Shows |
|---|---|---|---|---|
| `popen` | Popen, `Popen.cfg` | pass | `TypeOK` `ChildrenTracked` `NoInheritedStream` `CommandOnPipe` `ImplementsPopenSpec` `PcloseReturns` | Overlapping popen_l() calls with their children, deaths of commands, failures of pipe(), fork() and fdopen(), interrupted waits and descriptors reused by the caller: streams and children stay matched, and waiting for one command never depends on another. |
| `single_instance` | SingleInstance, `SingleInstance.cfg` | pass | `TypeOK` `OneDaemon` `PidFileNamesDaemon` `DaemonDetached` `RefusedByTheLiving` `ImplementsExclusive` | Three launches that become daemons and race for the lock file, with a terminal that may hang up, failing open() and processes that may die anywhere. |
| `threads` | ThreadPrograms, `ThreadPrograms.cfg` | pass | `TypeOK` `WokenForCause` `LocksKept` `ThreadsEnd` | Every interleaving of cond.c with timeouts and spurious wake-ups, of thrsig.c with up to three signals at any moment, of the fork of thrfork.c with a thread that holds a lock, of the lock users rwlock.c and mutex.c, of both getenv() replacements, of threads that are cancelled and clean up, and of threads that are made detached, joined, or use what main() has left. |
| `signals` | SignalPrograms, `SignalPrograms.cfg` | pass | `TypeOK` `NoSignalMissed` `MasksKept` `WaitsEnd` `OnlyAllowedEffects` | Up to four signals at any moment of waitsig.c, critical.c, two calls of sleep1(), one of sleep2() and sigsetjmp.c, with handlers nested in every order and jumps out of them; the alarms of alarm.c, alarmread.c, sigaction.c and reentrant.c at every moment; sigpend.c with blocked signals, usekill.c with a pid that is used again, the orphaned group of orphan.c, and getpass_l() with a user who types and signals that kill or stop it, and two runs of the programs that change a setting of the terminal, whatever the first one leaves. |
| `files` | FilePrograms, `FilePrograms.cfg` | pass | `TypeOK` `FilesKept` `GrantedForCause` `NobodyWaitsForever` | Two runs at once of filelock.c, implyIR.c, lockEOF.c and mandlock.c on one file, of semaph.c on one key, of nonblock.c on one pipe and of the openers of pseudo terminals, with deadlock detection, failing calls and deaths anywhere; select.c, rdwrv.c, mmap.c with a file that is cut short, and dup2_l() on every table of four descriptors. |
| `network` | NetworkPrograms, `NetworkPrograms.cfg` | pass | `TypeOK` `AnswersReachClients` `NothingLeftOver` `RefusedForCause` `ProgramsEnd` | Two clients of uptime that connect, retry, read in pieces and die against servers that answer themselves, fork, or answer by datagrams that are lost, doubled and late, with crashes, restarts and failing calls; the urgent bytes of oobdata.c at every moment of oobsrv.c; runs of the programs that bind one port or one name, which are killed and started in every order; and two receivers of a descriptor. |
| `unique_conn` | UniqueConn, `UniqueConn.cfg` | pass | `TypeOK` `UserOfConnection` `TurnedAwayForCause` `ClientsEnd` | Two clients, whose pid may be recycled, and two servers that take each other's name; names that grow old or are left behind, deaths at any step. |
| `processes` | ProcessPrograms, `ProcessPrograms.cfg` | pass | `TypeOK` `ChildrenAccounted` `NothingLost` `CallsKeepPromises` `ProcessesEnd` `ImplementsAppendLog` | System() with failing and interrupted calls, the double fork of waitpid.c, copro.c and add2.c with deaths of either, two senders and two receivers on one queue, two writers of one file with separate offsets or O_APPEND, a tree walk while another process renames and removes files, and pipe.c and pager.c with a full pipe and a reader that quits, readers and writers of one FIFO that come and go, and the programs that fork, vfork, wait, exec and run commands. |
| `popen_flush` | Popen, `PopenFlush.cfg` | violation | `PcloseAfterTermination` | A failed fclose() makes pclose_l() return while the child is running. |
| `uptime_fork_std` | UptimeForkServer, `UptimeForkStd.cfg` | violation | `StdOnSocket` | The second dup2() puts the connection on descriptor 0 instead of 2. |
| `uptime_datagram_alarm` | UptimeDatagram, `UptimeDatagramAlarm.cfg` | violation | `NeverBlocksForever` | An alarm that rings between alarm() and recvfrom() leaves the client blocked for ever when the answer is lost. |
| `sleep2_twice` | SleepAlarm, `SleepAlarmTwice.cfg` | violation | `ReturnsOnAlarm` | A second call of sleep2() never returns: longjmp() left SIGALRM blocked. |

### Bounds

Bounds are constants of the `.cfg` files or guards named `Max...`.

* Two launches (three for SingleInstance) are enough for one to disturb the other
  and for a third to find what a dead one has left; each launch already has two
  or three processes. SingleInstance, Popen, UniqueConn, Semaphore and the programs of
  NetworkPrograms hold for any number of launches, calls, clients, servers, runs, callers
  and receivers, and for any bound of this list that is theirs, by proof; so do the programs
  of SignalPrograms for any number of signals, sleeps, keys and runs.
* `MaxCalls = 2` in popen: one stream to inherit and one that inherits it, or one
  that reuses the descriptor and the slot of a stream that was closed. `MaxFd = 6`
  leaves exactly the descriptors that two open pipes and one open by the caller
  need, so that running out of descriptors happens too.
* `MaxSent` signals (3 or 4): one before, one during, one after the wait, and one
  that arrives while another of the same kind is pending and is merged.
* `Chunks = 2` pieces of an answer: a server can die between them. `QLen = 1`: the
  queue of the listening socket can be full with two clients. `MaxStarts`: a
  server that comes back for the second client, and once more.
* `MaxKeys = 3` keys wait at the terminal, as many as MIN of `mintime.c`. `MaxRuns = 2`: one
  program that leaves something behind and one that finds it. The second is one of
  `Later`, which has each kind of wait: a read that only an end of file ends, a
  command that only a signal ends (`yes`), and one in both modes.
* `Backlog = 1` and one caller for two runs on one port: the queue can be full, and the
  caller meets either. `Addresses = 2`: a receiver has a second address to try, and no third.
* `Space = 2` bytes in the pipe for `MaxBytes = 3`: a write is partial, then would block.
* `Ptys = {1, 12}` and `Sizes = {11, 20}`: a number of one digit and one of two, a buffer
  that holds the name of the first only, and one that holds both.
* `FifoSize = 1`, one reader and two writers with `MaxGiven = 2` lines: a writer waits for
  room, and the reader sees the end of the FIFO between the two.
* `MaxCommands = 2` children of the programs that fork: the second finds what the first left.
* `MaxPass = 2` and `MaxTyped = 4`: a password that does not fit, or characters typed
  before the echo is off and after it is on again. `PipeSize = 2` with three lines:
  the parent waits for its pager, and may find it gone.
* `Sleeps = 2` calls of sleep1(), `Calls2 = 2` of sleep2() in `sleep2_twice`: the second meets the mask and handler the first left.
* `MaxType = 3` and `Room = 6` scale the seven types and the fifteen or so messages of
  the queue: two senders and what an earlier one has left just fit, or just do not.
* `MaxTable = 4` descriptors, every subset of them open, every limit: enough for a
  wanted number below, between and above the free ones (`dup2.c`).
* `MaxOpen = 2` and `MaxChanges = 2`: a directory and one below it can be read at once,
  so that a walk led through a link runs out of descriptors; two changes can move
  a directory away and put a link in its place.
* Servers are never restarted for ever, and names grow old at any moment: time is
  not counted, a timeout or an alarm may happen whenever it is running.

### Fairness

Weak fairness of each process (one action per process, so a process that can
take its next step takes it) stands for the scheduler. A blocking call is an
action that is disabled until it can return. Strong fairness is used for
semop() in Semaphore and for the mutex in ThreadSignal: these queues are FIFO (or
close to it) in the kernel, and a waiter is not passed over for ever. Killing,
failing calls, hang-ups, spurious wake-ups, loss of datagrams and arriving signals
are never fair: they may happen and need not. Alarms are fair: a running
timer rings. A command that was started may run for ever unless its stream hangs
up; a pager goes on as long as there are lines, and quits only if its user likes.
The pipe of `nonblock.c` is read (`Drain`). No user is fair: a key that would end a wait
need not be pressed, so `WaitsEnd` asks only that a stage that waits for nobody, or that
has its end of file, is left, and `NotLockedIn` that there is a key at all.

`CHECK_DEADLOCK FALSE` is set in all runs: these are programs that end, and the
final state of all processes is a state without successor.

## 5. What is proved

`SingleInstanceProofs.tla`, for every set of launches, every set of inherited
descriptors and every limit:

* `TypeCorrect`: `Spec => []TypeOK`;
* `SingleDaemon`: `Spec => []OneDaemon`, at most one copy is past `lockfile()`, and
  it has the lock;
* `PidFileCorrect`: `Spec => []PidFileNamesDaemon`, the file holds the pid of the
  copy that runs;
* `Refused`: `Spec => RefusedByTheLiving`, the property of steps that a copy gives
  up only while another is alive with the lock;
* `Implements`: `Spec => ImplementsExclusive`, refinement of Exclusive.

The inductive invariant `IInv` is `TypeOK`, `OneDaemon` and `PidFileNamesDaemon`
with two facts they need: who owns the lock is running (a dead process owns
nothing, which the action that ends a process has to re-establish), and between
`ftruncate()` and `write()` the file is empty and nobody else may write. The proof
has one lemma per kind of step: most steps of `daemonize()` change neither lock
nor file (`Calm`), the file steps are taken by the owner only (`FileStep`), and
deaths release. The theorems rest on the assumptions of the constants in the
modules (`NoProc` and the marks of the file are not processes) and on nothing
else.

* `Detached`: `Spec => []DaemonDetached`, if every inherited descriptor is below `CloseLimit`.

`Detached` needs an invariant about sessions and descriptors instead (`CutOff`, with
`DetachedOf` for each launch): the only session that ever has a terminal is that of the login;
the second process is the leader of a session of its own, in which the third is born without
being its leader; and the table of the third process is followed from the closing loop, over
the three `/dev/null`, to the one descriptor of the lock file. It states as its hypothesis that
nothing was open at the start above the limit of the loop, because the code closes no further
(section 6).

`PopenProofs.tla`, for tables of any size, any number of calls, of failures and of deaths:

* `TypeCorrect`: `Spec => []TypeOK`;
* `Tracked`: `Spec => []ChildrenTracked`, `childpid[]` names the streams and children that
  are there;
* `NotInherited`: `Spec => []NoInheritedStream`, a command holds no end of a pipe but its own
  and those that an earlier `popen_l()` leaked when it failed after `pipe()`;
* `OnPipe`: `Spec => CommandOnPipe` if the program starts with 0 and 1 open: a command that starts has
  its pipe on descriptor 0 or 1 (with these closed the code does not do it, section 6);
* `WaitedFor`: a `pclose_l()` that returns a status, or finds no child, leaves none of its call
  unreaped;
* `Refinement`: `Spec => ImplementsPopenSpec`.

The inductive invariant has one part for the parent and one for the children. In the parent
every end of a pipe that is open has a reason (`EndsAccounted`): it is the stream of its
own entry of `childpid[]`, a leak of a failed call, or about to be closed by the call under
way. A child between `fork()` and `execl()` has in its copy of the table only its own
pipe, what its copy of `childpid[]` still has to close, and leaks (`TableOf`); from that,
`CleanOf` follows when the loop has closed them. The refinement maps the result of each call and
the state of its child; `StepSimulated` says which step of PopenSpec, or which stutter, each
of the steps is. What the invariant needs from the constants is `PopenAssumption`.

`UniqueConnProofs.tla`, for any number of clients, servers and pids, and however often a pid
comes back:

* `TypeCorrect`: `Spec => []TypeOK`;
* `RightUser`: `Spec => []UserOfConnection`, the user `serv_accept()` returns is that of the
  client it has accepted, unless its pid was used again meanwhile;
* `TurnedAway`: `Spec => TurnedAwayForCause`, no leftover of a dead client turns away another.

Here the invariant says whose file is under a name: from `bind()` until a server has
removed it, it is that of the client whose pid makes the name, unless that pid has been used
again (`OwnName`), and two clients that matter at once have the same pid only if both are
recorded as such (`SharedPid`). A living client has its pid alone (`OnePid`), and
a client has at most one connection (`Links`). `UniqueConnAssumption` says that
`None` is neither a client nor a server.

`ThreadProofs.tla`, for the ten programs of the suite ThreadPrograms and any bound on the signals
(`MaxSentAssumption`: a natural number):

* `TypeCorrect`: `Spec => []TypeOK`;
* `WokenAlways`: `Spec => []WokenForCause`;
* `LocksAlways`: `Spec => []LocksKept`.

Each program has an inductive invariant of its own, and `IInv` takes that of the program that
runs. That of `cond.c` (`CondInv`) says who has the mutex at which step, and that with each
signal of thread 1 one of the two waiters has left the queue for good: a waiter that is
about to wait has found `state` still 0 with the mutex in its hand, so nothing was sent.
`SigInv` accounts for the signals (taken plus pending is at most sent) and follows the thread
that has taken a `SIGQUIT` until it has set the flag. `ForkInv` is what `prepare()`, `parent()`
and `child()` hold on their way. `RwInv` has the holders of the read and write lock, and that
only the failed `pthread_rwlock_tryrdlock()` leads to the unlock of line 134. `SafeInv` and
`SpecInv` tie the once control to the step of the thread that runs `thread_init()`.
`CleanupInv` gives for each step of each thread of `cancelup.c` its stack of handlers and those
it has run; its sequences are constants (`Handlers(n)`), and four lemmas about pushing
and popping replace any induction. `StartInv` has one part for each of the programs that create
threads and join, detach or leave them.

`FileProofs.tla`, for the eleven programs of the suite FilePrograms, any runs, descriptors, pseudo
terminals and sizes of names, and any number of bytes (`FileAssumption`: numbers are natural
numbers, the table of descriptors is not empty, and the words for nobody and nothing, `NoOne` and
`"closed"`, are nobody's name):

* `TypeCorrect`: `Spec => []TypeOK`;
* `FilesAlways`: `Spec => []FilesKept`;
* `GrantedAlways`: `Spec => GrantedForCause`, the action property.

`IInv` takes the invariant of the program that runs, as in ThreadProofs, and TLC checked it on the
run's instance too. The programs that lock bytes share `Locked`: what one process has for
writing nobody else has at all. `FileLockInv` adds which byte each step of a process has, and that
a sleeper sleeps for a byte of the process it waits for; so a victim of EDEADLK, who is on a
circle, is waited for. `ImplyInv` gives the lock of a parent from its lock to its `close()`. `EofRun`
says what each step of a run of `lockEOF.c` knows of the offset, the length and its locks, as long as
no other run has changed the length (`cut`). `MandText` gives the reason why a text may be gone: another
run is between its `open()` and its lock, or died there.

For `semaph.c` the property is far from inductive. A process that dies gives back its adjustment,
so the invariant has to say that the adjustment is what the process has taken: 1 inside and 0
elsewhere (`SemUndone`), but only on undisturbed semaphores, since another run's `SETVAL` clears
it. `SemBalanced` relates the value to whether somebody is inside, `SemAlone` says that this
is one process, `SemRemoved` that who needs a semaphore that is gone is counted as disturbed, and
`SemOrder` that a run has its id before it has a child. `SemAdjusted` bounds the adjustment by the
step a process is at on every semaphore, also on one that was set anew, and keeps the value from
falling below 0.

`Numbered` (`nonblock.c`) says of the pipe, with what was taken out of it, that the characters of a run are
numbered from 1 to what it has written, in order and each once; a lemma each keeps this when that run
writes, when another one writes, and when a character is taken. `VecInv` and `MapInv` follow
the lengths. `DupInv` says that while `dup2_l()` works, `newfd` is closed, every
number in `fd` was closed when the call began, and all else is as it was then (`DupKept`). That
`dup()` has a lowest free number rests on the well-foundedness of the natural numbers (`LeastExists`).
`OpenerRun` ties master, name and slave of each opener of a pseudo terminal to the call
it is at; no opener's invariant mentions another's.

`ProcessProofs.tla`, for the twelve programs of the suite ProcessPrograms and any number of
interrupts, lines, messages, commands, changes and open descriptors, any senders and receivers and
any readers and writers of the FIFO (`ProcessAssumption`: numbers are natural numbers, nobody is
at once what sends and what receives, the receivers are finitely many, and the words for an
earlier run and for no FIFO are nobody's name):

* `TypeCorrect`: `Spec => []TypeOK`;
* `ChildrenAlways`: `Spec => []ChildrenAccounted`;
* `NothingLostEver`: `Spec => []NothingLost`;
* `PromisesKept`: `Spec => CallsKeepPromises`, the action property;
* `AppendsOnly`: `Spec => ImplementsAppendLog`, the file of 9-atomic refines AppendLog.

`IInv` takes the invariant of the program that runs, as in ThreadProofs. `SystemInv` and `DoubleInv`
say what has become of each child at each step of its parent. `CoproTalk` says where the line is that was
read last: not written yet, in one of the pipes, or in the hand of `add2`; `CopyLines` numbers the lines of a pager,
first those it has read and then those in the pipe. In `QueueInv` every message that was sent
is in exactly one place, the queue or the hand of one receiver (`InOnePlace`), and what an earlier run has left
comes first. `FifoInv` has the lines of each writer in order, in the FIFO and with the reader
(`InOrder`, `Ahead`), and for each line given a reader that has it or still reads that FIFO
(`FifoCarried`). The lemmas about the shared file are for records of any size, with a write cut short anywhere: at
the end of the file the splice of `Written` is a concatenation, so the places of a
byte are a finite set that grows by one per record (`Kept`), and the offset of a writer that goes on is a multiple of
its record size, so that places in the file and places in the record agree modulo that size
(`InPlace`). `ExecInv` says of every text, written or still held in the memory of a process, which program
writes it and from which child on (`Known`), that its status was reaped (`Shown`), that its values are of
the right memory (`Valued`), and that a text is written or held twice only after a child that has a copy
was able to write it (`ExecOnce`). `WalkInv` ties the path in the buffer to the activations of `dopath()`
and says of each file that nobody disturbs that it was counted or that the walk has still to come to it
(`WalkLeast`), and, unless a link was followed, never both and at most once (`WalkMost`).

`NetworkProofs.tla`, for the seven programs of the suite NetworkPrograms, any clients, callers,
runs and receivers, and any size of an answer, of a queue and of the bounds on starts and forks:

* `TypeCorrect`: `Spec => []TypeOK`;
* `AnswersAlways`: `Spec => []AnswersReachClients`;
* `NothingLeftAlways`: `Spec => []NothingLeftOver`;
* `RefusedAlways`: `Spec => RefusedForCause`, the action property.

As in ThreadProofs, `IInv` takes the inductive invariant of the program that runs, and a lemma
for each says that a step keeps it. `ServerConns` tells apart who has not connected, who waits
in the queue and who is served: they are different clients, only the last has been sent
anything, and only a connection with a whole answer is closed. The clients that had a
whole answer are then a finite set that grows by one with each start at most
(`ServerCount`), which gives `OneAnswerPerStart`. For `13-othersrv`, `ForkProcs` says at which steps
a process has a connection open as `connfd`, that nothing is ever on descriptor 2 and that 0 is
what 1 is, and who may have a child; so every zombie has a server that waits for it
(`ZombiesAwaited`). `DatagramInv` ties the alarm to the step of
the client and each datagram to a client that has sent its request; `DatagramCount` counts those
a start has served. The invariant of `oobdata.c` is the longest. `OobWire` says what is still on
its way to the server; what was written, what `recv_data()` has in hand and what is in the stream are
sends, in this order and each once (`OobOrder`), and what was received is on that way, unless it is an
urgent byte that the handler has read, or that came before `F_SETOWN`, or the first one, discarded
for the second, which the handler has read or is about to (`OobKept`, `Noticed`, `LastTaken`). `OobFlags`
relates the pending signal, its handler, the urgent mark and `SO_OOBINLINE`, and `OobSteps` the
value of `errno` to the step of the loop. `PortSockets` gives for each step of a run that binds the port
what its socket can be, with one listener that alone has a queue; `PortQueues` and
`PortCallers` say what callers in and outside a queue have been told, and `PortKinds` that
only connections of `listenap.c` wait in TIME_WAIT. `NameInv` says that a run that has bound the
name of `nameing.c` and not removed it is the one that made it; `PassInv` that a receiver that waits
is connected, has been told nothing and is not the one that is served. What the constants have
to be is `NetworkAssumption`: the bounds are natural numbers, and the words for nobody (`None`, `"free"`, `"none"`, `"queued"`, `"reset"`) are nobody's name.

`SignalProofs.tla`, for the fourteen programs of the suite SignalPrograms and any bound on signals,
calls, keys, characters and runs (`SignalAssumption`: natural numbers, and at least one run):

* `TypeCorrect`: `Spec => []TypeOK`;
* `SignalsAlways`: `Spec => []NoSignalMissed`;
* `MasksAlways`: `Spec => []MasksKept`;
* `EffectsAlways`: `Spec => OnlyAllowedEffects`, the action property.

The programs with handlers share `Stack`, the invariant of the frames of running handlers: each
restores what `main()` has blocked and the signals of the handlers below it, and its own
signal is not among them. So the mask is always what `main()` has blocked (`MainMask`) and the
signals whose handlers run; entering a handler, returning, moving within one, and both ways
of jumping out are a lemma each, and the invariant of a program says what `MainMask`
is at each step of `main()`. To this `WaitInv` (`waitsig.c`) adds which handlers the flag tells of,
before the test and after it. `SleepInv` says that the alarm of a call has rung or is running, and
that the buffer of `sleep2()` is set whenever its handler can run. `JumpInv`
(`sigsetjmp.c`) puts each buffer before its flag and finds it set by every handler on its way
to a jump. `AlarmInv` counts: alarms that run, are pending or handled are those of `alarm()` and the
signals that were sent. `PwInv` ties the lock of `getpwnam()` to the step of who has
it. `PendInv` gives how many of the calls of `raise()` were merged. `KillInv` and `OrphanInv`
say who can still be there to be sent a signal. `PassInv` (`canon.c`) has the echo off, and
nothing visible in the queue, only while SIGINT and SIGTSTP are blocked. `ModesInv` is about
all programs of 18-termios at once: what differs from the settings found is
set by a stage before the present one (`ModesSettings`), and `WellStaged`, which each of the programs
is shown to have, says that they get the settings once before they set or restore any, and keep a key
that ends every wait. `IInv` takes the invariant of the program that runs, and was
checked by TLC on the run's instance before it was proved.

The run of each suite checks the same definitions on a small instance.

Left to TLC:

* liveness under fairness (`PcloseReturns`, `ThreadsEnd`, `WaitsEnd`, `NobodyWaitsForever`,
  `ProgramsEnd`, `ClientsEnd`, `ProcessesEnd`): the prover has no rule for `ENABLED`;
* the findings (a violated property is a trace, not a theorem).

## 6. Findings

Four sentences of comments are refuted by a run:

* `popen_flush`: `pclose_l()` returns before the child has terminated when `fclose()`
  fails (`popen.c:160` against the comment at 140-142).
* `uptime_fork_std`: the misplaced parenthesis of `13-othersrv/uptimesrv.c:134`
  duplicates the connection onto descriptor 0 instead of 2 (comment at 121-123).
* `uptime_datagram_alarm`: an alarm between `alarm()` and `recvfrom()` leaves the UDP
  client blocked for ever (`14-connless/client.c:82`, comment at 94-95).
* `sleep2_twice`: a second `sleep2()` never returns (`sleep2.c:9`, comment at 14-15).

Met while modelling, in the models as the code has it, and visible as exceptions in
the properties:

* `popen_l()` called with descriptor 0 or 1 closed: the child closes the pipe it has
  just put there (`popen.c:101-103`), so `Popen.cfg` starts with both open.
* The forking uptime server ends when a child falls out of `execl()`, and its
  client may wait (`ClientsEndUnlessFallen`).
* The child of `lockEOF.c` asks for the third byte where the comment says the second.
* `daemonize()` closes descriptors up to the present limit; one above a limit that was
  lowered stays open.
* `dup2_l()` keeps `fd[0]` open after a failed `dup()`: the loop at line 50 counts
  `--i > 0` (`FailureLeavesOne`).
* `rwlock.c`: when thread 1's `pthread_rwlock_tryrdlock()` succeeds before thread 2 asks
  for the write lock, thread 2 waits for ever and main joins it for ever; when it
  fails, main unlocks at line 134 a lock nobody has (`EndsUnlessLeft`,
  `OnlyMainMisuses`).
* `copro.c` waits for ever for the answer to a line that begins with a NUL byte,
  because the request then has no bytes.
* The loop of `recv_data()` in `oobsrv.c` ends because `write()` with a count of -1 sets
  `errno` to `EFAULT`; after a signal it goes on because `errno` is still `EINTR` (line 105).
* When both urgent bytes of `oobdata.c` arrive before the handler has read the first, and the
  first is next in the stream, the second discards it, as the comment of lines 85-87 says: it is
  lost to the handler and to the stream. `UrgentSeen` asks for it only when no later urgent byte was
  read. A first byte further back stays in the stream as an ordinary one.
* `nameing.c` (lines 62-64) says that a second run fails because the name is there. With the
  `unlink()` of line 85 that is so only while another run is under way, or after one that was
  killed (`NameOfOwner`).
* `getenv_r_l()` returns `ENOENT` on every path and `thrsafe.c` does not look at it: when
  USER is not set it prints a buffer nobody has written (`PrintsValue`).
* `cancel.c` can leave the lock of stdout with the thread it has cancelled, and thread 1
  then waits for ever (`EndsUnlessTorn`); `cancelup.c` keeps `tid3` alive only by a
  `sleep(1)` (`EndsUnlessLate`).
* `dopath()` looks at a name with `lstat()` and opens it with a slash behind it: a link that
  takes the place of a directory in between is followed, and files are counted twice
  (`EachCountedOnce`). When `opendir()` fails, `fullpath` keeps its slash (line 115).
* With leftovers of earlier runs two senders can fill the message queue before the
  type the receiver asks for first is in it; then everyone waits (`ServedUnlessFull`).
* `usekill.c` waits for ever when both `SIGUSR1` come before the child's `pause()`
  (`ReapsUnlessMissed`). Where `SIGCHLD` is ignored the child leaves no zombie, and the
  `kill(pid, SIGUSR1)` of line 135 may reach a process that was given its pid since.
* `sigpend.c` blocks with `SIG_SETMASK` and so unblocks for that time whatever else
  the mask had on entry; `SeenAndRestored` asks for the mask at the end only.
* `sigaction.c` ends its buffer at index `n - 1` whatever `read()` has told: after a failed
  or interrupted read this is before the buffer (line 72). The models do not follow
  memory further than that: `fifo.c` (line 64) ends a full buffer one byte behind it, `msgrcv.c` (line 47)
  gives `msgrcv()` the size of the whole message, type included, for its text, and `strcpy()` in
  `myftw.c` (line 122) has no limit for a long path; the models have lines, messages and paths that fit.
* `single.c` (lines 69 and 74) looks neither at `ftruncate()` nor at `write()`: when one fails the
  file may have an old pid or none. `PidFileNamesDaemon` is about calls that succeed, and about
  a death between them. In `myftw.c` an error of `readdir()` (line 117) looks like the end of a
  directory; the walk of the model reads its directories to the end.
* The child of `orphan.c` gets `EIO` only if the shell has taken the terminal back before it
  reads (line 75); otherwise it waits for a line (`KidReads`).
* `exec.c` sets `PATH` in the shell that `system()` starts (line 196): the child itself still has
  the old one, and `execlp()` finds the program in the current directory only if it
  was there before, against the comment of lines 185-186.
* `flusho.c` (line 27) hands `&oldterm` to `tcsetattr()`: `FLUSHO` is never set, against the
  comment at line 32.
* A flag program that is killed, or whose call fails, leaves its setting to the terminal.
  With `ISIG` and `ICANON` both gone the next program may have no key that ends it;
  `NotLockedIn` therefore starts from a terminal that has both.
* The second loop of `tabdly.c` and `inlcr.c` reads nothing where `getchar()` keeps the
  end of file of the first (glibc since 2.28).
* `mandlock.c` and `mmap.c` empty a file by `open()` before they have a lock, or know that
  input and output differ (`TextForCause`, `CopiedWhole`).
* `recv_fd.c` (line 56) takes the descriptor out of a buffer nobody has filled when the message
  had no control part; `send_fd.c` serves one receiver and ends, and the others are reset.
* `ptym_open()` copies as much of the name of the slave as there is room for: with eleven
  bytes `/dev/pts/12` becomes `/dev/pts/1`, which may be another's (`SlaveOfMaster`).
* A writer of the FIFO that comes when the reader has seen the end of the first one stays
  alone, or is killed by `SIGPIPE` (`LinesArrive`).
* `SIGQUIT` is not blocked by `getpass_l()` and leaves the echo off (`EchoRestored`).
