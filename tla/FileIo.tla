-------------------------------- MODULE FileIo --------------------------------
(***************************************************************************)
(* Programs that use descriptors in ways that need care: nonblock.c of     *)
(* 14-advanio/1-nonblock, which writes without blocking to a standard      *)
(* output that it shares with others, select.c (6-select), rdwrv.c         *)
(* (7-rdwrv), mmap.c (8-mmap), dup2.c of 3-fileio/18-dup2, and the pseudo  *)
(* terminals of 19-pseudo.                                                 *)
(***************************************************************************)
EXTENDS Integers, Sequences, FiniteSets

CONSTANTS Copies,  \* runs of nonblock.c
          MaxBytes,\* what a run of nonblock.c reads, and the size of the file mmap.c copies
          Space,   \* what the pipe of nonblock.c holds
          MaxTable,\* descriptors of a process, 256 in dup2.c
          Files,   \* what a descriptor may refer to
          Openers, \* processes that open a pseudo terminal
          Ptys,    \* numbers a new pseudo terminal can get
          Sizes    \* sizes of the buffer for the name of the slave

VARIABLES run,      \* copy -> what it does next
          nonblock, \* O_NONBLOCK of the open file that is standard output
          val,      \* copy -> the flags that F_GETFL gave
          todo,     \* copy -> ntowrite
          total,    \* copy -> what it has read
          stream,   \* what is in the pipe, and what its reader has taken
          taken,
          sel, rset, input, \* of select.c
          vec, size, pieces, \* of rdwrv.c
          map, same, infile, outfile, statsize, altered, \* of mmap.c
          table,  \* of dup2.c: the descriptors of the process
          limit,  \* its soft limit on descriptors
          before, \* the table when the call began
          args,   \* arguments of the call, or <<>> when there is none
          fd,     \* fd[0..i-1] of the code, as a sequence
          result, \* of the last call
          how,     \* of 19-pseudo: opener -> "openpt", "ptmx" or "bsd"
          room,    \* opener -> pts_namesz
          step,    \* opener -> index of its next call
          search,  \* opener -> index of the name that the search of BSD tries
          master,  \* opener -> the pseudo terminal whose master it has open
          slave,   \* opener -> the one whose slave it has open
          pname,   \* opener -> the slave that pts_name names
          ret,     \* opener -> "busy", what failed, or "fd"
          locked,  \* slaves that TIOCSPTLCK has not unlocked
          typed    \* opener -> what waits in the input queue of its slave

nonblockVars == <<run, nonblock, val, todo, total, stream, taken>>
selectVars   == <<sel, rset, input>>
vecVars      == <<vec, size, pieces>>
mapVars      == <<map, same, infile, outfile, statsize, altered>>
dupVars      == <<table, limit, before, args, fd, result>>
ptyVars      == <<how, room, step, search, master, slave, pname, ret, locked, typed>>

Ended == {"exit0", "exit1", "killed"}

------------------------------------------------------------------------------
(***************************************************************************)
(* nonblock.c.  The flags belong to the open file, which every process     *)
(* that has inherited the same standard output shares.                     *)
(***************************************************************************)

NonblockInit == /\ run = [c \in Copies |-> "read"] /\ nonblock = FALSE
                /\ val = [c \in Copies |-> FALSE]
                /\ todo = [c \in Copies |-> 0] /\ total = [c \in Copies |-> 0]
                /\ stream = <<>> /\ taken = <<>>

Goes(c, label) == run' = [run EXCEPT ![c] = label]

\* Line 69; an error gives -1, and the loop is not entered.
ReadInput(c) ==
  /\ run[c] = "read"
  /\ \E n \in -1..MaxBytes : /\ todo' = [todo EXCEPT ![c] = n]
                             /\ total' = [total EXCEPT ![c] = IF n > 0 THEN n ELSE 0]
  /\ Goes(c, "get") /\ UNCHANGED <<nonblock, val, stream, taken>>

\* The first half of set_fl() and cls_fl(): F_GETFL, which fails at once when there
\* is no standard output.
GetFl(c) == /\ run[c] \in {"get", "get again"}
            /\ \/ /\ val' = [val EXCEPT ![c] = nonblock]
                  /\ Goes(c, IF run[c] = "get" THEN "set_fl" ELSE "cls_fl")
               \/ run[c] = "get" /\ Goes(c, "exit1") /\ UNCHANGED val
            /\ UNCHANGED <<nonblock, todo, total, stream, taken>>

\* val |= flags, F_SETFL.
SetFl(c) == /\ run[c] = "set_fl"
            /\ val' = [val EXCEPT ![c] = TRUE] /\ nonblock' = TRUE /\ Goes(c, "write")
            /\ UNCHANGED <<todo, total, stream, taken>>

Fresh(c) == total[c] - todo[c]  \* what it has written

\* Mutant: what did not fit is counted as written.
Write_All(c) ==
  /\ run[c] = "write"
  /\ IF todo[c] <= 0 THEN Goes(c, "get again") /\ UNCHANGED <<todo, stream>>
     ELSE \E n \in 1..todo[c] :
            /\ n <= Space - Len(stream)
            /\ stream' = stream \o [i \in 1..n |-> <<c, Fresh(c) + i>>]
            /\ todo' = [todo EXCEPT ![c] = 0] /\ UNCHANGED run
  /\ UNCHANGED <<nonblock, val, total, taken>>

\* Lines 75-102: a write takes what fits.  One that fails with EAGAIN, or one that
\* has to wait because another process has cleared O_NONBLOCK, changes nothing.
Write(c) ==
  /\ run[c] = "write"
  /\ IF todo[c] <= 0 THEN Goes(c, "get again") /\ UNCHANGED <<todo, stream>>
     ELSE \E n \in 1..todo[c] :
            /\ n <= Space - Len(stream)
            /\ stream' = stream \o [i \in 1..n |-> <<c, Fresh(c) + i>>]
            /\ todo' = [todo EXCEPT ![c] = @ - n] /\ UNCHANGED run
  /\ UNCHANGED <<nonblock, val, total, taken>>

\* val &= ~flags, F_SETFL.
ClsFl(c) == /\ run[c] = "cls_fl"
            /\ val' = [val EXCEPT ![c] = FALSE] /\ nonblock' = FALSE /\ Goes(c, "exit0")
            /\ UNCHANGED <<todo, total, stream, taken>>

Drain == /\ stream # <<>> /\ taken' = Append(taken, Head(stream)) /\ stream' = Tail(stream)
         /\ UNCHANGED <<run, nonblock, val, todo, total>>

CopyKilled(c) == /\ run[c] \notin Ended /\ Goes(c, "killed")
                 /\ UNCHANGED <<nonblock, val, todo, total, stream, taken>>

Copy(c) == ReadInput(c) \/ GetFl(c) \/ SetFl(c) \/ Write(c) \/ ClsFl(c)

NonblockNext == Drain \/ \E c \in Copies : Copy(c) \/ CopyKilled(c)

NonblockTypeOK == /\ nonblock \in BOOLEAN /\ val \in [Copies -> BOOLEAN]
                  /\ todo \in [Copies -> -1..MaxBytes] /\ total \in [Copies -> 0..MaxBytes]
                  /\ Len(stream) <= Space

\* Lines 8-40 and 104: the flags are read and written in two steps by all who share
\* the open file, and yet it blocks again at the end, unless one was killed.
BlocksAgain == (\A c \in Copies : run[c] = "exit0") => ~nonblock

\* The bytes of c among others are the first n it has read, each once and in order.
InOrder(c, bytes, n) ==
  /\ {bytes[i] : i \in {j \in DOMAIN bytes : bytes[j][1] = c}} = {<<c, i>> : i \in 1..n}
  /\ \A i, j \in DOMAIN bytes :
       i < j /\ bytes[i][1] = c /\ bytes[j][1] = c => bytes[i][2] < bytes[j][2]

\* Lines 97-101: whoever ends has written all it read, once and in order.
AllInOrder == \A c \in Copies : run[c] = "exit0" => InOrder(c, taken \o stream, total[c])

\* And ends, as long as somebody reads the pipe.
CopiesEnd == \A c \in Copies : <>(run[c] \in Ended)

------------------------------------------------------------------------------
(***************************************************************************)
(* select.c.  A regular file is always ready; standard output may be, and  *)
(* standard input gets a line, or its end, at some time or never.          *)
(***************************************************************************)

SelectInit == /\ sel = "open" /\ rset = {} /\ input = FALSE

Type == ~input /\ input' = TRUE /\ UNCHANGED <<sel, rset>>

\* Lines 110-124.
OpenTemp == /\ sel = "open"
            /\ \/ sel' = "first" /\ rset' = {"stdin", "fd"}
               \/ sel' = "exit1" /\ UNCHANGED rset
            /\ UNCHANGED input

\* The first select(), lines 38-61: what is not ready is no longer in the set.  The
\* file is written and read again from its start.
FirstSelect == /\ sel = "first"
               /\ \/ /\ rset' = {"fd"} \cup (IF input THEN {"stdin"} ELSE {})
                     /\ sel' = "again"
                  \/ sel' = "exit1" /\ UNCHANGED rset  \* EINTR
               /\ UNCHANGED input

\* Mutant: FD_SET() of standard input is missing.
SetAgain_Keeps == /\ sel = "again" /\ rset' = rset \ {"fd"} /\ sel' = "second"
                  /\ UNCHANGED input

\* Lines 142-151.
SetAgain == /\ sel = "again" /\ rset' = (rset \ {"fd"}) \cup {"stdin"} /\ sel' = "second"
            /\ UNCHANGED input

\* The second select(), of standard input alone.
SecondSelect == /\ sel = "second"
                /\ sel' = IF input /\ "stdin" \in rset THEN "exit0"
                          ELSE "exit1"  \* timeout or EINTR
                /\ UNCHANGED <<rset, input>>

SelectStep == OpenTemp \/ FirstSelect \/ SetAgain \/ SecondSelect
SelectNext == SelectStep \/ Type

SelectTypeOK == rset \subseteq {"stdin", "fd"} /\ input \in BOOLEAN

\* Lines 136-152: input that is there is seen by the second call, whatever the first
\* one has made of the set.
InputSeen == sel = "second" /\ input => sel' \notin {"exit1"}

------------------------------------------------------------------------------
(***************************************************************************)
(* rdwrv.c writes 42 bytes over a file that may be longer and prints what  *)
(* readv() gets into three buffers of 15.                                  *)
(***************************************************************************)

VecInit == vec = "writev" /\ size \in {0, 42, 50} /\ pieces = <<>>

\* open(), then writev(); what it cannot write ends the program.
Writev == /\ vec = "writev"
          /\ \/ vec' = "readv" /\ size' = IF size < 42 THEN 42 ELSE size
             \/ vec' = "exit1" /\ UNCHANGED size
          /\ UNCHANGED pieces

\* Mutant: the whole buffer, each time.
PieceOf_Whole(read, i) == 15

\* Lines 94-96: total is compared as an unsigned number, and below 0 it is more than 15.
PieceOf(read, i) ==
  LET left == read - 15 * (i - 1) IN IF left > 15 \/ left < 0 THEN 15 ELSE left

\* What readv() gets: at most 45 bytes.
Total == IF size < 45 THEN size ELSE 45

\* Lines 76-100: readv() and the three writes.
Readv == /\ vec = "readv"
         /\ pieces' = [i \in 1..3 |-> PieceOf(Total, i)] /\ vec' = "exit0"
         /\ UNCHANGED size

VecNext == Writev \/ Readv

VecTypeOK == size \in {0, 42, 50} /\ pieces \in Seq(0..15)

\* Lines 81-96: exactly what was read is written, no byte of a buffer that readv()
\* has not filled.
PiecesAreWhatWasRead == pieces # <<>> => pieces[1] + pieces[2] + pieces[3] = Total

------------------------------------------------------------------------------
(***************************************************************************)
(* mmap.c copies a file, which another process may cut short at any time,  *)
(* and which may be named as the output too.                               *)
(***************************************************************************)

MapInit == /\ map = "open" /\ same \in BOOLEAN /\ altered = FALSE
           /\ infile \in 0..MaxBytes /\ outfile = <<>> /\ statsize = 0

\* open() of both files; O_TRUNC of the second one.
OpenBoth == /\ map = "open"
            /\ \/ map' = "fstat" /\ infile' = IF same THEN 0 ELSE infile
               \/ map' = "exit1" /\ UNCHANGED infile
            /\ UNCHANGED <<same, outfile, statsize, altered>>

MapStat == /\ map = "fstat" /\ map' \in {"lseek", "exit1"} /\ statsize' = infile
           /\ UNCHANGED <<same, infile, outfile, altered>>

Zeros(n) == [i \in 1..n |-> "0"]

\* Lines 132-139: lseek() to -1 fails when the file is empty; the byte at the end
\* makes the output as long as the input.
Extend == /\ map = "lseek"
          /\ \/ /\ statsize > 0 /\ map' = "mmap" /\ outfile' = Zeros(statsize)
             \/ map' = "exit1" /\ UNCHANGED outfile
          /\ UNCHANGED <<same, infile, statsize, altered>>

\* The two mmap() calls.
MapBoth == /\ map = "mmap" /\ map' \in {"memcpy", "exit1"}
           /\ UNCHANGED <<same, infile, outfile, statsize, altered>>

\* memcpy(), byte by byte: past the end of the file there are zeros up to the end of
\* the page, and then SIGBUS.
Memcpy == /\ map = "memcpy"
          /\ \/ /\ infile > 0 /\ map' = "reopen"
                /\ outfile' = [i \in 1..statsize |-> IF i <= infile THEN "x" ELSE "0"]
             \/ infile < statsize /\ map' = "killed" /\ UNCHANGED outfile
          /\ UNCHANGED <<same, infile, statsize, altered>>

\* Lines 166-202: munmap(), close(), the second open() and mmap() keep what is there.
Reopen == /\ map = "reopen" /\ map' \in {"exit0", "exit1"}
          /\ UNCHANGED <<same, infile, outfile, statsize, altered>>

CutInput == /\ ~same /\ ~altered /\ infile > 0 /\ map \notin Ended
            /\ infile' \in 0..(infile - 1) /\ altered' = TRUE
            /\ UNCHANGED <<map, same, outfile, statsize>>

MapStep == OpenBoth \/ MapStat \/ Extend \/ MapBoth \/ Memcpy \/ Reopen
MapNext == MapStep \/ CutInput

MapTypeOK == /\ infile \in 0..MaxBytes /\ statsize \in 0..MaxBytes
             /\ outfile \in Seq({"0", "x"})

\* Lines 123-156: after success the output is the input, unless that was cut short
\* after fstat(); and a copy onto itself, which has emptied the file, never succeeds.
CopiedWhole == map = "exit0" => /\ ~same
                                /\ altered \/ outfile = [i \in 1..infile |-> "x"]

------------------------------------------------------------------------------
(***************************************************************************)
(* dup2.c: dup2_l() is dup2() made of dup() and close(): it duplicates     *)
(* until it is given the number it wants, and then closes the ones it did  *)
(* not want.                                                               *)
(***************************************************************************)

Fds    == 0..MaxTable - 1
Closed == "closed"
NoCall == <<>>
IsOpen(t, d) == d \in Fds /\ t[d] # Closed

\* Any table, and a limit that may be lower than the 256 the code assumes; it
\* may have been lowered below descriptors that are open.
DupInit == /\ table \in [Fds -> Files \cup {Closed}]
           /\ limit \in 1..MaxTable
           /\ before = table /\ args = NoCall /\ fd = <<>> /\ result = 0

oldfd == args[1]
newfd == args[2]

\* Lines 19-46.
Begin(o, n) ==
  /\ args = NoCall /\ before' = table
  /\ IF n \notin Fds \/ ~IsOpen(table, o)
     THEN result' = -1 /\ UNCHANGED <<table, args, fd>>
     ELSE IF o = n
     THEN result' = n /\ UNCHANGED <<table, args, fd>>
     ELSE /\ table' = [table EXCEPT ![n] = Closed]
          /\ args' = <<o, n>> /\ fd' = <<>> /\ UNCHANGED result
  /\ UNCHANGED limit

\* The number dup() returns is the lowest free one below the limit.
Free   == {d \in Fds : d < limit /\ table[d] = Closed}
Lowest == CHOOSE d \in Free : \A e \in Free : d <= e

CloseAll(t, s) == [d \in Fds |-> IF \E i \in DOMAIN s : s[i] = d THEN Closed ELSE t[d]]

\* Line 48: dup(), and once more if it is not newfd (line 55).
Dup == /\ args # NoCall /\ Free # {} /\ Lowest # newfd
       /\ table' = [table EXCEPT ![Lowest] = table[oldfd]]
       /\ fd' = Append(fd, Lowest)
       /\ UNCHANGED <<limit, before, args, result>>

\* Mutant: line 63 reads (--i > 0), as line 50 does.
Got_Leaks == /\ args # NoCall /\ Free # {} /\ Lowest = newfd
             /\ table' = CloseAll([table EXCEPT ![newfd] = table[oldfd]],
                                  IF fd = <<>> THEN fd ELSE Tail(fd))
             /\ args' = NoCall /\ fd' = <<>> /\ result' = newfd
             /\ UNCHANGED <<limit, before>>

\* Lines 48, 55-56 and 63-66: newfd at last; the others are closed.
Got == /\ args # NoCall /\ Free # {} /\ Lowest = newfd
       /\ table' = CloseAll([table EXCEPT ![newfd] = table[oldfd]], fd)
       /\ args' = NoCall /\ fd' = <<>> /\ result' = newfd
       /\ UNCHANGED <<limit, before>>

\* Mutant: dup2_l() gives up without closing anything.
DupFails_Keeps == /\ args # NoCall /\ Free = {}
                  /\ args' = NoCall /\ fd' = <<>> /\ result' = -1
                  /\ UNCHANGED <<table, limit, before>>

\* Lines 48-53: EMFILE.  The loop of line 50 stops before fd[0].
DupFails == /\ args # NoCall /\ Free = {}
            /\ table' = CloseAll(table, IF fd = <<>> THEN fd ELSE Tail(fd))
            /\ args' = NoCall /\ fd' = <<>> /\ result' = -1
            /\ UNCHANGED <<limit, before>>

DupNext == \/ \E o \in Fds \cup {-1}, n \in Fds \cup {-1, MaxTable} : Begin(o, n)
           \/ Dup \/ Got \/ DupFails

DupTypeOK == /\ table \in [Fds -> Files \cup {Closed}] /\ before \in [Fds -> Files \cup {Closed}]
             /\ limit \in 1..MaxTable /\ result \in -1..MaxTable - 1
             /\ args = NoCall \/ (oldfd \in Fds /\ newfd \in Fds)
             /\ fd \in Seq(Fds)

\* When dup2_l() has made newfd, newfd is what oldfd was when the call began
\* and no other descriptor has changed, however many had to be made on the way.
SameAsDup2 ==
  args # NoCall /\ args' = NoCall /\ result' >= 0 =>
    result' = newfd /\ table' = [before EXCEPT ![newfd] = before[oldfd]]

\* It fails after it has begun only for a newfd beyond the limit; then at most
\* one descriptor, the one of line 50, is left over.
FailureLeavesOne ==
  args # NoCall /\ result' = -1 /\ args' = NoCall =>
    /\ newfd >= limit
    /\ Cardinality({d \in Fds \ {newfd} : table'[d] # before[d]}) <= 1

------------------------------------------------------------------------------
(***************************************************************************)
(* openpt.c of 19-pseudo, which opens a pseudo terminal and writes through *)
(* it both ways, and the two versions of ptym_open() and ptys_open(), with *)
(* /dev/ptmx (3-ptym_open) and with the names of BSD (4-bsd-based), used   *)
(* by several processes at once.                                           *)
(***************************************************************************)

None == -1
BsdNames == <<100, 101>>  \* /dev/ptyp0 and so on, as many as exist, in the order of the search

\* The calls in order; main() of openpt.c asks for the name first.
Calls == [openpt |-> <<"probe", "master", "ptsname", "grantpt", "unlockpt", "slave",
                       "to master", "to slave", "exit">>,
          ptmx   |-> <<"master", "grantpt", "unlockpt", "ptsname", "slave", "exit">>,
          bsd    |-> <<"master", "grantpt", "unlockpt", "ptsname", "slave", "exit">>]

At(o, call)  == ret[o] = "busy" /\ Calls[how[o]][step[o]] = call
Advance(o)   == step' = [step EXCEPT ![o] = @ + 1]
Masters      == {master[o] : o \in Openers} \ {None}

\* The name after strncpy() into the buffer: "/dev/pts/" has nine characters, and a
\* number of two digits loses the second one when only eleven bytes are there.
Named(n, bytes) == IF n \in Ptys /\ n >= 10 /\ bytes = 11 THEN n \div 10 ELSE n

PtyInit ==
  /\ how \in [Openers -> DOMAIN Calls] /\ room \in [Openers -> Sizes]
  /\ step = [o \in Openers |-> 1] /\ search = [o \in Openers |-> 1]
  /\ master = [o \in Openers |-> None] /\ slave = [o \in Openers |-> None]
  /\ pname = [o \in Openers |-> None] /\ ret = [o \in Openers |-> "busy"]
  /\ locked = {} /\ typed = [o \in Openers |-> <<>>]

\* Mutant: the error return leaves the master open.
Fail_Leaks(o, call) == /\ ret' = [ret EXCEPT ![o] = call]
                       /\ UNCHANGED <<how, room, step, search, master, slave, pname, locked, typed>>

\* close(fd) and the error return of ptym_open(), or return from main(): the
\* pseudo terminal is gone with its master.
Fail(o, call) == /\ ret' = [ret EXCEPT ![o] = call]
                 /\ master' = [master EXCEPT ![o] = None]
                 /\ locked' = locked \ {master[o]}
                 /\ UNCHANGED <<how, room, step, search, slave, pname, typed>>

\* Lines 101-107 of openpt.c: a first master, closed again.
Probe(o) == /\ At(o, "probe")
            /\ \/ /\ Advance(o)
                  /\ UNCHANGED <<how, room, search, master, slave, pname, ret, locked, typed>>
               \/ Fail(o, "master")

\* posix_openpt_l() on /dev/ptmx: a new pseudo terminal with a locked slave.
OpenPtmx(o) ==
  /\ At(o, "master") /\ how[o] # "bsd"
  /\ \/ \E n \in Ptys \ Masters : /\ master' = [master EXCEPT ![o] = n]
                                  /\ locked' = locked \cup {n}
        /\ Advance(o) /\ UNCHANGED <<how, room, search, slave, pname, ret, typed>>
     \/ Fail(o, "master")

\* posix_openpt_l() of 4-bsd-based, lines 28-46: a master that is in use gives an
\* error, and so the next name is tried; ENOENT, or the end of the names, is the end.
SearchBsd(o) ==
  /\ At(o, "master") /\ how[o] = "bsd"
  /\ IF search[o] > Len(BsdNames) THEN Fail(o, "master")
     ELSE IF BsdNames[search[o]] \in Masters
     THEN /\ search' = [search EXCEPT ![o] = @ + 1]
          /\ UNCHANGED <<how, room, step, master, slave, pname, ret, locked, typed>>
     ELSE /\ master' = [master EXCEPT ![o] = BsdNames[search[o]]] /\ Advance(o)
          /\ UNCHANGED <<how, room, search, slave, pname, ret, locked, typed>>

\* ptsname_l() and the copy of its static buffer; openpt.c keeps the whole name.
Ptsname(o) ==
  /\ At(o, "ptsname")
  /\ \/ /\ pname' = [pname EXCEPT ![o] = IF how[o] = "openpt" THEN master[o]
                                         ELSE Named(master[o], room[o])]
        /\ Advance(o) /\ UNCHANGED <<how, room, search, master, slave, ret, locked, typed>>
     \/ Fail(o, "ptsname")

\* grantpt_l(): chmod(), after chown() with BSD, which only the superuser may; it
\* fails too when ptsname_l() returns no name.
Grantpt(o) == /\ At(o, "grantpt")
              /\ \/ /\ Advance(o)
                    /\ UNCHANGED <<how, room, search, master, slave, pname, ret, locked, typed>>
                 \/ Fail(o, "grantpt")

\* unlockpt_l(): TIOCSPTLCK, or nothing with BSD.
Unlockpt(o) == /\ At(o, "unlockpt")
               /\ \/ /\ Advance(o) /\ locked' = locked \ {master[o]}
                     /\ UNCHANGED <<how, room, search, master, slave, pname, ret, typed>>
                  \/ how[o] # "bsd" /\ Fail(o, "unlockpt")

\* ptys_open(), and line 142 of openpt.c: the named slave exists as long as its
\* master is open, and is not locked.  A failing ptys_open() closes nothing.
Ptysopen(o) ==
  /\ At(o, "slave")
  /\ \/ /\ pname[o] \in Masters \ locked
        /\ slave' = [slave EXCEPT ![o] = pname[o]] /\ Advance(o)
        /\ UNCHANGED <<how, room, search, master, pname, ret, locked, typed>>
     \/ /\ pname[o] \notin Masters \ locked
        /\ IF how[o] = "openpt" THEN Fail(o, "slave")
           ELSE /\ ret' = [ret EXCEPT ![o] = "slave"]
                /\ UNCHANGED <<how, room, step, search, master, slave, pname, locked, typed>>

\* Line 151: what is written to the slave is read from the master.
ToMaster(o) == /\ At(o, "to master") /\ Advance(o)
               /\ UNCHANGED <<how, room, search, master, slave, pname, ret, locked, typed>>

\* Mutant: no end of line.
Text_Open == <<"xia">>

Text == <<"xia", "newline">>

\* Line 158: what is written to the master is read from the slave when the line
\* discipline has a whole line.
ToSlave(o) ==
  /\ At(o, "to slave")
  /\ IF typed[o] = <<>>
     THEN typed' = [typed EXCEPT ![o] = Text] /\ UNCHANGED step
     ELSE /\ \E i \in DOMAIN typed[o] : typed[o][i] = "newline"
          /\ typed' = [typed EXCEPT ![o] = <<>>] /\ Advance(o)
  /\ UNCHANGED <<how, room, search, master, slave, pname, ret, locked>>

\* Lines 160-162 of openpt.c; ptym_open() and ptys_open() have returned.
Exit(o) == /\ At(o, "exit") /\ ret' = [ret EXCEPT ![o] = "fd"]
           /\ IF how[o] = "openpt"
              THEN master' = [master EXCEPT ![o] = None] /\ slave' = [slave EXCEPT ![o] = None]
              ELSE UNCHANGED <<master, slave>>
           /\ UNCHANGED <<how, room, step, search, pname, locked, typed>>

\* The caller of ptym_open() and ptys_open() is done with the terminal.
CallerCloses(o) == /\ how[o] # "openpt" /\ ret[o] \in {"fd", "slave"} /\ master[o] # None
                   /\ master' = [master EXCEPT ![o] = None]
                   /\ slave' = [slave EXCEPT ![o] = None]
                   /\ locked' = locked \ {master[o]}
                   /\ UNCHANGED <<how, room, step, search, pname, ret, typed>>

Open(o) == \/ Probe(o) \/ OpenPtmx(o) \/ SearchBsd(o) \/ Ptsname(o) \/ Grantpt(o) \/ Unlockpt(o)
           \/ Ptysopen(o) \/ ToMaster(o) \/ ToSlave(o) \/ Exit(o)

PtyNext == \E o \in Openers : Open(o) \/ CallerCloses(o)

PtyTypeOK ==
  LET Pty == Ptys \cup {BsdNames[i] : i \in DOMAIN BsdNames} \cup {None}
  IN /\ how \in [Openers -> DOMAIN Calls] /\ room \in [Openers -> Sizes]
     /\ step \in [Openers -> 1..9] /\ search \in [Openers -> 1..Len(BsdNames) + 1]
     /\ master \in [Openers -> Pty] /\ slave \in [Openers -> Pty]
     /\ locked \subseteq Ptys
     /\ typed \in [Openers -> {<<>>, Text}]

\* ptym_open(), lines 126-141: one that fails keeps no master.
FailedKeepsNothing ==
  \A o \in Openers : ret[o] \in {"master", "grantpt", "unlockpt", "ptsname"} => master[o] = None

\* ptym_open.c, lines 142-157: whoever has room for the whole name opens the slave
\* of its own master, however many open terminals at once; with eleven bytes it
\* may be that of a stranger.
SlaveOfMaster == \A o \in Openers : slave[o] # None /\ room[o] > 11 => slave[o] = master[o]

\* 4-bsd-based, lines 30-46: the search passes over a master only if it is in use,
\* and gives up only after the last name.
SearchGivesUpLast ==
  \A o \in Openers : how[o] = "bsd" /\ ret[o] = "master" => search[o] > Len(BsdNames)
PassesOverBusy ==
  \A o \in Openers : search'[o] # search[o] => \E p \in Openers \ {o} : master[p] = BsdNames[search[o]]

\* openpt.c, lines 151-158: the reads wait for what was written, and that is a line.
OpenersEnd == \A o \in Openers : <>(ret[o] # "busy")
==============================================================================
