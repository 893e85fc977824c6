---------------------------- MODULE ProcessProofs ----------------------------
(***************************************************************************)
(* Proofs about ProcessPrograms: each program that shares files, pipes, a  *)
(* queue or a parent has an inductive invariant of its own, and the        *)
(* invariant of all is that of the program that runs.                      *)
(***************************************************************************)
EXTENDS ProcessPrograms, FiniteSetTheorems, WellFoundedInduction, TLAPS

------------------------------------------------------------------------------
(* Sequences *)

\* One more at the end.
LEMMA OneMore ==
  ASSUME NEW R, NEW s \in Seq(R), NEW e \in R
  PROVE  /\ Append(s, e) \in Seq(R) /\ Len(Append(s, e)) = Len(s) + 1
         /\ \A i \in 1..Len(s) : Append(s, e)[i] = s[i]
         /\ Append(s, e)[Len(s) + 1] = e
OBVIOUS

\* One less.
LEMMA OneLess ==
  ASSUME NEW R, NEW s \in Seq(R), NEW i \in 1..Len(s)
  PROVE  LET rest == SubSeq(s, 1, i - 1) \o SubSeq(s, i + 1, Len(s))
         IN  /\ rest \in Seq(R) /\ Len(rest) = Len(s) - 1
             /\ \A j \in 1..Len(rest) : rest[j] = s[IF j < i THEN j ELSE j + 1]
<1> DEFINE a == SubSeq(s, 1, i - 1)
           b == SubSeq(s, i + 1, Len(s))
<1>1. /\ a \in Seq(R) /\ Len(a) = i - 1
      /\ \A j \in 1..(i - 1) : a[j] = s[j]
  OBVIOUS
<1>2. /\ b \in Seq(R) /\ Len(b) = Len(s) - i
      /\ \A j \in 1..(Len(s) - i) : b[j] = s[j + i]
  OBVIOUS
<1> HIDE DEF a, b
<1>3. a \o b \in Seq(R) /\ Len(a \o b) = Len(s) - 1
  <2>0. a \in Seq(R) /\ b \in Seq(R)
    BY <1>1, <1>2
  <2>1. a \o b \in Seq(R) /\ Len(a \o b) = Len(a) + Len(b)
    BY <2>0
  <2>2. (i - 1) + (Len(s) - i) = Len(s) - 1
    OBVIOUS
  <2> QED
    BY <1>1, <1>2, <2>1, <2>2
<1>4. ASSUME NEW j \in 1..(Len(s) - 1) PROVE (a \o b)[j] = s[IF j < i THEN j ELSE j + 1]
  <2>1. CASE j < i
    <3>1. (a \o b)[j] = a[j]
      BY <2>1, <1>1, <1>2
    <3> QED
      BY <3>1, <2>1, <1>1
  <2>2. CASE ~(j < i)
    <3>1. (a \o b)[j] = b[j - (i - 1)] /\ j - (i - 1) \in 1..(Len(s) - i)
      BY <2>2, <1>1, <1>2
    <3>2. (j - (i - 1)) + i = j + 1
      OBVIOUS
    <3>3. b[j - (i - 1)] = s[(j - (i - 1)) + i]
      BY <3>1, <1>2
    <3> QED
      BY <2>2, <3>1, <3>2, <3>3
  <2> QED
    BY <2>1, <2>2
<1> QED
  BY <1>3, <1>4 DEF a, b


\* One behind the other.
LEMMA Joined ==
  ASSUME NEW A, NEW a \in Seq(A), NEW B, NEW b \in Seq(B)
  PROVE  /\ a \o b \in Seq(A \cup B) /\ Len(a \o b) = Len(a) + Len(b) /\ Len(a \o b) \in Nat
         /\ DOMAIN (a \o b) = 1..(Len(a) + Len(b))
         /\ \A i \in 1..Len(a) : (a \o b)[i] = a[i]
         /\ \A i \in 1..Len(b) : (a \o b)[Len(a) + i] = b[i]
         /\ \A i \in 1..(Len(a) + Len(b)) :
              \/ i \in 1..Len(a)
              \/ i - Len(a) \in 1..Len(b) /\ (a \o b)[i] = b[i - Len(a)]
<1>1. Len(a) \in Nat /\ Len(b) \in Nat
  OBVIOUS
<1>2. a \in Seq(A \cup B) /\ b \in Seq(A \cup B)
  <2>1. a \in [1..Len(a) -> A \cup B] /\ b \in [1..Len(b) -> A \cup B]
    OBVIOUS
  <2> QED
    BY <1>1, <2>1
<1>3. /\ a \o b \in Seq(A \cup B) /\ Len(a \o b) = Len(a) + Len(b)
      /\ DOMAIN (a \o b) = 1..(Len(a) + Len(b))
  BY <1>2
<1>4. /\ \A i \in 1..Len(a) : (a \o b)[i] = a[i]
      /\ \A i \in 1..Len(b) : (a \o b)[Len(a) + i] = b[i]
  BY <1>1, <1>2
<1>5. ASSUME NEW i \in 1..(Len(a) + Len(b)), i \notin 1..Len(a)
      PROVE  i - Len(a) \in 1..Len(b) /\ (a \o b)[i] = b[i - Len(a)]
  <2>1. i - Len(a) \in 1..Len(b) /\ Len(a) + (i - Len(a)) = i
    BY <1>1, <1>5
  <2> QED
    BY <2>1, <1>4
<1> QED
  BY <1>1, <1>3, <1>4, <1>5

LEMMA Elements == ASSUME NEW A, NEW a \in Seq(A) PROVE a = [i \in 1..Len(a) |-> a[i]]
OBVIOUS
------------------------------------------------------------------------------
(* System.c and useSystem.c *)

\* Where the caller is and what has become of the present command go together.
SystemInv ==
  /\ S!SystemTypeOK /\ S!NoChildLeft
  /\ pc = "wait" =>
       /\ calls \in 1..3 /\ child # "none"
       /\ child \in {"zombie", "gone"} => left \in {S!Result[calls], "127", "signal"}
       /\ child = "gone" => ignored

LEMMA SystemStarts == ASSUME S!SystemInit PROVE SystemInv
BY ProcessAssumption DEF S!SystemInit, SystemInv, S!SystemTypeOK, S!NoChildLeft, S!Statuses

LEMMA SystemSteps == ASSUME SystemInv, S!SystemNext PROVE SystemInv'
<1> USE DEF SystemInv, S!SystemTypeOK, S!NoChildLeft, S!Statuses
<1>1. S!Result \in [1..3 -> {"0", "127", "44"}]
  BY DEF S!Result
<1> HIDE DEF S!Result
<1>2. CASE S!SystemFork
  BY <1>2 DEF S!SystemFork
<1>3. CASE S!Reap
  BY <1>3 DEF S!Reap, S!Waited
<1>4. CASE S!Interrupted
  BY <1>4, ProcessAssumption DEF S!Interrupted
<1>5. CASE S!NoChild
  BY <1>5 DEF S!NoChild
<1>6. CASE S!SystemReturn
  BY <1>6 DEF S!SystemReturn
<1>7. CASE S!Command
  <2>1. pc = "wait" /\ calls \in 1..3
    BY <1>7 DEF S!Command, S!Exec, S!ExecFails, S!CommandEnds
  <2>2. S!Result[calls] \in S!Statuses
    BY <1>1, <2>1
  <2> QED
    BY <1>7, <2>1, <2>2 DEF S!Command, S!Exec, S!ExecFails, S!CommandEnds, S!SystemDead
<1>8. CASE S!OtherEnds
  BY <1>8 DEF S!OtherEnds, S!SystemDead
<1> QED
  BY <1>2, <1>3, <1>4, <1>5, <1>6, <1>7, <1>8 DEF S!SystemNext, S!Caller

\* System() returns the status of its own command.
LEMMA SystemStatus == ASSUME SystemInv, S!SystemNext PROVE S!StatusOfOwnChild
<1> SUFFICES ASSUME pc = "wait", pc' = "returned"
             PROVE  \/ status' = left /\ left \in {S!Result[calls], "127", "signal"}
                    \/ status' = "-1" /\ ignored
  BY DEF S!StatusOfOwnChild
<1>1. S!Reap \/ S!NoChild
  BY DEF S!SystemNext, S!Caller, S!Command, S!SystemFork, S!Interrupted, S!SystemReturn, S!Exec,
         S!ExecFails, S!CommandEnds, S!OtherEnds
<1>2. CASE S!Reap
  <2>1. status' = left /\ child = "zombie"
    BY <1>2 DEF S!Reap, S!Waited
  <2> QED
    BY <2>1 DEF SystemInv
<1>3. CASE S!NoChild
  BY <1>3 DEF S!NoChild, SystemInv
<1> QED
  BY <1>1, <1>2, <1>3

LEMMA SystemHolds == ASSUME SystemInv PROVE S!SystemTypeOK /\ S!NoChildLeft
BY DEF SystemInv

------------------------------------------------------------------------------
(* waitpid.c *)

\* What each of the three processes can be at, and whose child it is.
DoubleKin ==
  /\ at["original"] \in {"fork", "waitpid", "return"} \cup S!DoubleDead
  /\ at["first"] \in {"unborn", "fork", "exit"} \cup S!DoubleDead
  /\ at["second"] \in {"unborn", "print", "exit2"} \cup S!DoubleDead
  /\ parent["original"] = "shell"
  /\ parent["first"] \in {"shell", "original", "init"}
  /\ parent["second"] \in {"shell", "first", "init"}
  /\ parent["first"] = "shell" <=> at["first"] = "unborn"
  /\ parent["second"] = "shell" <=> at["second"] = "unborn"
  /\ parent["first"] = "original" => at["original"] \in {"waitpid", "return"}
  /\ parent["first"] = "init" => at["original"] \in S!DoubleDead
  /\ parent["second"] = "first" => at["first"] \notin S!DoubleDead
  /\ at["original"] = "fork" => at["first"] = "unborn"
  /\ at["original"] \in {"waitpid", "return"} => at["first"] # "unborn"

\* Who waits, and what waitpid() makes of it.
DoubleWait ==
  /\ at["original"] = "return" => at["first"] = "gone"
  /\ at["original"] = "waitpid" /\ at["first"] = "gone" => nocldwait
  /\ "wait_error" \in printed["original"] => nocldwait
  /\ \A p \in S!Procs \ {"original"} : printed[p] \cap {"wait_success", "wait_error"} = {}

DoubleInv == S!DoubleTypeOK /\ DoubleKin /\ DoubleWait

LEMMA DoubleStarts == ASSUME S!DoubleInit PROVE DoubleInv
BY DEF S!DoubleInit, DoubleInv, S!DoubleTypeOK, DoubleKin, DoubleWait, S!Procs, S!DoubleDead

\* A process ends and its children become those of init.
LEMMA DoubleExits ==
  ASSUME DoubleInv, NEW p \in S!Procs, at[p] \notin S!DoubleDead \cup {"unborn"}, S!Exit(p),
         UNCHANGED nocldwait, printed' \in [S!Procs -> SUBSET {"fork_error", "wait_success",
                                                "wait_error", "shell", "init", "first"}],
         \A q \in S!Procs : printed'[q] \subseteq printed[q] \cup {"fork_error"}
  PROVE  DoubleInv'
<1> USE DEF DoubleInv, S!Procs, S!DoubleDead
<1>1. S!DoubleTypeOK'
  BY DEF S!DoubleTypeOK, S!Exit
<1>2. DoubleKin'
  BY DEF S!DoubleTypeOK, S!Exit, DoubleKin
<1>3. DoubleWait'
  BY DEF S!DoubleTypeOK, S!Exit, DoubleKin, DoubleWait
<1> QED
  BY <1>1, <1>2, <1>3

LEMMA DoubleSteps == ASSUME DoubleInv, S!DoubleNext PROVE DoubleInv'
<1> USE DEF S!Procs, S!DoubleDead
<1>1. CASE S!DoubleFork
  BY <1>1 DEF DoubleInv, S!DoubleFork, S!DoubleTypeOK, DoubleKin, DoubleWait
<1>2. CASE S!ForkAgain
  BY <1>2 DEF DoubleInv, S!ForkAgain, S!DoubleTypeOK, DoubleKin, DoubleWait
<1>3. CASE S!FirstExits
  BY <1>3, DoubleExits DEF DoubleInv, S!FirstExits, S!DoubleTypeOK
<1>4. ASSUME NEW p \in S!Procs, S!ForkFails(p) PROVE DoubleInv'
  <2>1. /\ printed' \in [S!Procs -> SUBSET {"fork_error", "wait_success", "wait_error",
                                            "shell", "init", "first"}]
        /\ \A q \in S!Procs : printed'[q] \subseteq printed[q] \cup {"fork_error"}
    BY <1>4 DEF DoubleInv, S!ForkFails, S!DoubleTypeOK
  <2> QED
    BY <1>4, <2>1, DoubleExits DEF S!ForkFails
<1>5. ASSUME NEW p \in S!Procs, S!PrintParent(p) PROVE DoubleInv'
  <2>1. p = "second"
    BY <1>5 DEF DoubleInv, S!PrintParent, S!Go, DoubleKin
  <2>2. parent["second"] \in {"first", "init"}
    BY <1>5, <2>1 DEF DoubleInv, S!PrintParent, S!Go, DoubleKin
  <2>3. S!DoubleTypeOK'
    BY <1>5, <2>1, <2>2 DEF DoubleInv, S!PrintParent, S!Go, S!DoubleTypeOK
  <2>4. DoubleKin'
    BY <1>5, <2>1 DEF DoubleInv, S!PrintParent, S!Go, S!DoubleTypeOK, DoubleKin
  <2>5. DoubleWait'
    BY <1>5, <2>1, <2>2 DEF DoubleInv, S!PrintParent, S!Go, S!DoubleTypeOK, DoubleWait
  <2> QED
    BY <2>3, <2>4, <2>5 DEF DoubleInv
<1>6. ASSUME NEW p \in S!Procs, S!SecondExits(p) \/ S!DoubleReturn(p) \/ S!Killed(p)
      PROVE  DoubleInv'
  BY <1>6, DoubleExits DEF DoubleInv, S!SecondExits, S!DoubleReturn, S!Killed, S!DoubleTypeOK
<1>7. ASSUME NEW p \in S!Procs, S!Waitpid(p) PROVE DoubleInv'
  <2>1. p = "original"
    BY <1>7 DEF DoubleInv, S!Waitpid, DoubleKin
  <2>2. at["original"] = "waitpid" /\ at["first"] \in S!DoubleDead
    BY <1>7, <2>1 DEF S!Waitpid, S!Waitable
  <2>3. CASE at["first"] = "zombie"
    <3>1. /\ at' = [at EXCEPT !["original"] = "return", !["first"] = "gone"]
          /\ printed' = [printed EXCEPT !["original"] = @ \cup {"wait_success"}]
          /\ UNCHANGED <<parent, nocldwait>>
      BY <1>7, <2>1, <2>3 DEF S!Waitpid
    <3>2. S!DoubleTypeOK'
      BY <3>1 DEF DoubleInv, S!DoubleTypeOK
    <3>3. DoubleKin'
      BY <3>1, <2>2, <2>3 DEF DoubleInv, S!DoubleTypeOK, DoubleKin
    <3>4. DoubleWait'
      BY <3>1, <2>2, <2>3 DEF DoubleInv, S!DoubleTypeOK, DoubleWait
    <3> QED
      BY <3>2, <3>3, <3>4 DEF DoubleInv
  <2>4. CASE at["first"] = "gone"
    <3>1. /\ at' = [at EXCEPT !["original"] = "return"]
          /\ printed' = [printed EXCEPT !["original"] = @ \cup {"wait_error"}]
          /\ UNCHANGED <<parent, nocldwait>>
      BY <1>7, <2>1, <2>4 DEF S!Waitpid
    <3>2. S!DoubleTypeOK'
      BY <3>1 DEF DoubleInv, S!DoubleTypeOK
    <3>3. DoubleKin'
      BY <3>1, <2>2, <2>4 DEF DoubleInv, S!DoubleTypeOK, DoubleKin
    <3>4. DoubleWait'
      BY <3>1, <2>2, <2>4 DEF DoubleInv, S!DoubleTypeOK, DoubleWait
    <3> QED
      BY <3>2, <3>3, <3>4 DEF DoubleInv
  <2> QED
    BY <2>2, <2>3, <2>4
<1>8. ASSUME NEW p \in S!Procs, S!Reaped(p) PROVE DoubleInv'
  <2>1. p = "first" => at["original"] \in S!DoubleDead
    BY <1>8 DEF DoubleInv, S!Reaped, S!Go, DoubleKin
  <2> QED
    BY <1>8, <2>1 DEF DoubleInv, S!Reaped, S!Go, S!DoubleTypeOK, DoubleKin, DoubleWait
<1> QED
  BY <1>1, <1>2, <1>3, <1>4, <1>5, <1>6, <1>7, <1>8 DEF S!DoubleNext, S!Process

LEMMA DoubleHolds ==
  ASSUME DoubleInv PROVE S!DoubleTypeOK /\ S!NoZombieOfOurs /\ S!WaitTellsTruth
BY DEF DoubleInv, DoubleKin, DoubleWait, S!NoZombieOfOurs, S!WaitTellsTruth, S!Procs, S!DoubleDead

------------------------------------------------------------------------------
(* copro.c and add2.c *)

Answers == {"sum", "invalid"}
Talks   == {"fgets", "write", "read"}
Serves  == {"exec", "read", "answer"}

\* Which ends each process has, by what it does next.
CoproHolds ==
  /\ copro \in {"pipe", "fork"} => add2 = "unborn"
  /\ copro \in Talks \cup {"close"} => add2 # "unborn"
  /\ copro \in C!ParentEnded \cup {"pipe"} => holds["parent"] = {}
  /\ copro \in Talks => holds["parent"] = {"w1", "r2"}
  /\ add2 \in Serves => holds["child"] = {"r1", "w2"}
  /\ add2 \in C!ChildEnded \cup {"unborn"} => holds["child"] = {}

\* Where the line is that was read last.
NothingUnderWay == pipe1 = <<>> /\ pipe2 = <<>> /\ add2 # "answer"

UnderWay ==
  \/ pipe1 = <<C!Line>> /\ C!Line # "empty" /\ pipe2 = <<>> /\ add2 # "answer"
  \/ pipe1 = <<>> /\ pipe2 = <<>> /\ add2 = "answer" /\ request = <<C!Line>> /\ C!Line # "empty"
  \/ pipe1 = <<>> /\ pipe2 = <<C!Answer[C!Line]>> /\ C!Line # "empty" /\ add2 # "answer"

CoproTalk ==
  /\ Len(shown) <= Len(asked)
  /\ \A i \in 1..Len(shown) : shown[i] = C!Answer[asked[i]]
  /\ copro \in {"pipe", "fork", "close", "fgets"} => Len(shown) = Len(asked) /\ NothingUnderWay
  /\ copro = "write" => Len(asked) = Len(shown) + 1 /\ NothingUnderWay
  /\ copro = "read" => Len(asked) = Len(shown) + 1 /\ (NothingUnderWay \/ UnderWay)

CoproInv == C!CoproTypeOK /\ CoproHolds /\ CoproTalk

LEMMA CoproStarts == ASSUME C!CoproInit PROVE CoproInv
<1> USE DEF C!CoproInit, C!CoproProcs
<1>1. /\ asked \in Seq(C!Lines) /\ pipe1 \in Seq(C!Lines) /\ request \in Seq(C!Lines)
      /\ pipe2 \in Seq(Answers) /\ shown \in Seq(Answers)
  OBVIOUS
<1>2. C!CoproTypeOK
  BY <1>1 DEF C!CoproTypeOK, Answers
<1>3. CoproHolds
  BY DEF CoproHolds, C!ParentEnded, C!ChildEnded, Talks, Serves
<1>4. CoproTalk
  BY DEF CoproTalk, NothingUnderWay
<1> QED
  BY <1>2, <1>3, <1>4 DEF CoproInv

\* Steps that neither read nor write the pipes, the lines or what was printed.
LEMMA CoproQuiet ==
  ASSUME CoproInv, C!CoproTypeOK', UNCHANGED <<pipe1, pipe2, asked, shown, request>>,
         add2 # "answer" => add2' # "answer",
         \/ copro' = copro
         \/ copro \in {"pipe", "fork", "close"} /\ copro' \in {"fork", "close", "fgets"}
         \/ copro' \in C!ParentEnded,
         add2 = "answer" => add2' \in C!ChildEnded \cup {"answer"}
  PROVE  CoproTalk'
<1>1. C!Line' = C!Line
  BY DEF C!Line
<1>2. NothingUnderWay => NothingUnderWay'
  BY DEF NothingUnderWay
<1>3. add2 = "answer" /\ add2' # "answer" /\ UnderWay => NothingUnderWay'
  BY DEF NothingUnderWay, UnderWay
<1>4. ~(add2 = "answer" /\ add2' # "answer") /\ UnderWay => UnderWay'
  BY <1>1 DEF UnderWay
<1>5. \A i \in 1..Len(shown)' : shown'[i] = C!Answer[asked'[i]]
  BY DEF CoproInv, CoproTalk
<1> QED
  BY <1>2, <1>3, <1>4, <1>5 DEF CoproInv, CoproTalk, C!ParentEnded

LEMMA CoproParentSteps == ASSUME CoproInv, C!CoproParent PROVE CoproInv'
<1> USE DEF C!CoproProcs, C!Ends
<1>t. C!CoproTypeOK /\ CoproHolds /\ CoproTalk
  BY DEF CoproInv
<1>1. CASE C!Pipes
  <2>1. C!CoproTypeOK'
    BY <1>1, <1>t DEF C!Pipes, C!CoproTypeOK, C!data, C!ParentEnded
  <2>2. CoproHolds'
    BY <1>1, <1>t DEF C!Pipes, CoproHolds, C!CoproTypeOK, C!data, C!ParentEnded, Talks, C!ChildEnded, Serves
  <2> QED
    BY <1>1, <2>1, <2>2, CoproQuiet DEF C!Pipes, CoproInv, C!data, C!ParentEnded
<1>2. CASE C!CoproFork
  <2>0. add2 = "unborn"
    BY <1>2, <1>t DEF C!CoproFork, CoproHolds
  <2>1. C!CoproTypeOK'
    BY <1>2, <1>t DEF C!CoproFork, C!CoproTypeOK, C!data, C!ParentEnded
  <2>2. CoproHolds'
    BY <1>2, <1>t DEF C!CoproFork, CoproHolds, C!CoproTypeOK, C!data, C!ParentEnded, Talks, C!ChildEnded, Serves
  <2> QED
    BY <1>2, <2>0, <2>1, <2>2, CoproQuiet DEF C!CoproFork, CoproInv, C!data, C!ParentEnded
<1>3. CASE C!ParentCloses
  <2>1. C!CoproTypeOK'
    BY <1>3, <1>t DEF C!ParentCloses, C!CoproTypeOK, C!data
  <2>2. CoproHolds'
    BY <1>3, <1>t DEF C!ParentCloses, CoproHolds, C!CoproTypeOK, C!data, C!ParentEnded, Talks, C!ChildEnded, Serves
  <2> QED
    BY <1>3, <2>1, <2>2, CoproQuiet DEF C!ParentCloses, CoproInv, C!data
<1>4. CASE C!Fgets
  <2>1. CASE /\ copro' = "write" /\ UNCHANGED holds
             /\ \E l \in C!Lines : asked' = Append(asked, l)
    <3>1. PICK l \in C!Lines : asked' = Append(asked, l)
      BY <2>1
    <3>2. /\ asked' \in Seq(C!Lines) /\ Len(asked') = Len(asked) + 1
          /\ \A i \in 1..Len(asked) : asked'[i] = asked[i]
      BY <3>1, <1>t, OneMore DEF C!CoproTypeOK
    <3>3. C!CoproTypeOK'
      BY <1>4, <1>t, <2>1, <3>2 DEF C!Fgets, C!CoproTypeOK
    <3>4. CoproHolds'
      BY <1>4, <1>t, <2>1 DEF C!Fgets, CoproHolds, C!ParentEnded, Talks
    <3>5. Len(asked) \in Nat /\ Len(shown) \in Nat
      BY <1>t DEF C!CoproTypeOK
    <3>6. CoproTalk'
      BY <1>4, <1>t, <2>1, <3>2, <3>5 DEF C!Fgets, CoproTalk, NothingUnderWay
    <3> QED
      BY <3>3, <3>4, <3>6 DEF CoproInv
  <2>2. CASE (C!ParentEnds("exit0") \/ C!ParentEnds("exit1")) /\ UNCHANGED asked
    <3>1. C!CoproTypeOK'
      BY <1>4, <1>t, <2>2 DEF C!Fgets, C!CoproTypeOK, C!ParentEnds, C!ParentEnded
    <3>2. CoproHolds'
      BY <1>4, <1>t, <2>2 DEF C!Fgets, CoproHolds, C!CoproTypeOK, C!ParentEnds, C!ParentEnded, Talks
    <3>3. copro' \in C!ParentEnded
      BY <2>2 DEF C!ParentEnds, C!ParentEnded
    <3> QED
      BY <1>4, <2>2, <3>1, <3>2, <3>3, CoproQuiet DEF C!Fgets, CoproInv
  <2> QED
    BY <1>4, <2>1, <2>2 DEF C!Fgets
<1>5. CASE C!CoproWrite
  <2>1. copro = "write" /\ Len(asked) = Len(shown) + 1 /\ NothingUnderWay
    BY <1>5, <1>t DEF C!CoproWrite, CoproTalk
  <2>2. C!Line \in C!Lines /\ Len(shown) \in Nat
    BY <1>t, <2>1 DEF C!Line, C!CoproTypeOK
  <2>3. CASE C!Line = "empty" \/ C!Readers("r1") # {}
    <3>1. /\ copro' = "read" /\ UNCHANGED <<holds, add2, pipe2, asked, shown, request>>
          /\ pipe1' = IF C!Line = "empty" THEN pipe1 ELSE Append(pipe1, C!Line)
      BY <1>5, <2>3 DEF C!CoproWrite
    <3>2. C!Line' = C!Line
      BY <3>1 DEF C!Line
    <3>3. pipe1' = IF C!Line = "empty" THEN <<>> ELSE <<C!Line>>
      BY <3>1, <2>1 DEF NothingUnderWay
    <3>4. pipe1' \in Seq(C!Lines)
      BY <3>3, <2>2
    <3>5. C!CoproTypeOK'
      BY <1>t, <3>1, <3>4 DEF C!CoproTypeOK
    <3>6. CoproHolds'
      BY <1>t, <2>1, <3>1 DEF CoproHolds, C!ParentEnded, Talks
    <3>7. NothingUnderWay' \/ UnderWay'
      BY <2>1, <3>1, <3>2, <3>3 DEF NothingUnderWay, UnderWay
    <3>8. CoproTalk'
      BY <1>t, <2>1, <3>1, <3>7 DEF CoproTalk
    <3> QED
      BY <3>5, <3>6, <3>8 DEF CoproInv
  <2>4. CASE ~(C!Line = "empty" \/ C!Readers("r1") # {})
    <3>1. C!ParentEnds("exit1") /\ UNCHANGED <<add2, C!data>>
      BY <1>5, <2>4 DEF C!CoproWrite, C!data
    <3>2. C!CoproTypeOK'
      BY <1>t, <3>1 DEF C!CoproTypeOK, C!ParentEnds, C!ParentEnded, C!data
    <3>3. CoproHolds'
      BY <1>t, <3>1 DEF CoproHolds, C!CoproTypeOK, C!ParentEnds, C!ParentEnded, Talks
    <3>4. copro' \in C!ParentEnded
      BY <3>1 DEF C!ParentEnds, C!ParentEnded
    <3> QED
      BY <3>1, <3>2, <3>3, <3>4, CoproQuiet DEF CoproInv, C!data
  <2> QED
    BY <2>3, <2>4
<1>6. CASE C!ReadAnswer
  <2>1. copro = "read" /\ Len(asked) = Len(shown) + 1
    BY <1>6, <1>t DEF C!ReadAnswer, CoproTalk
  <2>2. pipe1 = <<>> /\ pipe2 = <<C!Answer[C!Line]>> /\ add2 # "answer"
    BY <1>6, <1>t DEF C!ReadAnswer, CoproTalk, NothingUnderWay, UnderWay
  <2>3. C!Answer[C!Line] \in Answers
    BY <1>t, <2>2 DEF C!CoproTypeOK, Answers
  <2>4. shown' = Append(shown, C!Answer[C!Line])
    BY <1>6, <1>t, <2>2, <2>3 DEF C!ReadAnswer, C!CoproTypeOK, Answers
  <2>5. /\ shown' \in Seq(Answers) /\ Len(shown') = Len(shown) + 1
        /\ \A i \in 1..Len(shown) : shown'[i] = shown[i]
        /\ shown'[Len(shown) + 1] = C!Answer[C!Line]
    BY <1>t, <2>3, <2>4, OneMore DEF C!CoproTypeOK, Answers
  <2>6. Len(shown) \in Nat
    BY <1>t DEF C!CoproTypeOK
  <2>7. copro' = "fgets" /\ pipe2' = <<>> /\ UNCHANGED <<add2, holds, pipe1, asked, request>>
    BY <1>6 DEF C!ReadAnswer
  <2>8. C!CoproTypeOK'
    BY <1>t, <2>5, <2>7 DEF C!CoproTypeOK, Answers
  <2>9. CoproHolds'
    BY <1>t, <2>1, <2>7 DEF CoproHolds, C!ParentEnded, Talks
  <2>10. \A i \in 1..Len(shown') : shown'[i] = C!Answer[asked'[i]]
    <3>1. TAKE i \in 1..Len(shown')
    <3>2. CASE i \in 1..Len(shown)
      BY <3>2, <1>t, <2>5, <2>7 DEF CoproTalk
    <3>3. CASE i = Len(shown) + 1
      BY <3>3, <2>1, <2>5, <2>7 DEF C!Line
    <3> QED
      BY <2>5, <2>6, <3>2, <3>3
  <2>11. CoproTalk'
    BY <2>1, <2>2, <2>5, <2>6, <2>7, <2>10 DEF CoproTalk, NothingUnderWay
  <2> QED
    BY <2>8, <2>9, <2>11 DEF CoproInv
<1>7. CASE C!ShowFails
  <2>1. C!CoproTypeOK'
    BY <1>7, <1>t DEF C!ShowFails, C!CoproTypeOK, C!ParentEnds, C!ParentEnded
  <2>2. CoproHolds'
    BY <1>7, <1>t DEF C!ShowFails, CoproHolds, C!CoproTypeOK, C!ParentEnds, C!ParentEnded, Talks
  <2>3. CoproTalk'
    BY <1>7, <1>t DEF C!ShowFails, CoproTalk, C!ParentEnds
  <2> QED
    BY <2>1, <2>2, <2>3 DEF CoproInv
<1>8. CASE C!ReadEnd
  <2>1. C!CoproTypeOK'
    BY <1>8, <1>t DEF C!ReadEnd, C!CoproTypeOK, C!ParentEnds, C!ParentEnded, C!data
  <2>2. CoproHolds'
    BY <1>8, <1>t DEF C!ReadEnd, CoproHolds, C!CoproTypeOK, C!ParentEnds, C!ParentEnded, Talks, C!data
  <2>3. CoproTalk'
    BY <1>8, <1>t DEF C!ReadEnd, CoproTalk, C!ParentEnds, C!data
  <2> QED
    BY <2>1, <2>2, <2>3 DEF CoproInv
<1> QED
  BY <1>1, <1>2, <1>3, <1>4, <1>5, <1>6, <1>7, <1>8 DEF C!CoproParent

LEMMA CoproChildSteps == ASSUME CoproInv, C!CoproChild PROVE CoproInv'
<1> USE DEF C!CoproProcs, C!Ends
<1>t. C!CoproTypeOK /\ CoproHolds /\ CoproTalk
  BY DEF CoproInv
<1>1. CASE C!ChildPlumbs
  <2>1. C!CoproTypeOK'
    BY <1>1, <1>t DEF C!ChildPlumbs, C!CoproTypeOK, C!data, C!ChildEnded
  <2>2. CoproHolds'
    BY <1>1, <1>t DEF C!ChildPlumbs, CoproHolds, C!CoproTypeOK, C!data, C!ChildEnded, Serves, Talks
  <2> QED
    BY <1>1, <2>1, <2>2, CoproQuiet DEF C!ChildPlumbs, CoproInv, C!data, C!ChildEnded
<1>2. CASE C!CoproExec
  <2>1. C!CoproTypeOK'
    BY <1>2, <1>t DEF C!CoproExec, C!CoproChildEnds, C!CoproTypeOK, C!data, C!ChildEnded
  <2>2. CoproHolds'
    BY <1>2, <1>t DEF C!CoproExec, C!CoproChildEnds, CoproHolds, C!CoproTypeOK, C!data, C!ChildEnded, Serves, Talks
  <2> QED
    BY <1>2, <2>1, <2>2, CoproQuiet DEF C!CoproExec, C!CoproChildEnds, CoproInv, C!data, C!ChildEnded
<1>3. CASE C!ReadRequest
  <2>1. add2 = "read" /\ pipe1 # <<>>
    BY <1>3 DEF C!ReadRequest
  <2>2. /\ request' = pipe1 /\ pipe1' = <<>> /\ add2' = "answer"
        /\ UNCHANGED <<copro, holds, pipe2, asked, shown>>
    BY <1>3 DEF C!ReadRequest
  <2>3. copro = "read" => pipe1 = <<C!Line>> /\ pipe2 = <<>> /\ C!Line # "empty"
    BY <1>t, <2>1 DEF CoproTalk, NothingUnderWay, UnderWay
  <2>4. copro \in C!ParentEnded \cup {"read"}
    BY <1>t, <2>1 DEF CoproTalk, NothingUnderWay, C!CoproTypeOK
  <2>5. C!Line' = C!Line
    BY <2>2 DEF C!Line
  <2>6. C!CoproTypeOK'
    BY <1>t, <2>2 DEF C!CoproTypeOK
  <2>7. CoproHolds'
    BY <1>t, <2>1, <2>2 DEF CoproHolds, Serves, C!ChildEnded
  <2>8. copro = "read" => UnderWay'
    BY <2>2, <2>3, <2>5 DEF UnderWay
  <2>9. CoproTalk'
    BY <1>t, <2>2, <2>4, <2>8 DEF CoproTalk, C!ParentEnded
  <2> QED
    BY <2>6, <2>7, <2>9 DEF CoproInv
<1>4. CASE C!ReadNothing
  <2>1. C!CoproTypeOK'
    BY <1>4, <1>t DEF C!ReadNothing, C!CoproChildEnds, C!CoproTypeOK, C!data, C!ChildEnded
  <2>2. CoproHolds'
    BY <1>4, <1>t DEF C!ReadNothing, C!CoproChildEnds, CoproHolds, C!CoproTypeOK, C!data, C!ChildEnded, Serves, Talks
  <2> QED
    BY <1>4, <2>1, <2>2, CoproQuiet DEF C!ReadNothing, C!CoproChildEnds, CoproInv, C!data, C!ChildEnded
<1>5. CASE C!AnswerIt
  <2>0. add2 = "answer"
    BY <1>5 DEF C!AnswerIt
  <2>1. CASE C!Readers("r2") # {}
    <3>1. /\ add2' = "read" /\ pipe2' = Append(pipe2, C!Answer[request[1]])
          /\ UNCHANGED <<holds, copro, pipe1, asked, shown, request>>
      BY <1>5, <2>1 DEF C!AnswerIt
    <3>2. holds["child"] = {"r1", "w2"}
      BY <1>t, <2>0 DEF CoproHolds, Serves
    <3>3. "r2" \in holds["parent"]
      BY <2>1, <3>2 DEF C!Readers
    <3>4. copro = "read"
      BY <1>t, <2>0, <3>3 DEF CoproTalk, CoproHolds, NothingUnderWay, C!CoproTypeOK
    <3>5. pipe1 = <<>> /\ pipe2 = <<>> /\ request = <<C!Line>> /\ C!Line # "empty"
      BY <1>t, <2>0, <3>4 DEF CoproTalk, NothingUnderWay, UnderWay
    <3>6. C!Line \in C!Lines /\ C!Line' = C!Line
      BY <1>t, <3>1, <3>5 DEF C!CoproTypeOK, C!Line
    <3>7. C!Answer[C!Line] \in Answers
      BY <3>5, <3>6 DEF C!Answer, C!Lines, Answers
    <3>8. pipe2' = <<C!Answer[C!Line]>> /\ pipe2' \in Seq(Answers)
      BY <3>1, <3>5, <3>7
    <3>9. C!CoproTypeOK'
      BY <1>t, <3>1, <3>8 DEF C!CoproTypeOK, Answers
    <3>10. CoproHolds'
      BY <1>t, <2>0, <3>1 DEF CoproHolds, Serves, C!ChildEnded
    <3>11. UnderWay'
      BY <3>1, <3>5, <3>6, <3>8 DEF UnderWay
    <3>12. CoproTalk'
      BY <1>t, <3>1, <3>4, <3>11 DEF CoproTalk
    <3> QED
      BY <3>9, <3>10, <3>12 DEF CoproInv
  <2>2. CASE C!Readers("r2") = {}
    <3>1. C!CoproChildEnds("killed") /\ UNCHANGED <<copro, C!data>>
      BY <1>5, <2>2 DEF C!AnswerIt, C!data
    <3>2. C!CoproTypeOK'
      BY <1>t, <3>1 DEF C!CoproChildEnds, C!CoproTypeOK, C!data, C!ChildEnded
    <3>3. CoproHolds'
      BY <1>t, <2>0, <3>1 DEF C!CoproChildEnds, CoproHolds, C!CoproTypeOK, C!ChildEnded, Serves, Talks
    <3> QED
      BY <3>1, <3>2, <3>3, CoproQuiet DEF C!CoproChildEnds, CoproInv, C!data, C!ChildEnded
  <2> QED
    BY <2>1, <2>2
<1> QED
  BY <1>1, <1>2, <1>3, <1>4, <1>5 DEF C!CoproChild

LEMMA CoproSteps == ASSUME CoproInv, C!CoproNext PROVE CoproInv'
<1> USE DEF C!CoproProcs, C!Ends
<1>1. CASE C!Killed
  <2>t. C!CoproTypeOK /\ CoproHolds /\ CoproTalk
    BY DEF CoproInv
  <2>1. C!CoproTypeOK'
    BY <1>1, <2>t DEF C!Killed, C!ParentEnds, C!CoproChildEnds, C!CoproTypeOK, C!data, C!ChildEnded,
                      C!ParentEnded
  <2>2. CoproHolds'
    BY <1>1, <2>t DEF C!Killed, C!ParentEnds, C!CoproChildEnds, CoproHolds, C!CoproTypeOK, C!data,
                      C!ChildEnded, C!ParentEnded, Serves, Talks
  <2> QED
    BY <1>1, <2>1, <2>2, CoproQuiet DEF C!Killed, C!ParentEnds, C!CoproChildEnds, CoproInv, C!data,
                                        C!ChildEnded, C!ParentEnded
<1> QED
  BY <1>1, CoproParentSteps, CoproChildSteps DEF C!CoproNext

LEMMA CoproAnswers == ASSUME CoproInv PROVE C!CoproTypeOK /\ C!AnswersInStep
BY DEF CoproInv, CoproTalk, C!AnswersInStep, NothingUnderWay

------------------------------------------------------------------------------
(* pipe.c and pager.c *)

\* Which ends the parent and its child have, by what they do next.
CopyHolds ==
  /\ feeder \in {"fork", "closer"} => ends["parent"] = {"r", "w"}
  /\ feeder = "copy" => ends["parent"] = {"w"}
  /\ feeder \in P!Ended \cup {"waitpid"} => ends["parent"] = {}
  /\ pager = "closew" => ends["child"] = {"r", "w"}
  /\ pager \in {"dup2", "read"} => ends["child"] = {"r"}
  /\ pager \in P!Ended \cup {"none"} => ends["child"] = {}
  /\ feeder = "fork" => pager = "none"
  /\ pager = "none" => feeder \in {"fork", "failed"}

\* The lines that were written are those that were read and those in the pipe.
CopyLines ==
  /\ Len(paged) + Len(pipe) = sent
  /\ \A i \in 1..Len(paged) : paged[i] = i
  /\ \A i \in 1..Len(pipe) : pipe[i] = Len(paged) + i
  /\ eof => Len(paged) = sent /\ feeder \notin {"fork", "closer", "copy"}
  /\ feeder \in {"killed", "done"} => pager \in P!Ended

CopyTypes ==
  /\ prog \in {"pipe", "pager"} /\ lines \in 0..MaxLines \cup {1}
  /\ feeder \in P!Ended \cup {"fork", "closer", "copy", "waitpid"}
  /\ pager \in P!Ended \cup {"none", "closew", "dup2", "read"}
  /\ ends \in [P!CopyProcs -> SUBSET {"r", "w"}]
  /\ pipe \in Seq(Nat) /\ Len(pipe) <= PipeSize
  /\ sent \in 0..lines /\ paged \in Seq(Nat) /\ eof \in BOOLEAN

CopyInv == CopyTypes /\ CopyHolds /\ CopyLines

LEMMA CopyStarts == ASSUME P!CopyInit PROVE CopyInv
<1>1. MaxLines \in Nat /\ PipeSize \in Nat
  BY ProcessAssumption
<1>2. lines \in 0..MaxLines \cup {1} /\ lines \in Nat
  BY <1>1 DEF P!CopyInit
<1>3. pipe = <<>> /\ paged = <<>> /\ pipe \in Seq(Nat) /\ paged \in Seq(Nat) /\ Len(pipe) = 0
  BY DEF P!CopyInit
<1>e. ends \in [P!CopyProcs -> SUBSET {"r", "w"}]
  BY DEF P!CopyInit, P!CopyProcs
<1>4. CopyTypes
  <2>1. prog \in {"pipe", "pager"} /\ feeder = "fork" /\ pager = "none" /\ eof = FALSE /\ sent = 0
    BY DEF P!CopyInit
  <2>2. Len(pipe) <= PipeSize /\ sent \in 0..lines
    BY <1>1, <1>2, <1>3, <2>1
  <2> QED
    BY <1>2, <1>3, <1>e, <2>1, <2>2 DEF CopyTypes
<1>5. CopyHolds
  BY DEF P!CopyInit, CopyHolds, P!Ended
<1>6. CopyLines
  BY <1>3 DEF P!CopyInit, CopyLines
<1> QED
  BY <1>4, <1>5, <1>6 DEF CopyInv

LEMMA CopySteps == ASSUME CopyInv, P!CopyNext PROVE CopyInv'
<1> USE DEF P!Ended, P!CopyProcs
<1>t. CopyTypes /\ CopyHolds /\ CopyLines
  BY DEF CopyInv
<1>n. /\ Len(pipe) \in Nat /\ Len(paged) \in Nat /\ sent \in Nat /\ lines \in Nat
      /\ PipeSize \in Nat
  BY <1>t, ProcessAssumption DEF CopyTypes
<1>1. CASE P!CopyFork
  BY <1>1, <1>t DEF P!CopyFork, CopyInv, CopyTypes, CopyHolds, CopyLines
<1>2. CASE P!CloseRead
  BY <1>2, <1>t DEF P!CloseRead, CopyInv, CopyTypes, CopyHolds, CopyLines
<1>3. CASE P!CopyWrite
  <2>1. CASE P!Readable
    <3>1. /\ Len(pipe) < PipeSize /\ pipe' = Append(pipe, sent + 1) /\ sent' = sent + 1
          /\ sent < lines /\ feeder = "copy"
          /\ UNCHANGED <<feeder, ends, prog, lines, pager, paged, eof>>
      BY <1>3, <2>1 DEF P!CopyWrite
    <3>2. sent + 1 \in Nat
      BY <1>n
    <3>3. /\ pipe' \in Seq(Nat) /\ Len(pipe') = Len(pipe) + 1
          /\ \A i \in 1..Len(pipe) : pipe'[i] = pipe[i]
          /\ pipe'[Len(pipe) + 1] = sent + 1
      BY <3>1, <3>2, <1>t, OneMore DEF CopyTypes
    <3>4. \A i \in 1..Len(pipe') : pipe'[i] = Len(paged) + i
      <4>1. TAKE i \in 1..Len(pipe')
      <4>2. i \in 1..Len(pipe) \/ i = Len(pipe) + 1
        BY <3>3, <1>n
      <4> QED
        BY <4>2, <3>3, <1>t, <1>n DEF CopyLines
    <3>0. Len(paged) + Len(pipe) = sent
      BY <1>t DEF CopyLines
    <3>5. Len(pipe') <= PipeSize /\ sent' \in 0..lines /\ Len(paged) + Len(pipe') = sent'
      BY <3>0, <3>1, <3>3, <1>n
    <3>6. CopyTypes'
      BY <3>1, <3>3, <3>5, <1>t DEF CopyTypes
    <3>7. CopyHolds'
      BY <3>1, <1>t DEF CopyHolds
    <3>8. CopyLines'
      BY <3>1, <3>4, <3>5, <1>t DEF CopyLines
    <3> QED
      BY <3>6, <3>7, <3>8 DEF CopyInv
  <2>2. CASE ~P!Readable
    <3>1. /\ feeder' \in {"killed", "failed"} /\ ends' = [ends EXCEPT !["parent"] = {}]
          /\ feeder = "copy" /\ UNCHANGED <<pipe, sent, prog, lines, pager, paged, eof>>
      BY <1>3, <2>2 DEF P!CopyWrite
    <3>2. pager \in P!Ended
      BY <3>1, <2>2, <1>t DEF P!Readable, CopyHolds, CopyTypes
    <3> QED
      BY <3>1, <3>2, <1>t DEF CopyInv, CopyTypes, CopyHolds, CopyLines
  <2> QED
    BY <2>1, <2>2
<1>4. CASE P!CloseWrite
  BY <1>4, <1>t DEF P!CloseWrite, CopyInv, CopyTypes, CopyHolds, CopyLines
<1>5. CASE P!Waitpid
  BY <1>5, <1>t DEF P!Waitpid, CopyInv, CopyTypes, CopyHolds, CopyLines
<1>6. CASE P!FgetsFails
  BY <1>6, <1>t DEF P!FgetsFails, CopyInv, CopyTypes, CopyHolds, CopyLines
<1>7. CASE P!ChildCloseWrite
  BY <1>7, <1>t DEF P!ChildCloseWrite, CopyInv, CopyTypes, CopyHolds, CopyLines
<1>8. CASE P!CopyExec
  BY <1>8, <1>t DEF P!CopyExec, CopyInv, CopyTypes, CopyHolds, CopyLines
<1>9. CASE P!Quit
  BY <1>9, <1>t DEF P!Quit, P!CopyChildEnds, CopyInv, CopyTypes, CopyHolds, CopyLines
<1>10. CASE P!Read
  <2>0. pager = "read" /\ UNCHANGED <<prog, lines, feeder, sent>>
    BY <1>10 DEF P!Read
  <2>1. CASE pipe # <<>>
    <3>1. /\ paged' = Append(paged, Head(pipe)) /\ pipe' = Tail(pipe) /\ eof' = eof
          /\ P!CopyChildEnds \/ UNCHANGED <<pager, ends>>
      BY <1>10, <2>1 DEF P!Read
    <3>2. /\ Head(pipe) = Len(paged) + 1 /\ Head(pipe) \in Nat
          /\ pipe' \in Seq(Nat) /\ Len(pipe') = Len(pipe) - 1
          /\ \A i \in 1..Len(pipe') : pipe'[i] = pipe[i + 1]
      BY <3>1, <2>1, <1>t, <1>n DEF CopyTypes, CopyLines
    <3>3. /\ paged' \in Seq(Nat) /\ Len(paged') = Len(paged) + 1
          /\ \A i \in 1..Len(paged) : paged'[i] = paged[i]
          /\ paged'[Len(paged) + 1] = Len(paged) + 1
      BY <3>1, <3>2, <1>t, OneMore DEF CopyTypes
    <3>4. Len(pipe) # 0
      BY <2>1, <1>t DEF CopyTypes
    <3>5. \A i \in 1..Len(paged') : paged'[i] = i
      <4>1. TAKE i \in 1..Len(paged')
      <4>2. i \in 1..Len(paged) \/ i = Len(paged) + 1
        BY <3>3, <1>n
      <4>3. i \in 1..Len(paged) => paged[i] = i
        BY <1>t DEF CopyLines
      <4> QED
        BY <4>2, <4>3, <3>3
    <3>6. \A i \in 1..Len(pipe') : pipe'[i] = Len(paged') + i
      <4>1. TAKE i \in 1..Len(pipe')
      <4>2. i + 1 \in 1..Len(pipe) /\ Len(paged) + (i + 1) = (Len(paged) + 1) + i
        BY <3>2, <1>n
      <4> QED
        BY <4>2, <3>2, <3>3, <1>t DEF CopyLines
    <3>0. Len(paged) + Len(pipe) = sent /\ Len(pipe) <= PipeSize
      BY <1>t DEF CopyLines, CopyTypes
    <3>7. Len(pipe') <= PipeSize /\ Len(paged') + Len(pipe') = sent
      <4>1. Len(pipe') = Len(pipe) - 1 /\ Len(paged') = Len(paged) + 1
        BY <3>2, <3>3
      <4> QED
        BY <3>0, <4>1, <1>n
    <3>8. ~eof
      BY <3>4, <1>n, <1>t DEF CopyLines
    <3>9. CopyTypes'
      BY <2>0, <3>1, <3>2, <3>3, <3>7, <1>t DEF CopyTypes, P!CopyChildEnds
    <3>10. CopyHolds'
      BY <2>0, <3>1, <1>t DEF CopyHolds, CopyTypes, P!CopyChildEnds
    <3>11. CopyLines'
      BY <2>0, <3>1, <3>5, <3>6, <3>7, <3>8, <1>t DEF CopyLines, P!CopyChildEnds
    <3> QED
      BY <3>9, <3>10, <3>11 DEF CopyInv
  <2>2. CASE pipe = <<>>
    <3>1. ~P!Writable /\ eof' = TRUE /\ P!CopyChildEnds /\ UNCHANGED <<pipe, paged>>
      BY <1>10, <2>2 DEF P!Read
    <3>2. feeder \notin {"fork", "closer", "copy"}
      BY <3>1, <1>t DEF P!Writable, CopyHolds
    <3>3. Len(paged) = sent
      BY <2>2, <1>t, <1>n DEF CopyLines
    <3>4. CopyTypes'
      BY <2>0, <3>1, <1>t DEF CopyTypes, P!CopyChildEnds
    <3>5. CopyHolds'
      BY <2>0, <3>1, <1>t DEF CopyHolds, CopyTypes, P!CopyChildEnds
    <3>6. CopyLines'
      BY <2>0, <3>1, <3>2, <3>3, <1>t DEF CopyLines, P!CopyChildEnds
    <3> QED
      BY <3>4, <3>5, <3>6 DEF CopyInv
  <2> QED
    BY <2>1, <2>2
<1> QED
  BY <1>1, <1>2, <1>3, <1>4, <1>5, <1>6, <1>7, <1>8, <1>9, <1>10 DEF P!CopyNext, P!CopyParent, P!CopyChild

LEMMA CopyHoldsTrue ==
  ASSUME CopyInv
  PROVE  P!CopyTypeOK /\ P!LinesInOrder /\ P!DiesOnlyAfterPager /\ P!ParentEndsLast
<1>t. CopyTypes /\ CopyLines
  BY DEF CopyInv
<1>n. Len(pipe) \in Nat /\ Len(paged) \in Nat /\ sent \in Nat /\ lines \in Nat /\ sent <= lines
  BY <1>t DEF CopyTypes
<1>1. \A i \in 1..Len(pipe) : pipe[i] \in 1..lines
  BY <1>t, <1>n DEF CopyLines
<1>2. \A i \in 1..Len(paged) : paged[i] \in 1..lines
  BY <1>t, <1>n DEF CopyLines
<1>3. pipe \in Seq(1..lines) /\ paged \in Seq(1..lines)
  <2>1. pipe \in Seq(Nat) /\ paged \in Seq(Nat)
    BY <1>t DEF CopyTypes
  <2>2. pipe \in [1..Len(pipe) -> 1..lines] /\ paged \in [1..Len(paged) -> 1..lines]
    BY <1>1, <1>2, <2>1
  <2> QED
    BY <1>n, <2>2
<1>4. P!CopyTypeOK
  BY <1>3, <1>t DEF P!CopyTypeOK, CopyTypes
<1>5. DOMAIN paged = 1..Len(paged)
  BY <1>t DEF CopyTypes
<1>6. P!LinesInOrder
  <2>1. /\ Len(paged) + Len(pipe) = sent /\ \A i \in 1..Len(paged) : paged[i] = i
        /\ eof => Len(paged) = sent /\ feeder \notin {"fork", "closer", "copy"}
    BY <1>t DEF CopyLines
  <2>2. Len(paged) <= sent
    BY <2>1, <1>n
  <2> QED
    BY <1>5, <2>1, <2>2 DEF P!LinesInOrder
<1> QED
  BY <1>4, <1>6, <1>t DEF CopyLines, P!DiesOnlyAfterPager, P!ParentEndsLast

------------------------------------------------------------------------------
(* msgsnd.c and msgrcv.c *)

Messages == [type : 1..MaxType, from : Senders \cup {Earlier}]

QueueTypes ==
  /\ next \in [P!Runs -> 0..MaxType + 1] /\ killed \subseteq P!Runs
  /\ \A s \in Senders : next[s] >= 1
  /\ queue \in Seq(Messages) /\ Len(queue) <= Room
  /\ got \in [Receivers -> Seq(Messages)]

\* A receiver has taken one message of each type above the next one.
QueueGot ==
  \A r \in Receivers :
    /\ Len(got[r]) + next[r] = MaxType
    /\ \A i \in 1..Len(got[r]) : got[r][i].type = MaxType + 1 - i

\* Where a message is.
PlacesOf(m) == {i \in DOMAIN queue : queue[i] = m}
TakenBy(m)  == {r \in Receivers : \E i \in DOMAIN got[r] : got[r][i] = m}

\* A message is in one place once it is sent.
InOnePlace(m) == \/ (\E i : PlacesOf(m) = {i}) /\ TakenBy(m) = {}
                 \/ PlacesOf(m) = {} /\ (\E r : TakenBy(m) = {r})
Nowhere(m) == PlacesOf(m) = {} /\ TakenBy(m) = {}

QueueOnce ==
  \A s \in Senders, t \in 1..MaxType :
    IF t < next[s] THEN InOnePlace(P!Message(t, s)) ELSE Nowhere(P!Message(t, s))

\* What an earlier run has left comes first.
QueueEarlier ==
  \A i, j \in 1..Len(queue) : i < j /\ queue[j].from = Earlier => queue[i].from = Earlier

QueueInv == QueueTypes /\ QueueGot /\ QueueOnce /\ QueueEarlier

LEMMA QueueStarts == ASSUME P!QueueInit PROVE QueueInv
<1>0. MaxType \in Nat /\ Room \in Nat /\ MaxType <= Room /\ Earlier \notin Senders
      /\ Senders \cap Receivers = {}
  BY ProcessAssumption
<1>1. PICK k \in 0..MaxType : queue = [i \in 1..k |-> P!Message(i, Earlier)]
  BY DEF P!QueueInit
<1>2. \A i \in 1..k : P!Message(i, Earlier) \in Messages
  BY <1>0 DEF P!Message, Messages
<1>3. queue \in Seq(Messages) /\ Len(queue) = k
  <2>1. queue \in [1..k -> Messages]
    BY <1>1, <1>2
  <2> QED
    BY <2>1, <1>0
<1>4. QueueTypes
  BY <1>0, <1>3 DEF P!QueueInit, P!Runs, QueueTypes
<1>5. QueueGot
  BY <1>0 DEF P!QueueInit, P!Runs, QueueGot
<1>6. \A i \in 1..k : queue[i].from = Earlier
  BY <1>1 DEF P!Message
<1>7. QueueEarlier
  BY <1>3, <1>6 DEF QueueEarlier
<1>8. ASSUME NEW s \in Senders, NEW t \in 1..MaxType PROVE Nowhere(P!Message(t, s))
  <2>1. PlacesOf(P!Message(t, s)) = {}
    BY <1>0, <1>3, <1>6 DEF PlacesOf, P!Message
  <2>2. TakenBy(P!Message(t, s)) = {}
    BY DEF TakenBy, P!QueueInit
  <2> QED
    BY <2>1, <2>2 DEF Nowhere
<1>9. \A s \in Senders : next[s] = 1
  BY DEF P!QueueInit, P!Runs
<1>10. QueueOnce
  BY <1>8, <1>9 DEF QueueOnce
<1> QED
  BY <1>4, <1>5, <1>7, <1>10 DEF QueueInv

LEMMA SendSteps == ASSUME QueueInv, NEW s \in Senders, P!Send(s) PROVE QueueInv'
<1>0. /\ MaxType \in Nat /\ Room \in Nat /\ Earlier \notin Senders
      /\ \A r \in Receivers : r \notin Senders
  BY ProcessAssumption
<1>t. QueueTypes /\ QueueGot /\ QueueOnce /\ QueueEarlier
  BY DEF QueueInv
<1> DEFINE m == P!Message(next[s], s)
<1>1. /\ next[s] <= MaxType /\ Len(queue) < Room /\ queue' = Append(queue, m)
      /\ next' = [next EXCEPT ![s] = @ + 1] /\ UNCHANGED <<got, killed>>
  BY DEF P!Send
<1>2. next[s] \in 1..MaxType /\ s \in P!Runs
  BY <1>0, <1>1, <1>t DEF QueueTypes, P!Runs
<1>3. m \in Messages /\ m.from = s
  BY <1>2 DEF P!Message, Messages
<1>4. /\ queue' \in Seq(Messages) /\ Len(queue') = Len(queue) + 1 /\ Len(queue) \in Nat
      /\ \A i \in 1..Len(queue) : queue'[i] = queue[i]
      /\ queue'[Len(queue) + 1] = m
  BY <1>1, <1>3, <1>t, OneMore DEF QueueTypes
<1>5. /\ \A r \in Receivers : next'[r] = next[r]
      /\ \A q \in Senders : next'[q] = IF q = s THEN next[s] + 1 ELSE next[q]
  BY <1>0, <1>1, <1>2, <1>t DEF QueueTypes, P!Runs
<1>6. QueueTypes'
  <2>1. next[s] + 1 \in 0..MaxType + 1
    BY <1>0, <1>2
  <2>2. next' \in [P!Runs -> 0..MaxType + 1]
    BY <1>1, <2>1, <1>t DEF QueueTypes
  <2>3. \A q \in Senders : next'[q] >= 1
    BY <1>2, <1>5, <1>t DEF QueueTypes
  <2>4. Len(queue') <= Room
    BY <1>0, <1>1, <1>4
  <2> QED
    BY <1>1, <1>4, <2>2, <2>3, <2>4, <1>t DEF QueueTypes
<1>7. QueueGot'
  BY <1>1, <1>5, <1>t DEF QueueGot
<1>8. QueueEarlier'
  <2> SUFFICES ASSUME NEW i \in 1..Len(queue'), NEW j \in 1..Len(queue'), i < j,
                      queue'[j].from = Earlier
               PROVE  queue'[i].from = Earlier
    BY DEF QueueEarlier
  <2>1. j # Len(queue) + 1
    BY <1>0, <1>3, <1>4
  <2>2. j \in 1..Len(queue) /\ i \in 1..Len(queue)
    BY <2>1, <1>4
  <2> QED
    BY <2>2, <1>4, <1>t DEF QueueEarlier
<1>9. DOMAIN queue = 1..Len(queue) /\ DOMAIN queue' = 1..(Len(queue) + 1)
  BY <1>4, <1>t DEF QueueTypes
<1>10. QueueOnce'
  <2> SUFFICES ASSUME NEW q \in Senders, NEW t \in 1..MaxType
               PROVE  IF t < next'[q] THEN InOnePlace(P!Message(t, q))' ELSE Nowhere(P!Message(t, q))'
    BY DEF QueueOnce
  <2> DEFINE n == P!Message(t, q)
  <2>1. TakenBy(n)' = TakenBy(n)
    BY <1>1 DEF TakenBy
  <2>2. CASE n = m
    <3>1. t = next[s] /\ q = s
      BY <2>2 DEF P!Message
    <3>2. PlacesOf(n) = {} /\ TakenBy(n) = {}
      BY <3>1, <1>2, <1>t DEF QueueOnce, Nowhere
    <3>3. PlacesOf(n)' = {Len(queue) + 1}
      <4>1. \A i \in 1..Len(queue) : queue[i] # n
        BY <3>2, <1>9 DEF PlacesOf
      <4>2. \A i \in 1..(Len(queue) + 1) : queue'[i] = n <=> i = Len(queue) + 1
        BY <4>1, <2>2, <1>4
      <4>3. Len(queue) + 1 \in 1..(Len(queue) + 1)
        BY <1>4
      <4> QED
        BY <4>2, <4>3, <1>9 DEF PlacesOf
    <3>4. InOnePlace(n)'
      BY <3>2, <3>3, <2>1 DEF InOnePlace
    <3>5. t < next'[q]
      BY <3>1, <1>2, <1>5
    <3> QED
      BY <3>4, <3>5
  <2>3. CASE n # m
    <3>1. PlacesOf(n)' = PlacesOf(n)
      <4>1. \A i \in 1..(Len(queue) + 1) : queue'[i] = n <=> i \in 1..Len(queue) /\ queue[i] = n
        BY <2>3, <1>4
      <4>2. 1..Len(queue) \subseteq 1..(Len(queue) + 1)
        BY <1>4
      <4> QED
        BY <4>1, <4>2, <1>9 DEF PlacesOf
    <3>2. /\ InOnePlace(n)' <=> InOnePlace(n)
          /\ Nowhere(n)' <=> Nowhere(n)
      BY <3>1, <2>1 DEF InOnePlace, Nowhere
    <3>3. t < next'[q] <=> t < next[q]
      <4>1. q = s => t # next[s]
        BY <2>3
      <4>2. next[s] \in Nat
        BY <1>2, <1>0
      <4> QED
        BY <4>1, <4>2, <1>5
    <3>4. IF t < next[q] THEN InOnePlace(n) ELSE Nowhere(n)
      BY <1>t DEF QueueOnce
    <3> QED
      BY <3>2, <3>3, <3>4
  <2> QED
    BY <2>2, <2>3
<1> QED
  BY <1>6, <1>7, <1>8, <1>10 DEF QueueInv

LEMMA ReceiveSteps == ASSUME QueueInv, NEW r \in Receivers, P!Receive(r) PROVE QueueInv'
<1>0. /\ MaxType \in Nat /\ Room \in Nat /\ Earlier \notin Senders
      /\ r \notin Senders /\ r \in P!Runs
  BY ProcessAssumption DEF P!Runs
<1>t. QueueTypes /\ QueueGot /\ QueueOnce /\ QueueEarlier
  BY DEF QueueInv
<1>1. PICK i \in P!Oldest(next[r]) :
        /\ queue' = SubSeq(queue, 1, i - 1) \o SubSeq(queue, i + 1, Len(queue))
        /\ got' = [got EXCEPT ![r] = Append(@, queue[i])]
  BY DEF P!Receive
<1>2. next[r] > 0 /\ next' = [next EXCEPT ![r] = @ - 1] /\ UNCHANGED killed
  BY DEF P!Receive
<1> DEFINE m == queue[i]
<1>3. /\ i \in 1..Len(queue) /\ m.type = next[r] /\ m \in Messages /\ Len(queue) \in Nat
      /\ DOMAIN queue = 1..Len(queue)
  BY <1>1, <1>t DEF P!Oldest, QueueTypes
<1>4. /\ queue' \in Seq(Messages) /\ Len(queue') = Len(queue) - 1
      /\ \A j \in 1..Len(queue') : queue'[j] = queue[IF j < i THEN j ELSE j + 1]
  BY <1>1, <1>3, <1>t, OneLess DEF QueueTypes
<1>5. /\ next[r] \in 1..MaxType
      /\ \A q \in Receivers : next'[q] = IF q = r THEN next[r] - 1 ELSE next[q]
      /\ \A s \in Senders : next'[s] = next[s]
  BY <1>0, <1>2, <1>3, <1>t DEF QueueTypes, P!Runs, Messages
<1>6. /\ got[r] \in Seq(Messages) /\ Len(got[r]) \in Nat
      /\ got' \in [Receivers -> Seq(Messages)]
      /\ got'[r] = Append(got[r], m)
      /\ \A q \in Receivers \ {r} : got'[q] = got[q]
  <2>1. got[r] \in Seq(Messages)
    BY <1>t DEF QueueTypes
  <2>2. Append(got[r], m) \in Seq(Messages)
    BY <2>1, <1>3
  <2>3. got \in [Receivers -> Seq(Messages)]
    BY <1>t DEF QueueTypes
  <2>4. got' = [got EXCEPT ![r] = Append(got[r], m)]
    BY <1>1, <2>3
  <2> HIDE DEF m
  <2>5. got' \in [Receivers -> Seq(Messages)]
    BY <2>2, <2>3, <2>4
  <2>6. got'[r] = Append(got[r], m) /\ \A q \in Receivers \ {r} : got'[q] = got[q]
    BY <2>3, <2>4
  <2>7. Len(got[r]) \in Nat
    BY <2>1
  <2> QED
    BY <2>1, <2>5, <2>6, <2>7
<1>7. /\ Len(got'[r]) = Len(got[r]) + 1
      /\ \A j \in 1..Len(got[r]) : got'[r][j] = got[r][j]
      /\ got'[r][Len(got[r]) + 1] = m
  BY <1>3, <1>6, OneMore
<1> HIDE DEF m
<1>8. QueueTypes'
  <2>1. next[r] - 1 \in 0..MaxType + 1
    BY <1>0, <1>5
  <2>2. next' \in [P!Runs -> 0..MaxType + 1]
    BY <1>2, <2>1, <1>t DEF QueueTypes
  <2>3. Len(queue') <= Room
    BY <1>0, <1>3, <1>4, <1>t DEF QueueTypes
  <2> QED
    BY <1>2, <1>4, <1>5, <1>6, <2>2, <2>3, <1>t DEF QueueTypes
<1>9. QueueGot'
  <2>1. ASSUME NEW q \in Receivers, q # r
        PROVE  /\ Len(got'[q]) + next'[q] = MaxType
               /\ \A j \in 1..Len(got'[q]) : got'[q][j].type = MaxType + 1 - j
    BY <2>1, <1>5, <1>6, <1>t DEF QueueGot
  <2>2. Len(got[r]) + next[r] = MaxType
    BY <1>t DEF QueueGot
  <2>k. next'[r] = next[r] - 1 /\ next[r] \in Nat /\ Len(got[r]) \in Nat
    BY <1>0, <1>3, <1>5, <1>t DEF QueueTypes
  <2>3. Len(got'[r]) + next'[r] = MaxType
    BY <2>2, <2>k, <1>0, <1>7
  <2>4. ASSUME NEW j \in 1..Len(got'[r]) PROVE got'[r][j].type = MaxType + 1 - j
    <3>1. j \in 1..Len(got[r]) \/ j = Len(got[r]) + 1
      BY <1>6, <1>7
    <3>2. CASE j \in 1..Len(got[r])
      BY <3>2, <1>7, <1>t DEF QueueGot
    <3>3. CASE j = Len(got[r]) + 1
      <4>1. MaxType + 1 - j = next[r]
        BY <3>3, <2>2, <1>0, <1>5, <1>6
      <4> QED
        BY <3>3, <4>1, <1>3, <1>7 DEF m
    <3> QED
      BY <3>1, <3>2, <3>3
  <2> QED
    BY <2>1, <2>3, <2>4 DEF QueueGot
<1>10. QueueEarlier'
  <2> SUFFICES ASSUME NEW a \in 1..Len(queue'), NEW b \in 1..Len(queue'), a < b,
                      queue'[b].from = Earlier
               PROVE  queue'[a].from = Earlier
    BY DEF QueueEarlier
  <2> DEFINE a1 == IF a < i THEN a ELSE a + 1
             b1 == IF b < i THEN b ELSE b + 1
  <2>1. a1 \in 1..Len(queue) /\ b1 \in 1..Len(queue) /\ a1 < b1
    BY <1>3, <1>4
  <2>2. queue'[a] = queue[a1] /\ queue'[b] = queue[b1]
    BY <1>4
  <2> HIDE DEF a1, b1
  <2> QED
    BY <2>1, <2>2, <1>t DEF QueueEarlier
<1>11. DOMAIN queue' = 1..(Len(queue) - 1)
  BY <1>4, <1>t DEF QueueTypes
<1>12. \A q \in Receivers : got[q] \in Seq(Messages) /\ got'[q] \in Seq(Messages)
  BY <1>6, <1>t DEF QueueTypes
<1>13. QueueOnce'
  <2> SUFFICES ASSUME NEW s \in Senders, NEW t \in 1..MaxType
               PROVE  IF t < next[s] THEN InOnePlace(P!Message(t, s))' ELSE Nowhere(P!Message(t, s))'
    BY <1>5 DEF QueueOnce
  <2> DEFINE n == P!Message(t, s)
  <2>1. IF t < next[s] THEN InOnePlace(n) ELSE Nowhere(n)
    BY <1>t DEF QueueOnce
  <2> HIDE DEF n
  <2>2. CASE n = m
    <3>1. i \in PlacesOf(n)
      BY <2>2, <1>3 DEF PlacesOf, m
    <3>2. t < next[s] /\ PlacesOf(n) = {i} /\ TakenBy(n) = {}
      BY <2>1, <3>1 DEF InOnePlace, Nowhere
    <3>3. PlacesOf(n)' = {}
      <4> SUFFICES ASSUME NEW j \in 1..(Len(queue) - 1), queue'[j] = n PROVE FALSE
        BY <1>11 DEF PlacesOf, n
      <4> DEFINE j1 == IF j < i THEN j ELSE j + 1
      <4>1. j1 \in 1..Len(queue) /\ j1 # i
        BY <1>3
      <4>2. queue'[j] = queue[j1]
        BY <1>4
      <4> HIDE DEF j1
      <4>3. j1 \in PlacesOf(n)
        BY <4>1, <4>2, <1>3 DEF PlacesOf
      <4> QED
        BY <4>1, <4>3, <3>2
    <3>4. TakenBy(n)' = {r}
      <4>1. \A q \in Receivers : ~(\E j \in DOMAIN got[q] : got[q][j] = n)
        BY <3>2 DEF TakenBy
      <4>2. Len(got[r]) + 1 \in DOMAIN got'[r]
        BY <1>6, <1>7
      <4>3. got'[r][Len(got[r]) + 1] = n
        BY <1>7, <2>2
      <4>4. \A q \in Receivers : (\E j \in DOMAIN got'[q] : got'[q][j] = n) <=> q = r
        BY <4>1, <4>2, <4>3, <1>6
      <4> QED
        BY <4>4 DEF TakenBy, n
    <3>5. InOnePlace(n)'
      BY <3>3, <3>4 DEF InOnePlace, n
    <3> QED
      BY <3>2, <3>5 DEF n
  <2>3. CASE n # m
    <3>1. TakenBy(n)' = TakenBy(n)
      <4>1. \A q \in Receivers \ {r} : (\E j \in DOMAIN got'[q] : got'[q][j] = n)
                                        <=> \E j \in DOMAIN got[q] : got[q][j] = n
        BY <1>6
      <4>2. (\E j \in DOMAIN got'[r] : got'[r][j] = n) <=> \E j \in DOMAIN got[r] : got[r][j] = n
        <5>1. DOMAIN got[r] = 1..Len(got[r]) /\ DOMAIN got'[r] = 1..(Len(got[r]) + 1)
          BY <1>6, <1>7, <1>12
        <5>2. \A j \in 1..(Len(got[r]) + 1) : j \in 1..Len(got[r]) \/ j = Len(got[r]) + 1
          BY <1>6
        <5>3. 1..Len(got[r]) \subseteq 1..(Len(got[r]) + 1)
          BY <1>6
        <5> QED
          BY <5>1, <5>2, <5>3, <2>3, <1>7
      <4> QED
        BY <4>1, <4>2 DEF TakenBy, n
    <3>2. ASSUME NEW k, PlacesOf(n) = {k} PROVE \E l : PlacesOf(n)' = {l}
      <4>1. k \in 1..Len(queue) /\ queue[k] = n /\ k # i
        BY <3>2, <2>3, <1>3 DEF PlacesOf, m
      <4>2. \A j \in 1..Len(queue) : queue[j] = n => j = k
        BY <3>2, <1>3 DEF PlacesOf
      <4> DEFINE l == IF k < i THEN k ELSE k - 1
      <4>3. l \in 1..(Len(queue) - 1) /\ (IF l < i THEN l ELSE l + 1) = k
        BY <4>1, <1>3
      <4>4. queue'[l] = n
        BY <4>1, <4>3, <1>4
      <4>5. ASSUME NEW j \in 1..(Len(queue) - 1), queue'[j] = n PROVE j = l
        <5> DEFINE j1 == IF j < i THEN j ELSE j + 1
        <5>1. j1 \in 1..Len(queue) /\ queue[j1] = n
          BY <4>5, <1>3, <1>4
        <5>2. j1 = k
          BY <5>1, <4>2
        <5> QED
          BY <5>2, <1>3
      <4> HIDE DEF l
      <4>6. PlacesOf(n)' = {l}
        BY <4>3, <4>4, <4>5, <1>11 DEF PlacesOf, n
      <4> QED
        BY <4>6
    <3>3. ASSUME PlacesOf(n) = {} PROVE PlacesOf(n)' = {}
      <4> SUFFICES ASSUME NEW j \in 1..(Len(queue) - 1), queue'[j] = n PROVE FALSE
        BY <1>11 DEF PlacesOf, n
      <4> DEFINE j1 == IF j < i THEN j ELSE j + 1
      <4>1. j1 \in 1..Len(queue) /\ queue[j1] = n
        BY <1>3, <1>4
      <4> HIDE DEF j1
      <4> QED
        BY <4>1, <3>3, <1>3 DEF PlacesOf
    <3>4. InOnePlace(n) => InOnePlace(n)'
      BY <3>1, <3>2, <3>3 DEF InOnePlace, n
    <3>5. Nowhere(n) => Nowhere(n)'
      BY <3>1, <3>3 DEF Nowhere, n
    <3> QED
      BY <2>1, <3>4, <3>5 DEF n
  <2> QED
    BY <2>2, <2>3
<1> QED
  BY <1>8, <1>9, <1>10, <1>13 DEF QueueInv

LEMMA QueueSteps == ASSUME QueueInv, P!QueueNext PROVE QueueInv'
<1>1. CASE \E p \in P!Runs : P!RunKilled(p)
  <2>1. UNCHANGED <<next, queue, got>> /\ killed' \subseteq P!Runs
    BY <1>1 DEF P!RunKilled, QueueInv, QueueTypes
  <2>2. QueueTypes'
    BY <2>1 DEF QueueInv, QueueTypes
  <2>3. QueueGot' /\ QueueEarlier'
    BY <2>1 DEF QueueInv, QueueGot, QueueEarlier
  <2>4. QueueOnce'
    BY <2>1 DEF QueueInv, QueueOnce, InOnePlace, Nowhere, PlacesOf, TakenBy
  <2> QED
    BY <2>2, <2>3, <2>4 DEF QueueInv
<1> QED
  BY <1>1, SendSteps, ReceiveSteps DEF P!QueueNext, P!Run

\* Of messages with one type the first one is taken.
LEMMA QueueOldest == ASSUME QueueInv, P!QueueNext PROVE P!OldestFirst
<1> SUFFICES ASSUME NEW r \in Receivers, got'[r] # got[r],
                    got'[r][Len(got'[r])].from # Earlier
             PROVE  \A j \in DOMAIN queue : queue[j] # P!Message(got'[r][Len(got'[r])].type, Earlier)
  BY DEF P!OldestFirst
<1>t. QueueTypes /\ QueueEarlier
  BY DEF QueueInv
<1>1. PICK q \in Receivers : P!Receive(q)
  BY DEF P!QueueNext, P!Run, P!Send, P!RunKilled
<1>2. PICK i \in P!Oldest(next[q]) : got' = [got EXCEPT ![q] = Append(@, queue[i])]
  BY <1>1 DEF P!Receive
<1>3. q = r
  BY <1>2, <1>t DEF QueueTypes
<1>4. /\ i \in 1..Len(queue) /\ queue[i] \in Messages /\ DOMAIN queue = 1..Len(queue)
      /\ Len(queue) \in Nat
      /\ \A j \in 1..Len(queue) : queue[j].type = queue[i].type => i <= j
  BY <1>2, <1>t DEF P!Oldest, QueueTypes
<1>5. got[r] \in Seq(Messages)
  BY <1>t DEF QueueTypes
<1>6. got'[r][Len(got'[r])] = queue[i]
  <2>1. got'[r] = Append(got[r], queue[i])
    BY <1>2, <1>3, <1>t DEF QueueTypes
  <2>2. Len(got'[r]) = Len(got[r]) + 1 /\ got'[r][Len(got[r]) + 1] = queue[i]
    BY <2>1, <1>4, <1>5, OneMore
  <2> QED
    BY <2>2
<1> SUFFICES ASSUME NEW j \in 1..Len(queue), queue[j] = P!Message(queue[i].type, Earlier) PROVE FALSE
  BY <1>4, <1>6
<1>7. queue[j].type = queue[i].type /\ queue[j].from = Earlier
  BY DEF P!Message
<1>8. i < j
  <2>1. i <= j /\ i # j
    BY <1>4, <1>6, <1>7
  <2> QED
    BY <2>1, <1>4
<1>9. queue[i].from = Earlier
  BY <1>4, <1>7, <1>8, <1>t DEF QueueEarlier
<1> QED
  BY <1>6, <1>9

LEMMA QueueHolds == ASSUME QueueInv PROVE P!QueueTypeOK /\ P!EachTakenOnce
<1>t. QueueTypes /\ QueueGot /\ QueueOnce
  BY DEF QueueInv
<1>1. P!QueueTypeOK
  <2>1. \A i \in DOMAIN queue : queue[i] \in Messages
    BY <1>t DEF QueueTypes
  <2>2. \A r \in Receivers : \A i \in DOMAIN got[r] : got[r][i] \in Messages
    <3> SUFFICES ASSUME NEW r \in Receivers PROVE \A i \in DOMAIN got[r] : got[r][i] \in Messages
      OBVIOUS
    <3>1. got[r] \in Seq(Messages)
      BY <1>t DEF QueueTypes
    <3> QED
      BY <3>1
  <2> QED
    BY <2>1, <2>2, <1>t DEF P!QueueTypeOK, QueueTypes, Messages
<1>2. ASSUME NEW s \in Senders, NEW t \in 1..MaxType
      PROVE  P!Taken(t, s) + P!Kept(t, s) = IF t < next[s] THEN 1 ELSE 0
  <2> DEFINE m == P!Message(t, s)
  <2>1. P!Taken(t, s) = P!Cardinality(TakenBy(m)) /\ P!Kept(t, s) = P!Cardinality(PlacesOf(m))
    BY DEF P!Taken, P!Kept, TakenBy, PlacesOf
  <2>2. P!Cardinality(TakenBy(m)) = Cardinality(TakenBy(m)) /\ P!Cardinality(PlacesOf(m)) = Cardinality(PlacesOf(m))
    BY DEF P!Cardinality, Cardinality, P!IsFiniteSet, IsFiniteSet
  <2>3. Cardinality({}) = 0 /\ \A x : Cardinality({x}) = 1
    BY FS_EmptySet, FS_Singleton
  <2>4. IF t < next[s] THEN InOnePlace(m) ELSE Nowhere(m)
    BY <1>t DEF QueueOnce
  <2> HIDE DEF m
  <2>5. InOnePlace(m) => Cardinality(TakenBy(m)) + Cardinality(PlacesOf(m)) = 1
    <3>1. ASSUME NEW i, PlacesOf(m) = {i}, TakenBy(m) = {}
          PROVE  Cardinality(TakenBy(m)) + Cardinality(PlacesOf(m)) = 1
      <4>1. Cardinality(TakenBy(m)) = 0
        BY <3>1, <2>3
      <4>2. Cardinality(PlacesOf(m)) = 1
        BY <3>1, <2>3
      <4> QED
        BY <4>1, <4>2
    <3>2. ASSUME NEW r, TakenBy(m) = {r}, PlacesOf(m) = {}
          PROVE  Cardinality(TakenBy(m)) + Cardinality(PlacesOf(m)) = 1
      <4>1. Cardinality(TakenBy(m)) = 1
        BY <3>2, <2>3
      <4>2. Cardinality(PlacesOf(m)) = 0
        BY <3>2, <2>3
      <4> QED
        BY <4>1, <4>2
    <3> QED
      BY <3>1, <3>2 DEF InOnePlace
  <2>6. Nowhere(m) => Cardinality(TakenBy(m)) + Cardinality(PlacesOf(m)) = 0
    BY <2>3 DEF Nowhere
  <2> QED
    BY <2>1, <2>2, <2>4, <2>5, <2>6
<1>3. \A r \in Receivers : got[r] \in Seq(Messages) /\ DOMAIN got[r] = 1..Len(got[r])
  BY <1>t DEF QueueTypes
<1>4. \A r \in Receivers : \A i \in DOMAIN got[r] : got[r][i].type = MaxType + 1 - i
  BY <1>3, <1>t DEF QueueGot
<1> QED
  BY <1>1, <1>2, <1>4 DEF P!EachTakenOnce


------------------------------------------------------------------------------
(* The programs of 8-sharing and 9-atomic, for records of any size *)

FileWriters == {"a", "b"}
FileBytes(size) == ({"old"} \X {1, 2, 3}) \cup UNION {{w} \X (1..size[w]) : w \in FileWriters}

FileTypes(size) ==
  /\ content \in Seq(FileBytes(size)) /\ length0 \in {0, 3}
  /\ offset \in [FileWriters -> Nat] /\ count \in [FileWriters -> 0..PerWriter]
  /\ \A w \in FileWriters : offset[w] <= Len(content)
  /\ writer \in [FileWriters -> {"open", "write", "closed", "failed"}]

FileStarts == /\ length0 \in {0, 3} /\ content = [i \in 1..length0 |-> <<"old", i>>]
              /\ offset = [w \in FileWriters |-> 0] /\ count = [w \in FileWriters |-> 0]
              /\ writer = [w \in FileWriters |-> "open"]

\* What a write() of n bytes by w leaves there, if the place is p.
Spliced(s, w, n, p) ==
  [i \in 1..(IF p + n > Len(s) THEN p + n ELSE Len(s)) |->
     IF i \in p + 1..p + n THEN <<w, i - p>> ELSE s[i]]

FileWrites(appends, w, n) ==
  LET p == IF appends THEN Len(content) ELSE offset[w]
  IN  content' = Spliced(content, w, n, p) /\ offset' = [offset EXCEPT ![w] = p + n]

\* What a step of any of the programs does to the file.
Handled(w) == /\ UNCHANGED <<content, offset, count, length0>>
              /\ writer[w] \in {"open", "write"}
              /\ \E s \in {"write", "closed", "failed"} : writer' = [writer EXCEPT ![w] = s]
WholeRecord(appends, size, w) ==
  /\ writer[w] = "write" /\ count[w] < PerWriter /\ FileWrites(appends, w, size[w])
  /\ count' = [count EXCEPT ![w] = @ + 1] /\ UNCHANGED <<writer, length0>>
PartOfRecord(appends, size, w) ==
  /\ writer[w] = "write" /\ \E n \in 0..size[w] - 1 : FileWrites(appends, w, n)
  /\ writer' = [writer EXCEPT ![w] = "failed"] /\ UNCHANGED <<count, length0>>
FileStep(appends, size) ==
  \E w \in FileWriters : Handled(w) \/ WholeRecord(appends, size, w) \/ PartOfRecord(appends, size, w)

LEMMA SharingSteps == ASSUME W!Next PROVE FileStep(FALSE, SharingSize)
<1>1. PICK w \in FileWriters : W!Open(w) \/ W!OpenFails(w) \/ W!Write(w) \/ W!ShortWrite(w) \/ W!Close(w)
  BY DEF W!Next, W!Writers, FileWriters
<1>2. \A n : W!Written(w, n) = Spliced(content, w, n, offset[w])
  BY DEF W!Written, W!Position, Spliced
<1>3. \A n : W!Advance(w, n) = [offset EXCEPT ![w] = offset[w] + n]
  BY DEF W!Advance, W!Position
<1>4. W!Open(w) \/ W!OpenFails(w) \/ W!Close(w) => Handled(w)
  BY DEF W!Open, W!OpenFails, W!Close, Handled
<1>5. W!Write(w) => WholeRecord(FALSE, SharingSize, w)
  BY <1>2, <1>3 DEF W!Write, WholeRecord, FileWrites
<1>6. W!ShortWrite(w) => PartOfRecord(FALSE, SharingSize, w)
  BY <1>2, <1>3 DEF W!ShortWrite, PartOfRecord, FileWrites
<1> QED
  BY <1>1, <1>4, <1>5, <1>6 DEF FileStep

LEMMA TurnSteps == ASSUME W1!Next PROVE FileStep(FALSE, SharingSize)
<1>1. PICK w \in FileWriters : W1!Open(w) \/ W1!OpenFails(w) \/ W1!Write(w) \/ W1!ShortWrite(w) \/ W1!Close(w)
  BY DEF W1!Next, W1!Writers, FileWriters
<1>2. \A n : W1!Written(w, n) = Spliced(content, w, n, offset[w])
  BY DEF W1!Written, W1!Position, Spliced
<1>3. \A n : W1!Advance(w, n) = [offset EXCEPT ![w] = offset[w] + n]
  BY DEF W1!Advance, W1!Position
<1>4. W1!Open(w) \/ W1!OpenFails(w) \/ W1!Close(w) => Handled(w)
  BY DEF W1!Open, W1!OpenFails, W1!Close, Handled
<1>5. W1!Write(w) => WholeRecord(FALSE, SharingSize, w)
  BY <1>2, <1>3 DEF W1!Write, WholeRecord, FileWrites
<1>6. W1!ShortWrite(w) => PartOfRecord(FALSE, SharingSize, w)
  BY <1>2, <1>3 DEF W1!ShortWrite, PartOfRecord, FileWrites
<1> QED
  BY <1>1, <1>4, <1>5, <1>6 DEF FileStep

LEMMA AtomicSteps == ASSUME WA!Next PROVE FileStep(TRUE, AtomicSize)
<1>1. PICK w \in FileWriters : WA!Open(w) \/ WA!OpenFails(w) \/ WA!Write(w) \/ WA!ShortWrite(w) \/ WA!Close(w)
  BY DEF WA!Next, WA!Writers, FileWriters
<1>2. \A n : WA!Written(w, n) = Spliced(content, w, n, Len(content))
  BY DEF WA!Written, WA!Position, Spliced
<1>3. \A n : WA!Advance(w, n) = [offset EXCEPT ![w] = Len(content) + n]
  BY DEF WA!Advance, WA!Position
<1>4. WA!Open(w) \/ WA!OpenFails(w) \/ WA!Close(w) => Handled(w)
  BY DEF WA!Open, WA!OpenFails, WA!Close, Handled
<1>5. WA!Write(w) => WholeRecord(TRUE, AtomicSize, w)
  BY <1>2, <1>3 DEF WA!Write, WholeRecord, FileWrites
<1>6. WA!ShortWrite(w) => PartOfRecord(TRUE, AtomicSize, w)
  BY <1>2, <1>3 DEF WA!ShortWrite, PartOfRecord, FileWrites
<1> QED
  BY <1>1, <1>4, <1>5, <1>6 DEF FileStep

LEMMA FileStarted == ASSUME W!Init PROVE FileStarts
BY DEF W!Init, W!Old, W!Writers, FileStarts, FileWriters

\* A write() that leaves no hole keeps the types, and the file does not shrink.
LEMMA SplicedType ==
  ASSUME NEW B, NEW s \in Seq(B), NEW w, NEW n \in Nat, NEW p \in 0..Len(s),
         \A i \in 1..n : <<w, i>> \in B
  PROVE  /\ Spliced(s, w, n, p) \in Seq(B)
         /\ Len(s) <= Len(Spliced(s, w, n, p)) /\ p + n <= Len(Spliced(s, w, n, p))
         /\ Len(Spliced(s, w, n, p)) \in Nat
<1>1. Len(s) \in Nat /\ n \in Nat /\ p \in Nat
  OBVIOUS
<1> DEFINE m == IF p + n > Len(s) THEN p + n ELSE Len(s)
<1>2. m \in Nat /\ Len(s) <= m /\ p + n <= m
  BY <1>1
<1>3. ASSUME NEW i \in 1..m PROVE (IF i \in p + 1..p + n THEN <<w, i - p>> ELSE s[i]) \in B
  <2>1. CASE i \in p + 1..p + n
    <3>1. i - p \in 1..n
      BY <2>1, <1>1
    <3> QED
      BY <2>1, <3>1
  <2>2. CASE i \notin p + 1..p + n
    <3>1. i \in 1..Len(s)
      BY <2>2, <1>1
    <3> QED
      BY <2>2, <3>1
  <2> QED
    BY <2>1, <2>2
<1>4. Spliced(s, w, n, p) \in [1..m -> B]
  BY <1>3 DEF Spliced
<1>5. Spliced(s, w, n, p) \in Seq(B) /\ Len(Spliced(s, w, n, p)) = m
  BY <1>4, <1>2
<1> QED
  BY <1>5, <1>2

LEMMA FileStartTypes == ASSUME NEW size, FileStarts PROVE FileTypes(size)
<1>0. PerWriter \in Nat
  BY ProcessAssumption
<1>1. content \in Seq(FileBytes(size))
  <2>1. \A i \in 1..length0 : <<"old", i>> \in FileBytes(size)
    BY DEF FileStarts, FileBytes
  <2>2. content \in [1..length0 -> FileBytes(size)]
    BY <2>1 DEF FileStarts
  <2> QED
    BY <2>2 DEF FileStarts
<1>2. Len(content) \in Nat
  BY <1>1
<1>3. /\ offset \in [FileWriters -> Nat] /\ count \in [FileWriters -> 0..PerWriter]
      /\ \A w \in FileWriters : offset[w] <= Len(content)
  BY <1>0, <1>2 DEF FileStarts
<1> QED
  BY <1>1, <1>3 DEF FileStarts, FileTypes

LEMMA FileWritesTypes ==
  ASSUME NEW appends \in BOOLEAN, NEW size \in [FileWriters -> Nat], FileTypes(size),
         NEW w \in FileWriters, NEW n \in 0..size[w], FileWrites(appends, w, n)
  PROVE  /\ content' \in Seq(FileBytes(size)) /\ offset' \in [FileWriters -> Nat]
         /\ \A v \in FileWriters : offset'[v] <= Len(content')
<1>1. Len(content) \in Nat /\ n \in Nat /\ offset[w] \in Nat /\ offset[w] <= Len(content)
  BY DEF FileTypes
<1> DEFINE p == IF appends THEN Len(content) ELSE offset[w]
<1>2. p \in 0..Len(content) /\ p \in Nat
  BY <1>1
<1>3. content' = Spliced(content, w, n, p) /\ offset' = [offset EXCEPT ![w] = p + n]
  BY DEF FileWrites
<1> HIDE DEF p
<1>4. \A i \in 1..n : <<w, i>> \in FileBytes(size)
  BY DEF FileBytes
<1>5. content \in Seq(FileBytes(size))
  BY DEF FileTypes
<1>6. /\ content' \in Seq(FileBytes(size)) /\ Len(content') \in Nat
      /\ Len(content) <= Len(content') /\ p + n <= Len(content')
  BY <1>1, <1>2, <1>3, <1>4, <1>5, SplicedType
<1>7. offset' \in [FileWriters -> Nat]
  BY <1>1, <1>2, <1>3 DEF FileTypes
<1>8. ASSUME NEW v \in FileWriters PROVE offset'[v] <= Len(content')
  <2>1. offset[v] \in Nat /\ offset[v] <= Len(content)
    BY DEF FileTypes
  <2>2. offset'[v] = IF v = w THEN p + n ELSE offset[v]
    BY <1>3 DEF FileTypes
  <2> QED
    BY <2>1, <2>2, <1>1, <1>2, <1>6
<1> QED
  BY <1>6, <1>7, <1>8

LEMMA FileStepTypes ==
  ASSUME NEW appends \in BOOLEAN, NEW size \in [FileWriters -> Nat], FileTypes(size),
         FileStep(appends, size)
  PROVE  FileTypes(size)'
<1>0. PerWriter \in Nat
  BY ProcessAssumption
<1>1. ASSUME NEW w \in FileWriters, Handled(w) PROVE FileTypes(size)'
  <2>1. writer' \in [FileWriters -> {"open", "write", "closed", "failed"}]
    BY <1>1 DEF Handled, FileTypes
  <2> QED
    BY <1>1, <2>1 DEF Handled, FileTypes
<1>2. ASSUME NEW w \in FileWriters, WholeRecord(appends, size, w) PROVE FileTypes(size)'
  <2>1. size[w] \in 0..size[w]
    OBVIOUS
  <2>2. /\ content' \in Seq(FileBytes(size)) /\ offset' \in [FileWriters -> Nat]
        /\ \A v \in FileWriters : offset'[v] <= Len(content')
    BY <1>2, <2>1, FileWritesTypes DEF WholeRecord
  <2>3. count[w] + 1 \in 0..PerWriter
    BY <1>0, <1>2 DEF WholeRecord, FileTypes
  <2>4. count' \in [FileWriters -> 0..PerWriter]
    BY <1>2, <2>3 DEF WholeRecord, FileTypes
  <2> QED
    BY <1>2, <2>2, <2>4 DEF WholeRecord, FileTypes
<1>3. ASSUME NEW w \in FileWriters, PartOfRecord(appends, size, w) PROVE FileTypes(size)'
  <2>1. PICK n \in 0..size[w] - 1 : FileWrites(appends, w, n)
    BY <1>3 DEF PartOfRecord
  <2>2. n \in 0..size[w]
    BY <2>1
  <2>3. /\ content' \in Seq(FileBytes(size)) /\ offset' \in [FileWriters -> Nat]
        /\ \A v \in FileWriters : offset'[v] <= Len(content')
    BY <2>1, <2>2, FileWritesTypes
  <2>4. writer' \in [FileWriters -> {"open", "write", "closed", "failed"}]
    BY <1>3 DEF PartOfRecord, FileTypes
  <2> QED
    BY <1>3, <2>3, <2>4 DEF PartOfRecord, FileTypes
<1> QED
  BY <1>1, <1>2, <1>3 DEF FileStep

\* At the end of the file a write() appends what it writes.
Bytes(w, n) == [i \in 1..n |-> <<w, i>>]

LEMMA BytesType ==
  ASSUME NEW w, NEW n \in Nat
  PROVE  Bytes(w, n) \in Seq({w} \X Nat) /\ Len(Bytes(w, n)) = n
<1>1. Bytes(w, n) \in [1..n -> {w} \X Nat]
  BY DEF Bytes
<1> QED
  BY <1>1

LEMMA SplicedAtEnd ==
  ASSUME NEW B, NEW s \in Seq(B), NEW w, NEW n \in Nat
  PROVE  Spliced(s, w, n, Len(s)) = s \o Bytes(w, n)
<1>1. Len(s) \in Nat
  OBVIOUS
<1> DEFINE r == Bytes(w, n)
           l(i) == IF i \in Len(s) + 1..Len(s) + n THEN <<w, i - Len(s)>> ELSE s[i]
           q(i) == IF i <= Len(s) THEN s[i] ELSE r[i - Len(s)]
<1>4. r \in Seq({w} \X Nat) /\ Len(r) = n
  BY BytesType
<1>5. Len(s) + n > Len(s) \/ n = 0
  BY <1>1
<1>6. Spliced(s, w, n, Len(s)) = [i \in 1..(Len(s) + n) |-> l(i)]
  BY <1>1, <1>5 DEF Spliced
<1> HIDE DEF r
<1>7. s \o r = [i \in 1..(Len(s) + n) |-> q(i)]
  <2> DEFINE R == {w} \X Nat
  <2>0. r \in Seq(R)
    BY <1>4
  <2> HIDE DEF R, q
  <2>1. /\ s \o r \in Seq(B \cup R) /\ Len(s \o r) = Len(s) + Len(r)
        /\ \A i \in 1..Len(s) : (s \o r)[i] = s[i]
        /\ \A i \in 1..Len(r) : (s \o r)[Len(s) + i] = r[i]
    BY <2>0, Joined
  <2>2. s \o r = [i \in 1..Len(s \o r) |-> (s \o r)[i]]
    BY <2>1, Elements
  <2>3. ASSUME NEW i \in 1..(Len(s) + n) PROVE (s \o r)[i] = q(i)
    <3>1. CASE i \in 1..Len(s)
      BY <3>1, <2>1 DEF q
    <3>2. CASE i \notin 1..Len(s)
      <4>1. i - Len(s) \in 1..n /\ Len(s) + (i - Len(s)) = i /\ ~(i <= Len(s))
        BY <3>2, <1>1
      <4> QED
        BY <4>1, <2>1, <1>4 DEF q
    <3> QED
      BY <3>1, <3>2
  <2>4. Len(s \o r) = Len(s) + n
    BY <2>1, <1>4
  <2> QED
    BY <2>2, <2>3, <2>4
<1>8. ASSUME NEW i \in 1..(Len(s) + n) PROVE l(i) = q(i)
  <2>1. CASE i <= Len(s)
    BY <1>1, <2>1
  <2>2. CASE i > Len(s)
    <3>1. i - Len(s) \in 1..n
      BY <1>1, <2>2
    <3>2. r[i - Len(s)] = <<w, i - Len(s)>>
      BY <3>1 DEF r, Bytes
    <3>3. i \in Len(s) + 1..Len(s) + n /\ ~(i <= Len(s))
      BY <1>1, <2>2
    <3> QED
      BY <3>2, <3>3
  <2> QED
    BY <1>1, <2>1, <2>2
<1> HIDE DEF l, q
<1>9. [i \in 1..(Len(s) + n) |-> l(i)] = [i \in 1..(Len(s) + n) |-> q(i)]
  BY <1>8
<1>10. Spliced(s, w, n, Len(s)) = s \o r
  BY <1>6, <1>7, <1>9
<1> QED
  BY <1>10 DEF r

\* The bytes of a record that may be cut short.
LEMMA PrefixBytes ==
  ASSUME NEW w \in FileWriters, NEW n \in 0..AtomicSize[w]
  PROVE  Bytes(w, n) \in UNION {WA!Prefixes(v) : v \in WA!Writers}
<1>1. AtomicSize[w] = 4 /\ n \in Nat
  BY DEF AtomicSize, FileWriters
<1>2. WA!Record(w) = Bytes(w, 4)
  BY <1>1 DEF WA!Record, Bytes
<1>3. Bytes(w, 4) \in Seq({w} \X Nat) /\ Len(Bytes(w, 4)) = 4
  BY BytesType
<1>4. SubSeq(Bytes(w, 4), 1, n) = [i \in 1..n |-> Bytes(w, 4)[i]]
  BY <1>1, <1>3
<1>5. \A i \in 1..n : Bytes(w, 4)[i] = <<w, i>>
  BY <1>1 DEF Bytes
<1>6. SubSeq(WA!Record(w), 1, n) = Bytes(w, n)
  BY <1>2, <1>4, <1>5 DEF Bytes
<1>7. Bytes(w, n) \in WA!Prefixes(w)
  BY <1>6 DEF WA!Prefixes
<1> QED
  BY <1>7 DEF WA!Writers, FileWriters

LEMMA FileWritesAppend ==
  ASSUME NEW size \in [FileWriters -> Nat], FileTypes(size), NEW w \in FileWriters, NEW n \in 0..size[w],
         FileWrites(TRUE, w, n)
  PROVE  content' = content \o Bytes(w, n)
BY SplicedAtEnd DEF FileTypes, FileWrites

LEMMA AtomicSizes == AtomicSize \in [FileWriters -> Nat] /\ SharingSize \in [FileWriters -> Nat \ {0}]
BY DEF AtomicSize, SharingSize, FileWriters

LEMMA FileStepAppends ==
  ASSUME FileTypes(AtomicSize), FileStep(TRUE, AtomicSize), content' # content
  PROVE  WA!Log!AppendRecord
<1>1. PICK w \in FileWriters : WholeRecord(TRUE, AtomicSize, w) \/ PartOfRecord(TRUE, AtomicSize, w)
  BY DEF FileStep, Handled
<1>2. AtomicSize[w] \in Nat
  BY AtomicSizes
<1>3. PICK n \in 0..AtomicSize[w] : FileWrites(TRUE, w, n)
  <2>1. CASE WholeRecord(TRUE, AtomicSize, w)
    <3>1. AtomicSize[w] \in 0..AtomicSize[w]
      BY <1>2
    <3> QED
      BY <2>1, <3>1 DEF WholeRecord
  <2>2. CASE PartOfRecord(TRUE, AtomicSize, w)
    <3>1. 0..AtomicSize[w] - 1 \subseteq 0..AtomicSize[w]
      BY <1>2
    <3> QED
      BY <2>2, <3>1 DEF PartOfRecord
  <2> QED
    BY <1>1, <2>1, <2>2
<1>4. content' = content \o Bytes(w, n)
  BY <1>3, AtomicSizes, FileWritesAppend
<1>5. Bytes(w, n) \in UNION {WA!Prefixes(v) : v \in WA!Writers}
  BY PrefixBytes
<1> QED
  BY <1>4, <1>5 DEF WA!Log!AppendRecord

\* Where the i-th byte of w's record is in s.
BytePlaces(s, w, i) == {p \in DOMAIN s : s[p] = <<w, i>>}

\* A write of n bytes by v adds one place for each of these bytes, and none for
\* any other byte.
LEMMA PlacesAppended ==
  ASSUME NEW B, NEW s \in Seq(B), NEW v, NEW n \in Nat, NEW w, NEW i \in Nat \ {0}
  PROVE  BytePlaces(s \o Bytes(v, n), w, i) =
           IF w = v /\ i <= n THEN BytePlaces(s, w, i) \cup {Len(s) + i} ELSE BytePlaces(s, w, i)
<1> DEFINE r == Bytes(v, n)
           after == s \o r
<1>1. Len(s) \in Nat
  OBVIOUS
<1>2. \A j \in 1..n : r[j] = <<v, j>>
  BY DEF Bytes
<1>4. r \in Seq({v} \X Nat) /\ Len(r) = n
  BY BytesType
<1> HIDE DEF r
<1>5. DOMAIN after = 1..(Len(s) + n) /\ DOMAIN s = 1..Len(s)
  <2>1. DOMAIN after = 1..(Len(s) + Len(r))
    BY <1>4, Joined, Zenon
  <2> QED
    BY <2>1, <1>4
<1>6. \A p \in 1..Len(s) : after[p] = s[p]
  BY <1>1, <1>4, Joined
<1>7. \A j \in 1..n : after[Len(s) + j] = <<v, j>>
  <2>1. TAKE j \in 1..n
  <2>2. after[Len(s) + j] = r[j]
    BY <1>1, <1>4, Joined
  <2> QED
    BY <2>2, <1>2
<1> HIDE DEF after
<1>8. ASSUME NEW p \in 1..(Len(s) + n)
      PROVE  p \in 1..Len(s) \/ \E j \in 1..n : p = Len(s) + j
  <2>1. CASE p <= Len(s)
    BY <2>1, <1>1
  <2>2. CASE p > Len(s)
    <3>1. p - Len(s) \in 1..n /\ p = Len(s) + (p - Len(s))
      BY <2>2, <1>1
    <3> QED
      BY <3>1
  <2> QED
    BY <2>1, <2>2, <1>1
<1>9. \A j \in 1..n : Len(s) + j \in 1..(Len(s) + n)
  BY <1>1
<1>10. 1..Len(s) \subseteq 1..(Len(s) + n)
  BY <1>1
<1>12. i \in 1..n <=> i <= n
  BY <1>1
<1>13. \A p : p \in BytePlaces(after, w, i) <=>
         \/ p \in BytePlaces(s, w, i)
         \/ w = v /\ i <= n /\ p = Len(s) + i
  <2>1. TAKE p
  <2>2. CASE p \in 1..Len(s)
    <3>1. p # Len(s) + i
      BY <1>1, <2>2
    <3> QED
      BY <2>2, <3>1, <1>5, <1>6, <1>10 DEF BytePlaces
  <2>3. CASE p \in 1..(Len(s) + n) /\ p \notin 1..Len(s)
    <3>1. PICK j \in 1..n : p = Len(s) + j
      BY <2>3, <1>8
    <3>2. after[p] = <<v, j>>
      BY <3>1, <1>7
    <3>3. p \in BytePlaces(after, w, i) <=> v = w /\ j = i
      BY <2>3, <3>2, <1>5 DEF BytePlaces
    <3>4. p \notin BytePlaces(s, w, i)
      BY <2>3, <1>5 DEF BytePlaces
    <3>5. j = i <=> (i <= n /\ p = Len(s) + i)
      BY <3>1, <1>1
    <3> QED
      BY <3>3, <3>4, <3>5
  <2>4. CASE p \notin 1..(Len(s) + n)
    <3>1. ~(i <= n /\ p = Len(s) + i)
      BY <2>4, <1>9, <1>12
    <3> QED
      BY <2>4, <3>1, <1>5, <1>10 DEF BytePlaces
  <2> QED
    BY <2>2, <2>3, <2>4
<1>14. BytePlaces(after, w, i) = IF w = v /\ i <= n
                            THEN BytePlaces(s, w, i) \cup {Len(s) + i}
                            ELSE BytePlaces(s, w, i)
  BY <1>13
<1> QED
  BY <1>14 DEF after, r

\* A place that is added was none before.
LEMMA PlacesCounted ==
  ASSUME NEW B, NEW s \in Seq(B), NEW v, NEW n \in Nat, NEW w, NEW i \in Nat \ {0},
         IsFiniteSet(BytePlaces(s, w, i))
  PROVE  LET after == s \o Bytes(v, n)
         IN  /\ IsFiniteSet(BytePlaces(after, w, i))
             /\ Cardinality(BytePlaces(after, w, i)) =
                  IF w = v /\ i <= n THEN Cardinality(BytePlaces(s, w, i)) + 1
                  ELSE Cardinality(BytePlaces(s, w, i))
<1>1. Len(s) \in Nat /\ DOMAIN s = 1..Len(s)
  OBVIOUS
<1>2. Len(s) + i \notin BytePlaces(s, w, i)
  BY <1>1 DEF BytePlaces
<1>3. CASE w = v /\ i <= n
  <2>1. BytePlaces(s \o Bytes(v, n), w, i) = BytePlaces(s, w, i) \cup {Len(s) + i}
    BY <1>3, PlacesAppended
  <2>2. /\ IsFiniteSet(BytePlaces(s, w, i) \cup {Len(s) + i})
        /\ Cardinality(BytePlaces(s, w, i) \cup {Len(s) + i}) = Cardinality(BytePlaces(s, w, i)) + 1
    BY <1>2, FS_AddElement
  <2> QED
    BY <1>3, <2>1, <2>2
<1>4. CASE ~(w = v /\ i <= n)
  BY <1>4, PlacesAppended
<1> QED
  BY <1>3, <1>4

\* 9-atomic: what was there before is a prefix of the file, and each byte of a
\* record is there as often as its writer has written the record.
Kept(size) ==
  /\ length0 <= Len(content) /\ \A p \in 1..length0 : content[p] = <<"old", p>>
  /\ \A w \in FileWriters : writer[w] # "failed" =>
       \A i \in 1..size[w] : /\ IsFiniteSet(BytePlaces(content, w, i))
                             /\ Cardinality(BytePlaces(content, w, i)) = count[w]

LEMMA StartsKept == ASSUME NEW size, FileStarts PROVE Kept(size)
<1>1. length0 \in Nat /\ content = Bytes("old", length0)
  BY DEF FileStarts, Bytes
<1>2. Len(content) = length0 /\ DOMAIN content = 1..length0
  BY <1>1, BytesType DEF Bytes
<1>3. \A w \in FileWriters : \A i : BytePlaces(content, w, i) = {}
  <2>1. \A w \in FileWriters : \A p, i : <<"old", p>> # <<w, i>>
    BY DEF FileWriters
  <2> QED
    BY <1>1, <1>2, <2>1 DEF BytePlaces, Bytes
<1>4. \A w \in FileWriters : count[w] = 0
  BY DEF FileStarts
<1>5. length0 <= Len(content) /\ \A p \in 1..length0 : content[p] = <<"old", p>>
  BY <1>1, <1>2 DEF Bytes
<1>6. \A w \in FileWriters : \A i : /\ IsFiniteSet(BytePlaces(content, w, i))
                                    /\ Cardinality(BytePlaces(content, w, i)) = count[w]
  BY <1>3, <1>4, FS_EmptySet
<1> QED
  BY <1>5, <1>6 DEF Kept

\* n bytes of a record are added, by one that writes or by one that fails.
LEMMA AppendingKeeps ==
  ASSUME NEW size \in [FileWriters -> Nat], FileTypes(size), Kept(size),
         NEW v \in FileWriters, NEW n \in 0..size[v],
         FileWrites(TRUE, v, n), UNCHANGED length0,
         \/ n = size[v] /\ count' = [count EXCEPT ![v] = @ + 1] /\ UNCHANGED writer
         \/ writer' = [writer EXCEPT ![v] = "failed"] /\ UNCHANGED count
  PROVE  Kept(size)'
<1>0. content \in Seq(FileBytes(size))
  BY DEF FileTypes
<1>1. content' = content \o Bytes(v, n)
  BY FileWritesAppend
<1>2. Len(content) \in Nat /\ length0 \in Nat /\ size[v] \in Nat /\ n \in Nat
  BY DEF FileTypes
<1>3. /\ Len(content') >= Len(content)
      /\ \A p \in 1..Len(content) : content'[p] = content[p]
  <2>1. Bytes(v, n) \in Seq({v} \X Nat) /\ Len(Bytes(v, n)) = n
    BY <1>2, BytesType
  <2> QED
    BY <1>0, <1>1, <1>2, <2>1
<1>4. length0' <= Len(content') /\ \A p \in 1..length0' : content'[p] = <<"old", p>>
  <2>1. length0 <= Len(content) /\ \A p \in 1..length0 : content[p] = <<"old", p>>
    BY DEF Kept
  <2>2. Len(content') \in Nat
    BY <1>0, <1>1, <1>2, BytesType
  <2>3. length0' <= Len(content') /\ length0' = length0
    BY <1>2, <1>3, <2>1, <2>2
  <2>4. \A p \in 1..length0 : p \in 1..Len(content)
    BY <1>2, <2>1
  <2> QED
    BY <1>3, <2>1, <2>3, <2>4
<1>5. ASSUME NEW w \in FileWriters, writer'[w] # "failed", NEW i \in 1..size[w]
      PROVE  /\ IsFiniteSet(BytePlaces(content', w, i))
             /\ Cardinality(BytePlaces(content', w, i)) = count'[w]
  <2>1. writer[w] # "failed"
    BY <1>5 DEF FileTypes
  <2>2. IsFiniteSet(BytePlaces(content, w, i)) /\ Cardinality(BytePlaces(content, w, i)) = count[w]
    BY <2>1 DEF Kept
  <2>3. i \in Nat \ {0}
    OBVIOUS
  <2>4. /\ IsFiniteSet(BytePlaces(content', w, i))
        /\ Cardinality(BytePlaces(content', w, i)) =
             IF w = v /\ i <= n THEN count[w] + 1 ELSE count[w]
    BY <1>0, <1>1, <1>2, <2>2, <2>3, PlacesCounted
  <2>5. CASE n = size[v] /\ count' = [count EXCEPT ![v] = @ + 1] /\ UNCHANGED writer
    <3>1. count'[w] = IF w = v THEN count[w] + 1 ELSE count[w]
      BY <2>5 DEF FileTypes
    <3>2. w = v => i <= n
      BY <2>5, <1>2
    <3> QED
      BY <2>4, <3>1, <3>2
  <2>6. CASE writer' = [writer EXCEPT ![v] = "failed"] /\ UNCHANGED count
    <3>1. w # v
      BY <1>5, <2>6 DEF FileTypes
    <3> QED
      BY <2>4, <2>6, <3>1
  <2> QED
    BY <2>5, <2>6
<1> QED
  BY <1>4, <1>5 DEF Kept

LEMMA FileStepKept ==
  ASSUME NEW size \in [FileWriters -> Nat], FileTypes(size), Kept(size), FileStep(TRUE, size)
  PROVE  Kept(size)'
<1>1. ASSUME NEW w \in FileWriters, Handled(w) PROVE Kept(size)'
  <2>1. \A v \in FileWriters : writer'[v] # "failed" => writer[v] # "failed"
    BY <1>1 DEF Handled, FileTypes
  <2> QED
    BY <1>1, <2>1 DEF Kept, BytePlaces, Handled
<1>2. ASSUME NEW w \in FileWriters, WholeRecord(TRUE, size, w) PROVE Kept(size)'
  <2>1. size[w] \in 0..size[w]
    OBVIOUS
  <2> QED
    BY <1>2, <2>1, AppendingKeeps DEF WholeRecord
<1>3. ASSUME NEW w \in FileWriters, PartOfRecord(TRUE, size, w) PROVE Kept(size)'
  <2>1. PICK n \in 0..size[w] - 1 : FileWrites(TRUE, w, n)
    BY <1>3 DEF PartOfRecord
  <2>2. n \in 0..size[w]
    BY <2>1
  <2> QED
    BY <1>3, <2>1, <2>2, AppendingKeeps DEF PartOfRecord
<1> QED
  BY <1>1, <1>2, <1>3 DEF FileStep

LEMMA DivMod ==
  ASSUME NEW x \in Nat, NEW d \in Nat \ {0}
  PROVE  x % d \in 0..d - 1 /\ x \div d \in Nat /\ x = d * (x \div d) + (x % d)
OBVIOUS

LEMMA Multiples ==
  ASSUME NEW a \in Int, NEW d \in Nat \ {0}
  PROVE  (a >= 1 => d * a >= d) /\ (a <= -1 => d * a <= -d)
<1>1. a >= 1 => d * a >= d
  OBVIOUS
<1>2. a <= -1 => d * a <= -d
  OBVIOUS
<1> QED
  BY <1>1, <1>2

\* The remainder of a number that is a multiple and a bit.
LEMMA Remainder ==
  ASSUME NEW k \in Nat, NEW d \in Nat \ {0}, NEW j \in 0..d - 1
  PROVE  (d * k + j) % d = j
<1> DEFINE x == d * k + j
           q == x \div d
           r == x % d
<1>1. x \in Nat
  OBVIOUS
<1>2. r \in 0..d - 1 /\ q \in Nat /\ x = d * q + r
  BY <1>1, DivMod
<1>3. d * (q - k) = j - r
  BY <1>2
<1>4. q - k \in Int /\ j - r < d /\ j - r > -d
  BY <1>2
<1> HIDE DEF x, q, r
<1>5. ~(q - k >= 1) /\ ~(q - k <= -1)
  BY <1>3, <1>4, Multiples
<1>6. q - k = 0
  BY <1>4, <1>5
<1>7. j - r = 0
  BY <1>3, <1>6
<1>8. r = j
  BY <1>7, <1>2
<1> QED
  BY <1>8 DEF r, x

\* 8-sharing: a descriptor that works is behind as many whole records as it has
\* written, and each byte is where EachAtItsOffset wants it.
Past(p) == {w \in FileWriters : offset[w] >= p}
ByteOk(size, p) ==
  IF Past(p) = {} THEN p <= length0 /\ content[p] = <<"old", p>>
  ELSE \E w \in Past(p) : content[p] = <<w, ((p - 1) % size[w]) + 1>>
Aligned(size) == \A w \in FileWriters : writer[w] # "failed" => offset[w] = size[w] * count[w]
InPlace(size) == Aligned(size) /\ \A p \in DOMAIN content : ByteOk(size, p)

\* n bytes of a record are written at the offset of v.
LEMMA WritingInPlace ==
  ASSUME NEW size \in [FileWriters -> Nat], FileTypes(size), InPlace(size),
         NEW v \in FileWriters, NEW n \in 0..size[v],
         writer[v] # "failed", FileWrites(FALSE, v, n), UNCHANGED length0
  PROVE  \A p \in DOMAIN content' : ByteOk(size, p)'
<1> DEFINE p0 == offset[v]
<1>1. /\ p0 \in Nat /\ p0 <= Len(content) /\ Len(content) \in Nat
      /\ n \in Nat /\ size[v] \in Nat /\ n <= size[v] /\ count[v] \in Nat
  BY ProcessAssumption DEF FileTypes
<1>2. content' = Spliced(content, v, n, p0)
  BY DEF FileWrites
<1>3. \A w \in FileWriters : offset'[w] = IF w = v THEN p0 + n ELSE offset[w]
  BY DEF FileWrites, FileTypes
<1>4. p0 = size[v] * count[v]
  BY DEF InPlace, Aligned
<1>5. DOMAIN content = 1..Len(content)
  BY DEF FileTypes
<1> HIDE DEF p0
<1>6. ASSUME NEW p \in DOMAIN content', p \in p0 + 1..p0 + n PROVE ByteOk(size, p)'
  <2>1. p \in Nat /\ content'[p] = <<v, p - p0>>
    BY <1>1, <1>2, <1>6 DEF Spliced
  <2>2. p - 1 - p0 \in 0..size[v] - 1 /\ size[v] \in Nat \ {0}
    BY <1>1, <1>6
  <2>3. p - 1 = size[v] * count[v] + (p - 1 - p0)
    BY <1>1, <1>4, <2>1
  <2>4. (p - 1) % size[v] = p - 1 - p0
    BY <1>1, <2>2, <2>3, Remainder
  <2>5. ((p - 1) % size[v]) + 1 = p - p0
    BY <1>1, <2>1, <2>4
  <2>6. v \in Past(p)'
    <3>1. p0 + n >= p
      BY <1>1, <1>6, <2>1
    <3> QED
      BY <3>1, <1>3 DEF Past
  <2> QED
    BY <2>1, <2>5, <2>6 DEF ByteOk
<1>7. ASSUME NEW p \in DOMAIN content', p \notin p0 + 1..p0 + n PROVE ByteOk(size, p)'
  <2>1. p \in DOMAIN content /\ content'[p] = content[p] /\ p \in Nat
    BY <1>1, <1>2, <1>5, <1>7 DEF Spliced
  <2>2. ByteOk(size, p)
    BY <2>1 DEF InPlace
  <2>3. Past(p)' = Past(p)
    <3>1. \A w \in FileWriters : offset[w] \in Nat
      BY DEF FileTypes
    <3>2. p0 + n >= p <=> p0 >= p
      BY <1>1, <1>7, <2>1
    <3>3. \A w \in FileWriters : offset'[w] >= p <=> offset[w] >= p
      BY <1>3, <3>1, <3>2 DEF p0
    <3> QED
      BY <3>3 DEF Past
  <2> QED
    BY <2>1, <2>2, <2>3 DEF ByteOk
<1> QED
  BY <1>6, <1>7

LEMMA StartsInPlace == ASSUME NEW size \in [FileWriters -> Nat], FileStarts PROVE InPlace(size)
<1>1. length0 \in Nat /\ content = [p \in 1..length0 |-> <<"old", p>>]
  BY DEF FileStarts
<1>2. \A w \in FileWriters : offset[w] = 0 /\ count[w] = 0 /\ size[w] \in Nat
  BY DEF FileStarts
<1>3. Aligned(size)
  BY <1>2 DEF Aligned
<1>4. ASSUME NEW p \in 1..length0 PROVE ByteOk(size, p)
  <2>1. Past(p) = {}
    BY <1>1, <1>2 DEF Past
  <2> QED
    BY <1>1, <2>1 DEF ByteOk
<1> QED
  BY <1>1, <1>3, <1>4 DEF InPlace

LEMMA FileStepInPlace ==
  ASSUME NEW size \in [FileWriters -> Nat], FileTypes(size), InPlace(size), FileStep(FALSE, size)
  PROVE  InPlace(size)'
<1>1. ASSUME NEW w \in FileWriters, Handled(w) PROVE InPlace(size)'
  <2>1. UNCHANGED <<content, offset, count, length0>>
    BY <1>1 DEF Handled
  <2>2. \A v \in FileWriters : writer'[v] # "failed" => writer[v] # "failed"
    BY <1>1 DEF Handled, FileTypes
  <2>3. Aligned(size)'
    BY <2>1, <2>2 DEF InPlace, Aligned
  <2>4. \A p \in DOMAIN content' : ByteOk(size, p)'
    BY <2>1 DEF InPlace, ByteOk, Past
  <2> QED
    BY <2>3, <2>4 DEF InPlace
<1>2. ASSUME NEW w \in FileWriters, WholeRecord(FALSE, size, w) PROVE InPlace(size)'
  <2>1. size[w] \in 0..size[w] /\ size[w] \in Nat /\ count[w] \in Nat /\ offset[w] \in Nat
    BY ProcessAssumption DEF FileTypes
  <2>2. /\ offset' = [offset EXCEPT ![w] = offset[w] + size[w]] /\ writer' = writer /\ writer[w] # "failed"
        /\ count' = [count EXCEPT ![w] = @ + 1]
    BY <1>2 DEF WholeRecord, FileWrites
  <2>3. \A p \in DOMAIN content' : ByteOk(size, p)'
    BY <1>2, <2>1, WritingInPlace DEF WholeRecord
  <2>4. offset[w] = size[w] * count[w]
    BY <2>2 DEF InPlace, Aligned
  <2>5. offset[w] + size[w] = size[w] * (count[w] + 1)
    BY <2>1, <2>4
  <2>6. \A v \in FileWriters : offset'[v] = IF v = w THEN offset[w] + size[w] ELSE offset[v]
    BY <2>2 DEF FileTypes
  <2>7. \A v \in FileWriters : count'[v] = IF v = w THEN count[w] + 1 ELSE count[v]
    BY <2>2 DEF FileTypes
  <2>8. Aligned(size)'
    BY <2>2, <2>5, <2>6, <2>7 DEF InPlace, Aligned
  <2> QED
    BY <2>3, <2>8 DEF InPlace
<1>3. ASSUME NEW w \in FileWriters, PartOfRecord(FALSE, size, w) PROVE InPlace(size)'
  <2>1. PICK n \in 0..size[w] - 1 : FileWrites(FALSE, w, n)
    BY <1>3 DEF PartOfRecord
  <2>2. n \in 0..size[w]
    BY <2>1
  <2>3. writer[w] # "failed" /\ writer' = [writer EXCEPT ![w] = "failed"] /\ UNCHANGED <<count, length0>>
    BY <1>3 DEF PartOfRecord
  <2>4. \A p \in DOMAIN content' : ByteOk(size, p)'
    BY <2>1, <2>2, <2>3, WritingInPlace
  <2>5. \A v \in FileWriters : v # w => offset'[v] = offset[v]
    BY <2>1 DEF FileWrites, FileTypes
  <2>6. Aligned(size)'
    BY <2>3, <2>5 DEF InPlace, Aligned, FileTypes
  <2> QED
    BY <2>4, <2>6 DEF InPlace
<1> QED
  BY <1>1, <1>2, <1>3 DEF FileStep

\* What the programs promise.
SharingInv == FileTypes(SharingSize) /\ InPlace(SharingSize)
AtomicInv  == FileTypes(AtomicSize) /\ Kept(AtomicSize)

LEMMA SharingStarts == ASSUME W!Init PROVE SharingInv
<1>1. SharingSize \in [FileWriters -> Nat]
  BY AtomicSizes
<1> QED
  BY <1>1, FileStarted, FileStartTypes, StartsInPlace DEF SharingInv

LEMMA SharingStep == ASSUME SharingInv, W!Next \/ W1!Next PROVE SharingInv'
<1>1. SharingSize \in [FileWriters -> Nat] /\ FileStep(FALSE, SharingSize)
  BY AtomicSizes, SharingSteps, TurnSteps
<1>2. FileTypes(SharingSize)'
  BY <1>1, FileStepTypes DEF SharingInv
<1>3. InPlace(SharingSize)'
  BY <1>1, FileStepInPlace DEF SharingInv
<1> QED
  BY <1>2, <1>3 DEF SharingInv

LEMMA SharingHolds ==
  ASSUME SharingInv
  PROVE  W!TypeOK /\ W1!TypeOK /\ W!EachAtItsOffset /\ W1!EachAtItsOffset
<1>1. FileTypes(SharingSize)
  BY DEF SharingInv
<1>2. W!TypeOK /\ W1!TypeOK
  BY <1>1 DEF W!TypeOK, W1!TypeOK, FileTypes, W!Bytes, W1!Bytes, FileBytes, W!Writers, W1!Writers, FileWriters
<1>3. \A p \in DOMAIN content : ByteOk(SharingSize, p)
  BY DEF SharingInv, InPlace
<1> QED
  BY <1>2, <1>3 DEF W!EachAtItsOffset, W1!EachAtItsOffset, ByteOk, Past, W!Writers, W1!Writers, FileWriters

LEMMA AtomicStarts == ASSUME W!Init PROVE AtomicInv /\ WA!Log!Init
<1>1. AtomicSize \in [FileWriters -> Nat]
  BY AtomicSizes
<1>2. WA!Log!Init
  BY DEF W!Init, W!Old, WA!Log!Init, WA!Old
<1> QED
  BY <1>1, <1>2, FileStarted, FileStartTypes, StartsKept DEF AtomicInv

LEMMA AtomicStep ==
  ASSUME AtomicInv, WA!Next PROVE AtomicInv' /\ (content' # content => WA!Log!AppendRecord)
<1>1. AtomicSize \in [FileWriters -> Nat] /\ FileStep(TRUE, AtomicSize)
  BY AtomicSizes, AtomicSteps
<1>2. FileTypes(AtomicSize)'
  BY <1>1, FileStepTypes DEF AtomicInv
<1>3. Kept(AtomicSize)'
  BY <1>1, FileStepKept DEF AtomicInv
<1> QED
  BY <1>1, <1>2, <1>3, FileStepAppends DEF AtomicInv

LEMMA AtomicHolds == ASSUME AtomicInv PROVE WA!TypeOK /\ WA!NothingOverwritten
<1>1. FileTypes(AtomicSize) /\ Kept(AtomicSize)
  BY DEF AtomicInv
<1>2. WA!TypeOK
  BY <1>1 DEF WA!TypeOK, FileTypes, WA!Bytes, FileBytes, WA!Writers, FileWriters
<1>3. \A s : WA!Cardinality(s) = Cardinality(s)
  BY DEF WA!Cardinality, Cardinality, WA!IsFiniteSet, IsFiniteSet
<1>4. /\ length0 <= Len(content)
      /\ \A p \in 1..length0 : content[p] = <<"old", p>>
  BY <1>1 DEF Kept
<1>5. ASSUME NEW w \in WA!Writers, writer[w] # "failed", NEW i \in 1..AtomicSize[w]
      PROVE  WA!Cardinality({p \in DOMAIN content : content[p] = <<w, i>>}) = count[w]
  <2>1. Cardinality(BytePlaces(content, w, i)) = count[w]
    BY <1>1, <1>5 DEF Kept, WA!Writers, FileWriters
  <2> QED
    BY <2>1, <1>3 DEF BytePlaces
<1> QED
  BY <1>2, <1>4, <1>5 DEF WA!NothingOverwritten

------------------------------------------------------------------------------
(* fifo.c and wfifo.c *)

FifoLines == FifoWriters \X Nat

FifoTypes ==
  /\ name \in P!Fifos \cup {"none"} /\ late \subseteq FifoWriters
  /\ step \in [P!FifoProcs -> {"mkfifo", "open", "wait", "read", "write", "close"} \cup P!FifoEnded]
  /\ opened \in [P!FifoProcs -> P!Fifos \cup {"none"}]
  /\ line \in [P!Fifos -> Seq(FifoLines)] /\ \A f \in P!Fifos : Len(line[f]) <= FifoSize
  /\ given \in [FifoWriters -> 0..MaxGiven] /\ read \in [FifoReaders -> Seq(FifoLines)]

\* What a process does next, and what it has open.
FifoStages ==
  /\ \A r \in FifoReaders : step[r] # "write"
  /\ \A w \in FifoWriters : step[w] \notin {"mkfifo", "read", "close"}
  /\ \A p \in P!FifoProcs : opened[p] # "none" <=> step[p] \in {"wait", "read", "write", "close"}
  /\ \A r \in FifoReaders : step[r] \in {"mkfifo", "open", "wait"} => read[r] = <<>>

\* Nobody waits for an end that is open.
FifoMet ==
  \A r \in FifoReaders, w \in FifoWriters :
    opened[r] = opened[w] /\ opened[r] # "none" => step[r] # "wait" /\ step[w] # "wait"

\* The lines of a writer are in the order of their numbers.
InOrder(s) == \A i, j \in 1..Len(s) : i < j /\ s[i][1] = s[j][1] => s[i][2] < s[j][2]
FifoOrder == /\ \A f \in P!Fifos : InOrder(line[f])
             /\ \A r \in FifoReaders : InOrder(read[r])

\* What a reader has read came before what is in its FIFO.
Ahead(s, t) == \A i \in 1..Len(s), j \in 1..Len(t) : s[i][1] = t[j][1] => s[i][2] < t[j][2]
FifoAhead == \A r \in FifoReaders : opened[r] # "none" => Ahead(read[r], line[opened[r]])

\* And all of it was given.
FifoGiven ==
  /\ \A f \in P!Fifos : \A i \in 1..Len(line[f]) : line[f][i][2] <= given[line[f][i][1]]
  /\ \A r \in FifoReaders : \A i \in 1..Len(read[r]) : read[r][i][2] <= given[read[r][i][1]]

\* Who opens a FIFO whose reader has seen its end is late.
FifoLate ==
  \A r \in FifoReaders : step[r] = "close" =>
    /\ \A w \in FifoWriters : opened[w] = opened[r] => w \in late
    /\ \A i \in 1..Len(line[opened[r]]) : line[opened[r]][i][1] \in late

\* A line of another one was read, or somebody reads the FIFO where it is.
Reads(r, m) == \E j \in 1..Len(read[r]) : read[r][j] = m
Holds(r, m) == step[r] = "read" /\ \E j \in 1..Len(line[opened[r]]) : line[opened[r]][j] = m
FifoCarried ==
  (\A r \in FifoReaders : step[r] # "killed") =>
    \A w \in FifoWriters \ late : \A i \in 1..given[w] :
      \E r \in FifoReaders : Reads(r, <<w, i>>) \/ Holds(r, <<w, i>>)

FifoInv == /\ FifoTypes /\ FifoStages /\ FifoMet
           /\ FifoOrder /\ FifoAhead /\ FifoGiven /\ FifoLate /\ FifoCarried

LEMMA FifoSets ==
  /\ FifoReaders \subseteq P!Fifos /\ "none" \notin P!Fifos
  /\ FifoReaders \subseteq P!FifoProcs /\ FifoWriters \subseteq P!FifoProcs
  /\ \A p \in P!FifoProcs : p \in FifoReaders <=> p \notin FifoWriters
  /\ MaxGiven \in Nat /\ FifoSize \in Nat
BY ProcessAssumption DEF P!Fifos, P!FifoProcs

LEMMA FifoStarts == ASSUME P!FifoInit PROVE FifoInv
<1>1. <<>> \in Seq(FifoLines) /\ Len(<<>>) = 0
  OBVIOUS
<1>2. FifoTypes
  <2>1. line \in [P!Fifos -> Seq(FifoLines)] /\ read \in [FifoReaders -> Seq(FifoLines)]
    BY <1>1 DEF P!FifoInit
  <2>2. \A f \in P!Fifos : Len(line[f]) <= FifoSize
    BY <1>1, FifoSets DEF P!FifoInit
  <2>3. step \in [P!FifoProcs -> {"mkfifo", "open", "wait", "read", "write", "close"} \cup P!FifoEnded]
    BY DEF P!FifoInit
  <2>4. given \in [FifoWriters -> 0..MaxGiven]
    BY FifoSets DEF P!FifoInit
  <2>5. name \in P!Fifos \cup {"none"}
    BY DEF P!FifoInit, P!Fifos
  <2> QED
    BY <2>1, <2>2, <2>3, <2>4, <2>5 DEF P!FifoInit, FifoTypes
<1>3. FifoStages
  BY FifoSets DEF P!FifoInit, FifoStages
<1>4. FifoMet /\ FifoAhead /\ FifoLate
  BY FifoSets DEF P!FifoInit, FifoMet, FifoAhead, FifoLate
<1>5. FifoOrder /\ FifoGiven
  BY <1>1 DEF P!FifoInit, FifoOrder, FifoGiven, InOrder
<1>6. FifoCarried
  BY DEF P!FifoInit, FifoCarried
<1> QED
  BY <1>2, <1>3, <1>4, <1>5, <1>6 DEF FifoInv

\* A run of fifo.c makes the FIFO, or cannot; a run of either cannot open it.
LEMMA FifoBegins ==
  ASSUME FifoInv, NEW p \in P!FifoProcs, step[p] \in {"mkfifo", "open"}, NEW s \in {"open", "exit1"},
         p \in FifoWriters => s = "exit1",
         step' = [step EXCEPT ![p] = s], name' \in P!Fifos \cup {"none"}, UNCHANGED <<opened, line, given, read>>,
         late \subseteq late', late' \subseteq FifoWriters
  PROVE  FifoInv'
<1>t. FifoTypes /\ FifoStages /\ FifoMet /\ FifoOrder /\ FifoAhead /\ FifoGiven /\ FifoLate /\ FifoCarried
  BY DEF FifoInv
<1>1. \A q \in P!FifoProcs : step'[q] = IF q = p THEN s ELSE step[q]
  BY <1>t DEF FifoTypes
<1>2. FifoTypes'
  <2>1. step' \in [P!FifoProcs -> {"mkfifo", "open", "wait", "read", "write", "close"} \cup P!FifoEnded]
    BY <1>t DEF FifoTypes, P!FifoEnded
  <2> QED
    BY <2>1, <1>t DEF FifoTypes
<1>3. opened[p] = "none" /\ (p \in FifoReaders => read[p] = <<>>)
  BY <1>t DEF FifoStages
<1>4. FifoStages'
  <2>1. \A r \in FifoReaders : step'[r] # "write"
    BY <1>1, <1>t, FifoSets DEF FifoStages
  <2>2. \A w \in FifoWriters : step'[w] \notin {"mkfifo", "read", "close"}
    BY <1>1, <1>t, FifoSets DEF FifoStages
  <2>3. \A q \in P!FifoProcs : opened'[q] # "none" <=> step'[q] \in {"wait", "read", "write", "close"}
    BY <1>1, <1>3, <1>t DEF FifoStages
  <2>4. \A r \in FifoReaders : step'[r] \in {"mkfifo", "open", "wait"} => read'[r] = <<>>
    BY <1>1, <1>3, <1>t, FifoSets DEF FifoStages
  <2> QED
    BY <2>1, <2>2, <2>3, <2>4 DEF FifoStages
<1>5. FifoMet'
  BY <1>1, <1>3, <1>t, FifoSets DEF FifoMet
<1>6. FifoOrder' /\ FifoAhead' /\ FifoGiven'
  BY <1>t DEF FifoOrder, FifoAhead, FifoGiven, InOrder, Ahead
<1>7. FifoLate'
  BY <1>1, <1>t, FifoSets DEF FifoLate
<1>8. FifoCarried'
  <2> SUFFICES ASSUME \A r \in FifoReaders : step'[r] # "killed",
                      NEW w \in FifoWriters \ late', NEW i \in 1..given[w]
               PROVE  \E r \in FifoReaders : Reads(r, <<w, i>>)' \/ Holds(r, <<w, i>>)'
    BY DEF FifoCarried
  <2>1. \A r \in FifoReaders : step[r] # "killed"
    BY <1>1, FifoSets
  <2>2. PICK r \in FifoReaders : Reads(r, <<w, i>>) \/ Holds(r, <<w, i>>)
    BY <2>1, <1>t DEF FifoCarried
  <2> QED
    BY <2>2, <1>1, FifoSets DEF Reads, Holds
<1> QED
  BY <1>2, <1>4, <1>5, <1>6, <1>7, <1>8 DEF FifoInv

\* An open() that finds the FIFO lets those go on that wait at the other end.
LEMMA FifoOpens ==
  ASSUME FifoInv, NEW p \in P!FifoProcs, NEW others, NEW then, P!OpenFifo(p, others, then), name # "none",
         \/ p \in FifoReaders /\ others = FifoWriters /\ then = "read" /\ late' = late
         \/ /\ p \in FifoWriters /\ others = FifoReaders /\ then = "write"
            /\ late' = IF \E r \in P!Open(name, FifoReaders) : step[r] = "close" THEN late \cup {p} ELSE late
  PROVE  FifoInv'
<1>t. FifoTypes /\ FifoStages /\ FifoMet /\ FifoOrder /\ FifoAhead /\ FifoGiven /\ FifoLate /\ FifoCarried
  BY DEF FifoInv
<1>1. /\ step[p] = "open" /\ opened' = [opened EXCEPT ![p] = name] /\ UNCHANGED <<name, line, given, read>>
      /\ step' = [q \in P!FifoProcs |->
                    IF q = p THEN IF P!Open(name, others) = {} THEN "wait" ELSE then
                    ELSE IF q \in others /\ opened[q] = name /\ step[q] = "wait"
                         THEN IF q \in FifoReaders THEN "read" ELSE "write"
                    ELSE step[q]]
  BY DEF P!OpenFifo
<1>2. /\ \A q \in P!FifoProcs : opened'[q] = IF q = p THEN name ELSE opened[q]
      /\ \A q \in P!FifoProcs : q # p =>
           step'[q] = IF q \in others /\ opened[q] = name /\ step[q] = "wait"
                      THEN IF q \in FifoReaders THEN "read" ELSE "write" ELSE step[q]
      /\ step'[p] = IF P!Open(name, others) = {} THEN "wait" ELSE then
  BY <1>1, <1>t DEF FifoTypes
<1>3. name \in P!Fifos /\ opened[p] = "none" /\ (p \in FifoReaders => read[p] = <<>>)
      /\ late \subseteq late' /\ late' \subseteq FifoWriters
      /\ others \in {FifoReaders, FifoWriters} /\ p \notin others /\ then \in {"read", "write"}
  BY <1>1, <1>t, FifoSets DEF FifoTypes, FifoStages
<1>4. FifoTypes'
  <2>1. step' \in [P!FifoProcs -> {"mkfifo", "open", "wait", "read", "write", "close"} \cup P!FifoEnded]
    BY <1>1, <1>3, <1>t DEF FifoTypes
  <2>2. opened' \in [P!FifoProcs -> P!Fifos \cup {"none"}]
    BY <1>1, <1>3, <1>t DEF FifoTypes
  <2> QED
    BY <1>1, <1>3, <2>1, <2>2, <1>t DEF FifoTypes
<1>5. FifoStages'
  <2>1. \A r \in FifoReaders : step'[r] # "write"
    BY <1>2, <1>t, FifoSets DEF FifoStages
  <2>2. \A w \in FifoWriters : step'[w] \notin {"mkfifo", "read", "close"}
    BY <1>2, <1>t, FifoSets DEF FifoStages
  <2>3. ASSUME NEW q \in P!FifoProcs
        PROVE  opened'[q] # "none" <=> step'[q] \in {"wait", "read", "write", "close"}
    <3>1. CASE q = p
      BY <3>1, <1>2, <1>3, FifoSets
    <3>2. CASE q # p
      BY <3>2, <1>2, <1>t DEF FifoStages
    <3> QED
      BY <3>1, <3>2
  <2>4. ASSUME NEW r \in FifoReaders, step'[r] \in {"mkfifo", "open", "wait"} PROVE read'[r] = <<>>
    <3>1. CASE r = p
      BY <3>1, <1>1, <1>3
    <3>2. CASE r # p
      <4>1. step[r] \in {"mkfifo", "open", "wait"}
        BY <2>4, <3>2, <1>2, FifoSets
      <4> QED
        BY <4>1, <1>1, <1>t DEF FifoStages
    <3> QED
      BY <3>1, <3>2
  <2> QED
    BY <2>1, <2>2, <2>3, <2>4 DEF FifoStages
<1>6. FifoMet'
  <2> SUFFICES ASSUME NEW r \in FifoReaders, NEW w \in FifoWriters, opened'[r] = opened'[w], opened'[r] # "none"
               PROVE  step'[r] # "wait" /\ step'[w] # "wait"
    BY DEF FifoMet
  <2>0. r \in P!FifoProcs /\ w \in P!FifoProcs /\ r # w /\ r \notin FifoWriters /\ w \notin FifoReaders
    BY FifoSets
  <2>1. CASE p = r
    <3>1. others = FifoWriters /\ then = "read" /\ opened[w] = name
      BY <2>0, <2>1, <1>2
    <3>2. w \in P!Open(name, others)
      BY <3>1 DEF P!Open
    <3>3. step'[r] = "read"
      BY <2>1, <3>1, <3>2, <1>2
    <3>4. step'[w] # "wait"
      BY <2>0, <2>1, <3>1, <1>2
    <3> QED
      BY <3>3, <3>4
  <2>2. CASE p = w
    <3>1. others = FifoReaders /\ then = "write" /\ opened[r] = name
      BY <2>0, <2>2, <1>2
    <3>2. r \in P!Open(name, others)
      BY <3>1 DEF P!Open
    <3>3. step'[w] = "write"
      BY <2>2, <3>1, <3>2, <1>2
    <3>4. step'[r] # "wait"
      BY <2>0, <2>2, <3>1, <1>2
    <3> QED
      BY <3>3, <3>4
  <2>3. CASE p # r /\ p # w
    <3>1. step[r] # "wait" /\ step[w] # "wait"
      BY <2>0, <2>3, <1>2, <1>t DEF FifoMet
    <3> QED
      BY <3>1, <2>0, <2>3, <1>2
  <2> QED
    BY <2>1, <2>2, <2>3
<1>7. FifoOrder' /\ FifoGiven'
  BY <1>1, <1>t DEF FifoOrder, FifoGiven, InOrder
<1>8. FifoAhead'
  <2> SUFFICES ASSUME NEW r \in FifoReaders, opened'[r] # "none" PROVE Ahead(read[r], line[opened'[r]])
    BY <1>1 DEF FifoAhead, Ahead
  <2>1. CASE r = p
    <3>1. Len(read[r]) = 0
      BY <2>1, <1>3
    <3> QED
      BY <3>1 DEF Ahead
  <2>2. CASE r # p
    <3>1. opened'[r] = opened[r]
      BY <2>2, <1>2, FifoSets
    <3> QED
      BY <3>1, <1>t DEF FifoAhead
  <2> QED
    BY <2>1, <2>2
<1>9. FifoLate'
  <2> SUFFICES ASSUME NEW r \in FifoReaders, step'[r] = "close"
               PROVE  /\ \A w \in FifoWriters : opened'[w] = opened'[r] => w \in late'
                      /\ \A i \in 1..Len(line[opened'[r]]) : line[opened'[r]][i][1] \in late'
    BY <1>1 DEF FifoLate
  <2>1. r # p /\ r \in P!FifoProcs
    BY <1>2, <1>3, FifoSets
  <2>2. step[r] = "close" /\ opened'[r] = opened[r]
    BY <2>1, <1>2
  <2>3. ASSUME NEW w \in FifoWriters, opened'[w] = opened'[r] PROVE w \in late'
    <3>1. CASE w = p
      <4>1. opened[r] = name
        BY <2>2, <2>3, <3>1, <1>2, FifoSets
      <4>2. r \in P!Open(name, FifoReaders)
        BY <4>1 DEF P!Open
      <4> QED
        BY <2>2, <3>1, <4>2, FifoSets
    <3>2. CASE w # p
      BY <2>2, <2>3, <3>2, <1>2, <1>3, <1>t, FifoSets DEF FifoLate
    <3> QED
      BY <3>1, <3>2
  <2>4. \A i \in 1..Len(line[opened[r]]) : line[opened[r]][i][1] \in late'
    BY <2>2, <1>3, <1>t DEF FifoLate
  <2> QED
    BY <2>2, <2>3, <2>4
<1>10. FifoCarried'
  <2> SUFFICES ASSUME \A r \in FifoReaders : step'[r] # "killed",
                      NEW w \in FifoWriters \ late', NEW i \in 1..given[w]
               PROVE  \E r \in FifoReaders : Reads(r, <<w, i>>)' \/ Holds(r, <<w, i>>)'
    BY <1>1 DEF FifoCarried
  <2>1. \A r \in FifoReaders : step[r] # "killed"
    BY <1>1, <1>2, FifoSets
  <2>2. PICK r \in FifoReaders : Reads(r, <<w, i>>) \/ Holds(r, <<w, i>>)
    BY <2>1, <1>3, <1>t DEF FifoCarried
  <2>3. Reads(r, <<w, i>>) => Reads(r, <<w, i>>)'
    BY <1>1 DEF Reads
  <2>4. ASSUME Holds(r, <<w, i>>) PROVE Holds(r, <<w, i>>)'
    <3>1. r # p /\ r \in P!FifoProcs
      BY <2>4, <1>1, FifoSets DEF Holds
    <3>2. opened'[r] = opened[r] /\ step'[r] = "read"
      BY <2>4, <3>1, <1>2 DEF Holds
    <3> QED
      BY <2>4, <3>2, <1>1 DEF Holds
  <2> QED
    BY <2>2, <2>3, <2>4
<1> QED
  BY <1>4, <1>5, <1>6, <1>7, <1>8, <1>9, <1>10 DEF FifoInv

\* The rest of a sequence, in the order of the whole.
LEMMA Rest ==
  ASSUME NEW R, NEW s \in Seq(R), s # <<>>
  PROVE  /\ Tail(s) \in Seq(R) /\ Len(Tail(s)) = Len(s) - 1 /\ Head(s) = s[1] /\ s[1] \in R
         /\ Len(s) \in Nat /\ Len(s) >= 1 /\ Len(Tail(s)) \in Nat
         /\ \A i \in 1..Len(Tail(s)) : Tail(s)[i] = s[i + 1] /\ i + 1 \in 1..Len(s)
         /\ \A i \in 1..Len(s) : i # 1 => i - 1 \in 1..Len(Tail(s)) /\ Tail(s)[i - 1] = s[i]
OBVIOUS

LEMMA RestInOrder ==
  ASSUME NEW s \in Seq(FifoLines), s # <<>>, InOrder(s)
  PROVE  InOrder(Tail(s)) /\ \A i \in 1..Len(Tail(s)) : s[1][1] = Tail(s)[i][1] => s[1][2] < Tail(s)[i][2]
<1>1. /\ Len(s) \in Nat /\ Len(s) >= 1 /\ Len(Tail(s)) \in Nat
      /\ \A i \in 1..Len(Tail(s)) : Tail(s)[i] = s[i + 1] /\ i + 1 \in 1..Len(s)
  BY Rest
<1>2. 1 \in 1..Len(s) /\ \A i \in 1..Len(Tail(s)) : 1 < i + 1
  BY <1>1
<1>3. ASSUME NEW i \in 1..Len(Tail(s)), NEW j \in 1..Len(Tail(s)), i < j, Tail(s)[i][1] = Tail(s)[j][1]
      PROVE  Tail(s)[i][2] < Tail(s)[j][2]
  <2>1. i + 1 < j + 1
    BY <1>3
  <2> QED
    BY <2>1, <1>1, <1>3 DEF InOrder
<1>4. ASSUME NEW i \in 1..Len(Tail(s)), s[1][1] = Tail(s)[i][1] PROVE s[1][2] < Tail(s)[i][2]
  BY <1>1, <1>2, <1>4 DEF InOrder
<1> QED
  BY <1>3, <1>4 DEF InOrder

LEMMA MoreInOrder ==
  ASSUME NEW s \in Seq(FifoLines), NEW e \in FifoLines, InOrder(s),
         \A i \in 1..Len(s) : s[i][1] = e[1] => s[i][2] < e[2]
  PROVE  InOrder(Append(s, e))
<1>1. /\ Len(Append(s, e)) = Len(s) + 1 /\ Len(s) \in Nat
      /\ \A i \in 1..Len(s) : Append(s, e)[i] = s[i]
      /\ Append(s, e)[Len(s) + 1] = e
  BY OneMore
<1> SUFFICES ASSUME NEW i \in 1..(Len(s) + 1), NEW j \in 1..(Len(s) + 1), i < j,
                    Append(s, e)[i][1] = Append(s, e)[j][1]
             PROVE  Append(s, e)[i][2] < Append(s, e)[j][2]
  BY <1>1 DEF InOrder
<1>2. i \in 1..Len(s) /\ (j \in 1..Len(s) \/ j = Len(s) + 1)
  BY <1>1
<1>3. CASE j \in 1..Len(s)
  BY <1>1, <1>2, <1>3 DEF InOrder
<1>4. CASE j = Len(s) + 1
  BY <1>1, <1>2, <1>4
<1> QED
  BY <1>2, <1>3, <1>4

LEMMA FifoLeaves ==
  ASSUME FifoInv, NEW p \in P!FifoProcs, NEW s \in P!FifoEnded, P!Leaves(p, s),
         p \in FifoReaders => step[p] = "close" \/ s = "killed"
  PROVE  FifoInv'
<1>t. FifoTypes /\ FifoStages /\ FifoMet /\ FifoOrder /\ FifoAhead /\ FifoGiven /\ FifoLate /\ FifoCarried
  BY DEF FifoInv
<1>1. /\ step' = [step EXCEPT ![p] = s] /\ opened' = [opened EXCEPT ![p] = "none"]
      /\ line' = IF opened[p] # "none" /\ P!Open(opened[p], P!FifoProcs) = {p}
                 THEN [line EXCEPT ![opened[p]] = <<>>] ELSE line
      /\ UNCHANGED <<name, given, read, late>>
  BY DEF P!Leaves
<1>2. /\ \A q \in P!FifoProcs : step'[q] = IF q = p THEN s ELSE step[q]
      /\ \A q \in P!FifoProcs : opened'[q] = IF q = p THEN "none" ELSE opened[q]
  BY <1>1, <1>t DEF FifoTypes
<1>3. s \notin {"mkfifo", "open", "wait", "read", "write", "close"}
  BY DEF P!FifoEnded
<1>4. \A f \in P!Fifos : line'[f] = <<>> \/ line'[f] = line[f]
  BY <1>1, <1>t DEF FifoTypes
<1>5. \A q \in P!FifoProcs : q # p /\ opened[q] # "none" =>
        opened[q] \in P!Fifos /\ line'[opened[q]] = line[opened[q]]
  <2> SUFFICES ASSUME NEW q \in P!FifoProcs, q # p, opened[q] # "none"
               PROVE  opened[q] \in P!Fifos /\ line'[opened[q]] = line[opened[q]]
    OBVIOUS
  <2>1. opened[q] \in P!Fifos
    BY <1>t DEF FifoTypes
  <2>2. opened[q] = opened[p] => P!Open(opened[p], P!FifoProcs) # {p}
    BY DEF P!Open
  <2> QED
    BY <1>1, <2>1, <2>2, <1>t DEF FifoTypes
<1>6. line' \in [P!Fifos -> Seq(FifoLines)] /\ \A f \in P!Fifos : Len(line'[f]) <= FifoSize
  <2>1. <<>> \in Seq(FifoLines) /\ Len(<<>>) = 0
    OBVIOUS
  <2>2. line' \in [P!Fifos -> Seq(FifoLines)]
    BY <1>1, <2>1, <1>t DEF FifoTypes
  <2>3. \A f \in P!Fifos : Len(line'[f]) <= FifoSize
    BY <1>4, <2>1, <1>t, FifoSets DEF FifoTypes
  <2> QED
    BY <2>2, <2>3
<1>7. FifoTypes'
  <2>1. step' \in [P!FifoProcs -> {"mkfifo", "open", "wait", "read", "write", "close"} \cup P!FifoEnded]
    BY <1>1, <1>t DEF FifoTypes
  <2>2. opened' \in [P!FifoProcs -> P!Fifos \cup {"none"}]
    BY <1>1, <1>t DEF FifoTypes
  <2> QED
    BY <1>1, <1>6, <2>1, <2>2, <1>t DEF FifoTypes
<1>8. FifoStages'
  <2>1. \A r \in FifoReaders : step'[r] # "write"
    BY <1>2, <1>3, <1>t, FifoSets DEF FifoStages
  <2>2. \A w \in FifoWriters : step'[w] \notin {"mkfifo", "read", "close"}
    BY <1>2, <1>3, <1>t, FifoSets DEF FifoStages
  <2>3. \A q \in P!FifoProcs : opened'[q] # "none" <=> step'[q] \in {"wait", "read", "write", "close"}
    BY <1>2, <1>3, <1>t DEF FifoStages
  <2>4. \A r \in FifoReaders : step'[r] \in {"mkfifo", "open", "wait"} => read'[r] = <<>>
    BY <1>1, <1>2, <1>3, <1>t, FifoSets DEF FifoStages
  <2> QED
    BY <2>1, <2>2, <2>3, <2>4 DEF FifoStages
<1>9. FifoMet'
  BY <1>2, <1>t, FifoSets DEF FifoMet
<1>10. FifoOrder'
  <2>1. InOrder(<<>>)
    BY DEF InOrder
  <2>2. \A f \in P!Fifos : InOrder(line'[f])
    BY <1>4, <2>1, <1>t DEF FifoOrder
  <2>3. \A r \in FifoReaders : InOrder(read'[r])
    BY <1>1, <1>t DEF FifoOrder
  <2> QED
    BY <2>2, <2>3 DEF FifoOrder, InOrder
<1>11. FifoGiven'
  <2>1. ASSUME NEW f \in P!Fifos, NEW i \in 1..Len(line'[f]) PROVE line'[f][i][2] <= given[line'[f][i][1]]
    <3>1. line'[f] = line[f]
      <4>1. Len(<<>>) = 0
        OBVIOUS
      <4>2. line'[f] # <<>>
        BY <4>1
      <4> QED
        BY <4>2, <1>4
    <3> QED
      BY <3>1, <1>t DEF FifoGiven
  <2> QED
    BY <2>1, <1>1, <1>t DEF FifoGiven
<1>12. FifoAhead'
  <2> SUFFICES ASSUME NEW r \in FifoReaders, opened'[r] # "none" PROVE Ahead(read[r], line'[opened'[r]])
    BY <1>1 DEF FifoAhead, Ahead
  <2>1. r # p /\ r \in P!FifoProcs
    BY <1>2, FifoSets
  <2>2. opened'[r] = opened[r] /\ line'[opened[r]] = line[opened[r]]
    BY <1>2, <1>5, <2>1
  <2> QED
    BY <2>2, <1>t DEF FifoAhead
<1>13. FifoLate'
  <2> SUFFICES ASSUME NEW r \in FifoReaders, step'[r] = "close"
               PROVE  /\ \A w \in FifoWriters : opened'[w] = opened'[r] => w \in late
                      /\ \A i \in 1..Len(line'[opened'[r]]) : line'[opened'[r]][i][1] \in late
    BY <1>1 DEF FifoLate
  <2>1. r # p /\ r \in P!FifoProcs
    BY <1>2, <1>3, FifoSets
  <2>2. step[r] = "close" /\ opened'[r] = opened[r] /\ opened[r] # "none"
    BY <2>1, <1>2, <1>t DEF FifoStages
  <2>3. line'[opened[r]] = line[opened[r]]
    BY <1>5, <2>1, <2>2
  <2>4. \A w \in FifoWriters : opened'[w] = opened[r] => opened[w] = opened[r]
    BY <1>2, <2>2, FifoSets
  <2> QED
    BY <2>2, <2>3, <2>4, <1>t DEF FifoLate
<1>14. FifoCarried'
  <2> SUFFICES ASSUME \A r \in FifoReaders : step'[r] # "killed",
                      NEW w \in FifoWriters \ late, NEW i \in 1..given[w]
               PROVE  \E r \in FifoReaders : Reads(r, <<w, i>>)' \/ Holds(r, <<w, i>>)'
    BY <1>1 DEF FifoCarried
  <2>1. p \in FifoReaders => step[p] = "close"
    BY <1>2, FifoSets
  <2>2. \A r \in FifoReaders : step[r] # "killed"
    <3>1. ASSUME NEW r \in FifoReaders PROVE step[r] # "killed"
      <4>1. CASE r = p
        BY <4>1, <2>1
      <4>2. CASE r # p
        BY <4>2, <1>2, FifoSets
      <4> QED
        BY <4>1, <4>2
    <3> QED
      BY <3>1
  <2>3. PICK r \in FifoReaders : Reads(r, <<w, i>>) \/ Holds(r, <<w, i>>)
    BY <2>2, <1>t DEF FifoCarried
  <2>4. Reads(r, <<w, i>>) => Reads(r, <<w, i>>)'
    BY <1>1 DEF Reads
  <2>5. ASSUME Holds(r, <<w, i>>) PROVE Holds(r, <<w, i>>)'
    <3>1. r # p /\ r \in P!FifoProcs /\ step[r] = "read"
      BY <2>5, <2>1, FifoSets DEF Holds
    <3>2. opened[r] # "none"
      BY <3>1, <1>t DEF FifoStages
    <3>3. line'[opened[r]] = line[opened[r]] /\ opened'[r] = opened[r] /\ step'[r] = "read"
      BY <3>1, <3>2, <1>2, <1>5
    <3> QED
      BY <2>5, <3>3 DEF Holds
  <2> QED
    BY <2>3, <2>4, <2>5
<1> QED
  BY <1>7, <1>8, <1>9, <1>10, <1>11, <1>12, <1>13, <1>14 DEF FifoInv

LEMMA FifoReads == ASSUME FifoInv, NEW r \in FifoReaders, P!ReadFifo(r) PROVE FifoInv'
<1>t. FifoTypes /\ FifoStages /\ FifoMet /\ FifoOrder /\ FifoAhead /\ FifoGiven /\ FifoLate /\ FifoCarried
  BY DEF FifoInv
<1> DEFINE f == opened[r]
<1>1. step[r] = "read" /\ UNCHANGED <<name, opened, given, late>>
  BY DEF P!ReadFifo
<1>2. f \in P!Fifos /\ f # "none" /\ r \in P!FifoProcs
  BY <1>1, <1>t, FifoSets DEF FifoTypes, FifoStages
<1>3. line[f] \in Seq(FifoLines) /\ read[r] \in Seq(FifoLines)
  BY <1>2, <1>t DEF FifoTypes
<1>4. CASE /\ line[f] # <<>> /\ line' = [line EXCEPT ![f] = Tail(@)]
           /\ read' = [read EXCEPT ![r] = Append(@, Head(line[f]))] /\ UNCHANGED step
  <2> DEFINE m == line[f][1]
  <2>1. /\ Tail(line[f]) \in Seq(FifoLines) /\ Len(Tail(line[f])) = Len(line[f]) - 1
        /\ Head(line[f]) = m /\ m \in FifoLines /\ Len(line[f]) \in Nat /\ Len(line[f]) >= 1
        /\ \A i \in 1..Len(Tail(line[f])) : Tail(line[f])[i] = line[f][i + 1] /\ i + 1 \in 1..Len(line[f])
        /\ \A i \in 1..Len(line[f]) : i # 1 => i - 1 \in 1..Len(Tail(line[f])) /\ Tail(line[f])[i - 1] = line[f][i]
    BY <1>3, <1>4, Rest
  <2>2. \A g \in P!Fifos : line'[g] = IF g = f THEN Tail(line[f]) ELSE line[g]
    BY <1>2, <1>4, <1>t DEF FifoTypes
  <2>3. \A q \in FifoReaders : read'[q] = IF q = r THEN Append(read[r], m) ELSE read[q]
    BY <1>4, <2>1, <1>t DEF FifoTypes
  <2>m. 1 \in 1..Len(line[f])
    BY <2>1
  <2> HIDE DEF f, m
  <2>4. /\ Append(read[r], m) \in Seq(FifoLines) /\ Len(Append(read[r], m)) = Len(read[r]) + 1
        /\ \A i \in 1..Len(read[r]) : Append(read[r], m)[i] = read[r][i]
        /\ Append(read[r], m)[Len(read[r]) + 1] = m /\ Len(read[r]) \in Nat
    BY <1>3, <2>1, OneMore
  <2>a. /\ line'[f] = Tail(line[f]) /\ Len(line'[f]) = Len(line[f]) - 1
        /\ \A i \in 1..Len(line'[f]) : line'[f][i] = line[f][i + 1] /\ i + 1 \in 1..Len(line[f])
    BY <1>2, <2>1, <2>2
  <2>b. /\ read'[r] = Append(read[r], m) /\ Len(read'[r]) = Len(read[r]) + 1
        /\ \A i \in 1..Len(read[r]) : read'[r][i] = read[r][i]
        /\ read'[r][Len(read[r]) + 1] = m
    BY <2>3, <2>4
  <2>c. /\ \A i : i \in 1..(Len(read[r]) + 1) <=> i \in 1..Len(read[r]) \/ i = Len(read[r]) + 1
    BY <2>4
  <2>5. FifoTypes'
    <3>1. line' \in [P!Fifos -> Seq(FifoLines)] /\ read' \in [FifoReaders -> Seq(FifoLines)]
      <4>1. line' \in [P!Fifos -> Seq(FifoLines)]
        BY <1>2, <1>4, <2>1, <1>t DEF FifoTypes
      <4>2. read' \in [FifoReaders -> Seq(FifoLines)]
        BY <1>4, <2>1, <2>4, <1>t DEF FifoTypes
      <4> QED
        BY <4>1, <4>2
    <3>2. ASSUME NEW g \in P!Fifos PROVE Len(line'[g]) <= FifoSize
      <4>1. Len(line[g]) <= FifoSize
        BY <1>t DEF FifoTypes
      <4>2. CASE g = f
        <5>1. Len(line'[f]) = Len(line[f]) - 1 /\ Len(line[f]) <= FifoSize
          BY <4>1, <4>2, <2>a
        <5> QED
          BY <4>2, <5>1, <2>1, FifoSets
      <4>3. CASE g # f
        BY <4>1, <4>3, <2>2
      <4> QED
        BY <4>2, <4>3
    <3> QED
      BY <1>1, <1>4, <3>1, <3>2, <1>t DEF FifoTypes
  <2>6. FifoStages'
    <3>1. \A q \in FifoReaders : step[q] \in {"mkfifo", "open", "wait"} => read'[q] = <<>>
      BY <1>1, <2>3, <1>t DEF FifoStages
    <3> QED
      BY <1>1, <1>4, <3>1, <1>t DEF FifoStages
  <2>7. FifoMet'
    BY <1>1, <1>4, <1>t DEF FifoMet
  <2>8. InOrder(line[f]) /\ InOrder(read[r]) /\ Ahead(read[r], line[f])
    BY <1>2, <1>t DEF FifoOrder, FifoAhead, f
  <2>9. FifoOrder'
    <3>1. InOrder(Tail(line[f]))
      BY <1>3, <1>4, <2>8, RestInOrder
    <3>2. InOrder(Append(read[r], m))
      <4>1. \A i \in 1..Len(read[r]) : read[r][i][1] = m[1] => read[r][i][2] < m[2]
        BY <2>8, <2>m DEF Ahead, m
      <4> QED
        BY <1>3, <2>1, <2>8, <4>1, MoreInOrder
    <3>3. \A g \in P!Fifos : InOrder(line'[g])
      BY <2>2, <3>1, <1>t DEF FifoOrder
    <3>4. \A q \in FifoReaders : InOrder(read'[q])
      BY <2>3, <3>2, <1>t DEF FifoOrder
    <3> QED
      BY <3>3, <3>4 DEF FifoOrder, InOrder
  <2>10. ASSUME NEW q \in FifoReaders, opened[q] = f PROVE Ahead(read[q], Tail(line[f]))
    <3>1. Ahead(read[q], line[f])
      BY <2>10, <1>2, <1>t DEF FifoAhead
    <3> QED
      BY <3>1, <2>1 DEF Ahead
  <2>11. FifoAhead'
    <3> SUFFICES ASSUME NEW q \in FifoReaders, opened[q] # "none" PROVE Ahead(read'[q], line'[opened[q]])
      BY <1>1 DEF FifoAhead, Ahead
    <3>1. opened[q] \in P!Fifos
      BY <1>t, FifoSets DEF FifoTypes
    <3>2. CASE q = r
      <4>1. read'[q] = Append(read[r], m) /\ line'[opened[q]] = Tail(line[f])
        BY <1>2, <2>2, <2>3, <3>2 DEF f
      <4>2. \A i \in 1..Len(Tail(line[f])) : m[1] = Tail(line[f])[i][1] => m[2] < Tail(line[f])[i][2]
        BY <1>3, <1>4, <2>8, RestInOrder DEF m
      <4>3. Ahead(read[r], Tail(line[f]))
        BY <2>10 DEF f
      <4>4. ASSUME NEW i \in 1..(Len(read[r]) + 1), NEW j \in 1..Len(Tail(line[f])),
                   Append(read[r], m)[i][1] = Tail(line[f])[j][1]
            PROVE  Append(read[r], m)[i][2] < Tail(line[f])[j][2]
        <5>1. i \in 1..Len(read[r]) \/ i = Len(read[r]) + 1
          BY <2>4
        <5>2. CASE i \in 1..Len(read[r])
          BY <5>2, <4>3, <4>4, <2>4 DEF Ahead
        <5>3. CASE i = Len(read[r]) + 1
          BY <5>3, <4>2, <4>4, <2>4
        <5> QED
          BY <5>1, <5>2, <5>3
      <4> QED
        BY <4>1, <4>4, <2>4 DEF Ahead
    <3>3. CASE q # r /\ opened[q] = f
      BY <1>2, <2>2, <2>3, <2>10, <3>3
    <3>4. CASE q # r /\ opened[q] # f
      BY <2>2, <2>3, <3>1, <3>4, <1>t DEF FifoAhead
    <3> QED
      BY <3>2, <3>3, <3>4
  <2>12. FifoGiven'
    <3>1. m[2] <= given[m[1]]
      BY <1>2, <2>m, <1>t DEF FifoGiven, m
    <3>2. ASSUME NEW g \in P!Fifos, NEW i \in 1..Len(line'[g]) PROVE line'[g][i][2] <= given[line'[g][i][1]]
      <4>1. CASE g = f
        <5>1. i + 1 \in 1..Len(line[f]) /\ line'[f][i] = line[f][i + 1]
          BY <3>2, <4>1, <2>a
        <5>2. line[f][i + 1][2] <= given[line[f][i + 1][1]]
          BY <1>2, <5>1, <1>t DEF FifoGiven
        <5> QED
          BY <4>1, <5>1, <5>2
      <4>2. CASE g # f
        BY <2>2, <3>2, <4>2, <1>t DEF FifoGiven
      <4> QED
        BY <4>1, <4>2
    <3>3. ASSUME NEW q \in FifoReaders, NEW i \in 1..Len(read'[q]) PROVE read'[q][i][2] <= given[read'[q][i][1]]
      <4>1. CASE q = r /\ i \in 1..Len(read[r])
        BY <2>3, <2>4, <4>1, <1>t DEF FifoGiven
      <4>2. CASE q = r /\ i = Len(read[r]) + 1
        BY <2>3, <2>4, <3>1, <4>2
      <4>3. CASE q # r
        BY <2>3, <3>3, <4>3, <1>t DEF FifoGiven
      <4>4. q = r => i \in 1..Len(read[r]) \/ i = Len(read[r]) + 1
        BY <2>b, <2>c, <3>3
      <4> QED
        BY <4>1, <4>2, <4>3, <4>4
    <3> QED
      BY <1>1, <3>2, <3>3 DEF FifoGiven
  <2>13. FifoLate'
    <3> SUFFICES ASSUME NEW q \in FifoReaders, step[q] = "close"
                 PROVE  /\ \A w \in FifoWriters : opened[w] = opened[q] => w \in late
                        /\ \A i \in 1..Len(line'[opened[q]]) : line'[opened[q]][i][1] \in late
      <4>1. step' = step /\ opened' = opened /\ late' = late
        BY <1>1, <1>4
      <4> QED
        BY <4>1 DEF FifoLate
    <3>1. /\ \A w \in FifoWriters : opened[w] = opened[q] => w \in late
          /\ \A i \in 1..Len(line[opened[q]]) : line[opened[q]][i][1] \in late
      BY <1>t DEF FifoLate
    <3>2. opened[q] \in P!Fifos
      BY <1>t, FifoSets DEF FifoTypes, FifoStages
    <3>3. CASE opened[q] = f
      <4> SUFFICES ASSUME NEW i \in 1..Len(line'[f]) PROVE line'[f][i][1] \in late
        BY <3>1, <3>3
      <4>1. i + 1 \in 1..Len(line[f]) /\ line'[f][i] = line[f][i + 1]
        BY <2>a
      <4> QED
        BY <3>1, <3>3, <4>1
    <3>4. CASE opened[q] # f
      BY <3>1, <3>2, <3>4, <2>2
    <3> QED
      BY <3>1, <3>3, <3>4
  <2>14. FifoCarried'
    <3> SUFFICES ASSUME \A q \in FifoReaders : step[q] # "killed",
                        NEW w \in FifoWriters \ late, NEW i \in 1..given[w]
                 PROVE  \E q \in FifoReaders : Reads(q, <<w, i>>)' \/ Holds(q, <<w, i>>)'
      BY <1>1, <1>4 DEF FifoCarried
    <3>1. PICK q \in FifoReaders : Reads(q, <<w, i>>) \/ Holds(q, <<w, i>>)
      BY <1>t DEF FifoCarried
    <3>2. CASE Reads(q, <<w, i>>)
      <4>1. PICK j \in 1..Len(read[q]) : read[q][j] = <<w, i>>
        BY <3>2 DEF Reads
      <4>2. CASE q = r
        <5>1. j \in 1..Len(read'[r]) /\ read'[r][j] = <<w, i>>
          BY <2>b, <2>c, <4>1, <4>2
        <5> QED
          BY <5>1 DEF Reads
      <4>3. CASE q # r
        BY <2>3, <4>1, <4>3 DEF Reads
      <4> QED
        BY <4>2, <4>3
    <3>3. CASE Holds(q, <<w, i>>)
      <4>1. PICK j \in 1..Len(line[opened[q]]) : step[q] = "read" /\ line[opened[q]][j] = <<w, i>>
        BY <3>3 DEF Holds
      <4>2. opened[q] \in P!Fifos
        BY <4>1, <1>t, FifoSets DEF FifoTypes, FifoStages
      <4>3. CASE opened[q] # f
        <5>1. line'[opened[q]] = line[opened[q]]
          BY <2>2, <4>2, <4>3
        <5> QED
          BY <1>1, <1>4, <4>1, <5>1 DEF Holds
      <4>4. CASE opened[q] = f /\ j = 1
        <5>1. Len(read[r]) + 1 \in 1..Len(read'[r]) /\ read'[r][Len(read[r]) + 1] = <<w, i>>
          BY <2>b, <2>c, <4>1, <4>4 DEF m
        <5> QED
          BY <5>1 DEF Reads
      <4>5. CASE opened[q] = f /\ j # 1
        <5>1. j - 1 \in 1..Len(line'[opened[q]]) /\ line'[opened[q]][j - 1] = <<w, i>>
          BY <1>2, <2>1, <2>2, <4>1, <4>5
        <5> QED
          BY <1>1, <1>4, <4>1, <5>1 DEF Holds
      <4> QED
        BY <4>3, <4>4, <4>5
    <3> QED
      BY <3>1, <3>2, <3>3
  <2> QED
    BY <2>5, <2>6, <2>7, <2>9, <2>11, <2>12, <2>13, <2>14 DEF FifoInv
<1>5. CASE /\ line[f] = <<>> /\ P!Open(f, FifoWriters) = {}
           /\ step' = [step EXCEPT ![r] = "close"] /\ UNCHANGED <<line, read>>
  <2> HIDE DEF f
  <2>1. \A q \in P!FifoProcs : step'[q] = IF q = r THEN "close" ELSE step[q]
    BY <1>5, <1>t DEF FifoTypes
  <2>2. FifoTypes'
    <3>1. step' \in [P!FifoProcs -> {"mkfifo", "open", "wait", "read", "write", "close"} \cup P!FifoEnded]
      BY <1>5, <1>t DEF FifoTypes
    <3> QED
      BY <1>1, <1>5, <3>1, <1>t DEF FifoTypes
  <2>3. FifoStages'
    <3>1. \A q \in FifoReaders : step'[q] # "write"
      BY <2>1, <1>t, FifoSets DEF FifoStages
    <3>2. \A w \in FifoWriters : step'[w] \notin {"mkfifo", "read", "close"}
      BY <2>1, <1>t, FifoSets DEF FifoStages
    <3>3. \A q \in P!FifoProcs : opened'[q] # "none" <=> step'[q] \in {"wait", "read", "write", "close"}
      BY <1>1, <2>1, <1>t DEF FifoStages
    <3>4. \A q \in FifoReaders : step'[q] \in {"mkfifo", "open", "wait"} => read'[q] = <<>>
      BY <1>5, <2>1, <1>t, FifoSets DEF FifoStages
    <3> QED
      BY <3>1, <3>2, <3>3, <3>4 DEF FifoStages
  <2>4. FifoMet'
    BY <1>1, <2>1, <1>t, FifoSets DEF FifoMet
  <2>5. FifoOrder' /\ FifoAhead' /\ FifoGiven'
    BY <1>1, <1>5, <1>t DEF FifoOrder, FifoAhead, FifoGiven, InOrder, Ahead
  <2>6. FifoLate'
    <3> SUFFICES ASSUME NEW q \in FifoReaders, step'[q] = "close"
                 PROVE  /\ \A w \in FifoWriters : opened[w] = opened[q] => w \in late
                        /\ \A i \in 1..Len(line[opened[q]]) : line[opened[q]][i][1] \in late
      BY <1>1, <1>5 DEF FifoLate
    <3>1. CASE q = r
      <4>1. \A w \in FifoWriters : opened[w] # opened[q]
        BY <1>5, <3>1 DEF P!Open, f
      <4>2. Len(line[opened[q]]) = 0
        BY <1>5, <3>1 DEF f
      <4> QED
        BY <4>1, <4>2
    <3>2. CASE q # r
      BY <2>1, <3>2, <1>t, FifoSets DEF FifoLate
    <3> QED
      BY <3>1, <3>2
  <2>7. FifoCarried'
    <3> SUFFICES ASSUME \A q \in FifoReaders : step'[q] # "killed",
                        NEW w \in FifoWriters \ late, NEW i \in 1..given[w]
                 PROVE  \E q \in FifoReaders : Reads(q, <<w, i>>)' \/ Holds(q, <<w, i>>)'
      BY <1>1 DEF FifoCarried
    <3>1. \A q \in FifoReaders : step[q] # "killed"
      BY <2>1, <1>1, FifoSets
    <3>2. PICK q \in FifoReaders : Reads(q, <<w, i>>) \/ Holds(q, <<w, i>>)
      BY <3>1, <1>t DEF FifoCarried
    <3>3. CASE Reads(q, <<w, i>>)
      BY <1>5, <3>3 DEF Reads
    <3>4. CASE Holds(q, <<w, i>>)
      <4>1. q # r
        <5>1. Len(line[opened[r]]) = 0
          BY <1>5 DEF f
        <5> QED
          BY <3>4, <5>1 DEF Holds
      <4>2. step'[q] = "read"
        BY <2>1, <3>4, <4>1, FifoSets DEF Holds
      <4> QED
        BY <1>1, <1>5, <3>4, <4>2 DEF Holds
    <3> QED
      BY <3>2, <3>3, <3>4
  <2> QED
    BY <2>2, <2>3, <2>4, <2>5, <2>6, <2>7 DEF FifoInv
<1> QED
  BY <1>4, <1>5 DEF P!ReadFifo

LEMMA StillAhead ==
  ASSUME opened' = opened, read' = read,
         \A r \in FifoReaders : opened[r] # "none" => Ahead(read[r], line'[opened[r]])
  PROVE  FifoAhead'
BY DEF FifoAhead, Ahead

\* A line that is written is the next one of its writer.
LEMMA FifoWrites ==
  ASSUME FifoInv, NEW w \in FifoWriters, step[w] = "write", given[w] < MaxGiven,
         P!Open(opened[w], FifoReaders) # {}, Len(line[opened[w]]) < FifoSize,
         line' = [line EXCEPT ![opened[w]] = Append(@, <<w, given[w] + 1>>)],
         given' = [given EXCEPT ![w] = @ + 1],
         UNCHANGED <<name, step, opened, read, late>>
  PROVE  FifoInv'
<1>t. FifoTypes /\ FifoStages /\ FifoMet /\ FifoOrder /\ FifoAhead /\ FifoGiven /\ FifoLate /\ FifoCarried
  BY DEF FifoInv
<1> DEFINE f == opened[w]
           m == <<w, given[w] + 1>>
<1>1. f \in P!Fifos /\ f # "none" /\ w \in P!FifoProcs
  BY <1>t, FifoSets DEF FifoTypes, FifoStages
<1>2. line[f] \in Seq(FifoLines) /\ given[w] \in Nat /\ given[w] + 1 \in 0..MaxGiven
  BY <1>1, <1>t, FifoSets DEF FifoTypes
<1>3. m \in FifoLines /\ m[1] = w /\ m[2] = given[w] + 1
  BY <1>2 DEF FifoLines
<1>4. \A v \in FifoWriters : given'[v] = IF v = w THEN given[w] + 1 ELSE given[v]
  BY <1>t DEF FifoTypes
<1>5. /\ line'[f] = Append(line[f], m)
      /\ \A g \in P!Fifos : g # f => line'[g] = line[g]
  BY <1>1, <1>t DEF FifoTypes
<1> HIDE DEF f, m
<1>6. /\ line'[f] \in Seq(FifoLines) /\ Len(line'[f]) = Len(line[f]) + 1 /\ Len(line[f]) \in Nat
      /\ \A i \in 1..Len(line[f]) : line'[f][i] = line[f][i]
      /\ line'[f][Len(line[f]) + 1] = m
  <2>1. line[f] \in Seq(FifoLines)
    BY <1>2
  <2>2. /\ Append(line[f], m) \in Seq(FifoLines) /\ Len(Append(line[f], m)) = Len(line[f]) + 1
        /\ \A i \in 1..Len(line[f]) : Append(line[f], m)[i] = line[f][i]
        /\ Append(line[f], m)[Len(line[f]) + 1] = m
    BY <2>1, <1>3, OneMore
  <2>3. Len(line[f]) \in Nat
    BY <2>1
  <2> QED
    BY <2>2, <2>3, <1>5
<1>7. \A i : i \in 1..(Len(line[f]) + 1) <=> i \in 1..Len(line[f]) \/ i = Len(line[f]) + 1
  BY <1>6
<1>8. \A v \in FifoWriters : given[v] \in Nat /\ given'[v] \in Nat /\ given[v] <= given'[v]
  BY <1>2, <1>4, <1>t DEF FifoTypes
<1>l. /\ \A g \in P!Fifos : \A i \in 1..Len(line[g]) : line[g][i] \in FifoLines
      /\ \A r \in FifoReaders : \A i \in 1..Len(read[r]) : read[r][i] \in FifoLines
  BY <1>t DEF FifoTypes
<1>9. FifoTypes'
  <2>1. line' \in [P!Fifos -> Seq(FifoLines)]
    BY <1>1, <1>6, <1>t DEF FifoTypes, f
  <2>2. given' \in [FifoWriters -> 0..MaxGiven]
    BY <1>2, <1>t DEF FifoTypes
  <2>3. ASSUME NEW g \in P!Fifos PROVE Len(line'[g]) <= FifoSize
    <3>1. CASE g = f
      <4>1. Len(line[f]) + 1 <= FifoSize
        BY <1>6, FifoSets DEF f
      <4> QED
        BY <3>1, <4>1, <1>6
    <3>2. CASE g # f
      BY <3>2, <1>5, <1>t DEF FifoTypes
    <3> QED
      BY <3>1, <3>2
  <2> QED
    BY <2>1, <2>2, <2>3, <1>t DEF FifoTypes
<1>10. FifoStages' /\ FifoMet'
  BY <1>t DEF FifoStages, FifoMet
<1>11. \A i \in 1..Len(line[f]) : line[f][i][1] = w => line[f][i][2] < given[w] + 1
  <2> SUFFICES ASSUME NEW i \in 1..Len(line[f]), line[f][i][1] = w PROVE line[f][i][2] < given[w] + 1
    OBVIOUS
  <2>1. line[f][i][2] <= given[w] /\ line[f][i][2] \in Nat
    BY <1>1, <1>l, <1>t DEF FifoGiven, FifoLines
  <2> QED
    BY <2>1, <1>2
<1>12. FifoOrder'
  <2>1. InOrder(line'[f])
    BY <1>1, <1>2, <1>3, <1>5, <1>11, <1>t, MoreInOrder DEF FifoOrder
  <2>2. \A g \in P!Fifos : InOrder(line'[g])
    BY <2>1, <1>5, <1>t DEF FifoOrder
  <2> QED
    BY <2>2, <1>t DEF FifoOrder, InOrder
<1>13. FifoAhead'
  <2> SUFFICES ASSUME NEW r \in FifoReaders, opened[r] # "none" PROVE Ahead(read[r], line'[opened[r]])
    BY StillAhead
  <2>1. opened[r] \in P!Fifos /\ Ahead(read[r], line[opened[r]])
    BY <1>t, FifoSets DEF FifoTypes, FifoAhead
  <2>2. CASE opened[r] = f
    <3> SUFFICES ASSUME NEW i \in 1..Len(read[r]), NEW j \in 1..Len(line'[f]), read[r][i][1] = line'[f][j][1]
                 PROVE  read[r][i][2] < line'[f][j][2]
      BY <2>2 DEF Ahead
    <3>1. CASE j \in 1..Len(line[f])
      <4>1. line'[f][j] = line[f][j] /\ Ahead(read[r], line[f])
        BY <2>1, <2>2, <3>1, <1>6
      <4>2. read[r][i][1] = line[f][j][1] => read[r][i][2] < line[f][j][2]
        BY <4>1, <3>1 DEF Ahead
      <4> QED
        BY <4>1, <4>2
    <3>2. CASE j = Len(line[f]) + 1
      <4>1. read[r][i][1] = w /\ line'[f][j][2] = given[w] + 1
        BY <3>2, <1>3, <1>6
      <4>2. read[r][i][2] <= given[w] /\ read[r][i][2] \in Nat
        BY <4>1, <1>l, <1>t DEF FifoGiven, FifoLines
      <4>3. PICK a, b : a = read[r][i][2] /\ b = given[w]
        OBVIOUS
      <4>4. a \in Nat /\ b \in Nat /\ a <= b
        BY <4>2, <4>3, <1>2
      <4>5. a < b + 1
        BY <4>4
      <4> QED
        BY <4>1, <4>3, <4>5
    <3>3. Len(line[f]) \in Nat /\ Len(line'[f]) = Len(line[f]) + 1
      BY <1>6, <1>7
    <3>4. j \in 1..Len(line[f]) \/ j = Len(line[f]) + 1
      BY <3>3
    <3> QED
      BY <3>1, <3>2, <3>4
  <2>3. CASE opened[r] # f
    BY <2>1, <2>3, <1>5
  <2> QED
    BY <2>2, <2>3
<1>14. FifoGiven'
  <2>1. \A l \in FifoLines : l[1] \in FifoWriters /\ l[2] \in Nat
    BY DEF FifoLines
  <2>2. \A l \in FifoLines : l[2] <= given[l[1]] => l[2] <= given'[l[1]]
    <3> SUFFICES ASSUME NEW l \in FifoLines, l[2] <= given[l[1]] PROVE l[2] <= given'[l[1]]
      OBVIOUS
    <3>1. l[2] \in Nat /\ given[l[1]] \in Nat /\ given'[l[1]] \in Nat /\ given[l[1]] <= given'[l[1]]
      BY <2>1, <1>8
    <3> QED
      BY <3>1
  <2>3. ASSUME NEW g \in P!Fifos, NEW i \in 1..Len(line'[g]) PROVE line'[g][i][2] <= given'[line'[g][i][1]]
    <3>1. CASE g = f /\ i = Len(line[f]) + 1
      <4>1. line'[g][i][2] = given[w] + 1 /\ line'[g][i][1] = w
        BY <3>1, <1>3, <1>6
      <4> QED
        BY <4>1, <1>2, <1>4
    <3>2. CASE g = f /\ i \in 1..Len(line[f])
      <4>1. line'[g][i] = line[f][i] /\ line[f][i] \in FifoLines /\ line[f][i][2] <= given[line[f][i][1]]
        BY <3>2, <1>1, <1>6, <1>l, <1>t DEF FifoGiven
      <4> QED
        BY <4>1, <2>2
    <3>3. CASE g # f
      <4>1. line'[g] = line[g] /\ line[g][i] \in FifoLines /\ line[g][i][2] <= given[line[g][i][1]]
        BY <3>3, <2>3, <1>5, <1>l, <1>t DEF FifoGiven
      <4> QED
        BY <4>1, <2>2
    <3> QED
      BY <3>1, <3>2, <3>3, <2>3, <1>6, <1>7
  <2>4. ASSUME NEW r \in FifoReaders, NEW i \in 1..Len(read[r]) PROVE read[r][i][2] <= given'[read[r][i][1]]
    BY <2>2, <1>l, <1>t DEF FifoGiven
  <2> QED
    BY <2>3, <2>4 DEF FifoGiven
<1>15. FifoLate'
  <2> SUFFICES ASSUME NEW r \in FifoReaders, step[r] = "close"
               PROVE  /\ \A v \in FifoWriters : opened[v] = opened[r] => v \in late
                      /\ \A i \in 1..Len(line'[opened[r]]) : line'[opened[r]][i][1] \in late
    <3>1. step' = step /\ opened' = opened /\ late' = late
      OBVIOUS
    <3> QED
      BY <3>1, Zenon DEF FifoLate
  <2>1. /\ \A v \in FifoWriters : opened[v] = opened[r] => v \in late
        /\ \A i \in 1..Len(line[opened[r]]) : line[opened[r]][i][1] \in late
    BY <1>t DEF FifoLate
  <2>2. opened[r] \in P!Fifos
    BY <1>t, FifoSets DEF FifoTypes, FifoStages
  <2>3. CASE opened[r] = f
    <3>1. w \in late
      BY <2>1, <2>3 DEF f
    <3> SUFFICES ASSUME NEW i \in 1..Len(line'[f]) PROVE line'[f][i][1] \in late
      BY <2>1, <2>3
    <3>2. CASE i \in 1..Len(line[f])
      BY <2>1, <2>3, <3>2, <1>6
    <3>3. CASE i = Len(line[f]) + 1
      BY <3>1, <3>3, <1>3, <1>6
    <3> QED
      BY <3>2, <3>3, <1>6, <1>7
  <2>4. CASE opened[r] # f
    BY <2>1, <2>2, <2>4, <1>5
  <2> QED
    BY <2>1, <2>3, <2>4
<1>16. FifoCarried'
  <2> SUFFICES ASSUME \A r \in FifoReaders : step[r] # "killed",
                      NEW v \in FifoWriters \ late, NEW i \in 1..given'[v]
               PROVE  \E r \in FifoReaders : Reads(r, <<v, i>>)' \/ Holds(r, <<v, i>>)'
    BY DEF FifoCarried
  <2>1. CASE i \in 1..given[v]
    <3>1. PICK r \in FifoReaders : Reads(r, <<v, i>>) \/ Holds(r, <<v, i>>)
      BY <2>1, <1>t DEF FifoCarried
    <3>2. Reads(r, <<v, i>>) => Reads(r, <<v, i>>)'
      BY DEF Reads
    <3>3. ASSUME Holds(r, <<v, i>>) PROVE Holds(r, <<v, i>>)'
      <4>1. PICK j \in 1..Len(line[opened[r]]) : step[r] = "read" /\ line[opened[r]][j] = <<v, i>>
        BY <3>3 DEF Holds
      <4>2. opened[r] \in P!Fifos
        BY <4>1, <1>t, FifoSets DEF FifoTypes, FifoStages
      <4>3. j \in 1..Len(line'[opened[r]]) /\ line'[opened[r]][j] = <<v, i>>
        <5>1. CASE opened[r] = f
          BY <5>1, <4>1, <1>6, <1>7
        <5>2. CASE opened[r] # f
          BY <5>2, <4>1, <4>2, <1>5
        <5> QED
          BY <5>1, <5>2
      <4> QED
        BY <4>1, <4>3 DEF Holds
    <3> QED
      BY <3>1, <3>2, <3>3
  <2>2. CASE i \notin 1..given[v]
    <3>1. v = w /\ i = given[w] + 1
      BY <2>2, <1>2, <1>4, <1>8
    <3>2. PICK r \in FifoReaders : opened[r] = f
      BY DEF P!Open, f
    <3>3. step[r] = "read"
      <4>1. step[r] # "close"
        BY <3>1, <3>2, <1>t DEF FifoLate, f
      <4>2. step[r] # "wait"
        BY <1>1, <3>2, <1>t DEF FifoMet, f
      <4>3. step[r] \in {"wait", "read", "write", "close"} /\ step[r] # "write"
        BY <1>1, <3>2, <1>t, FifoSets DEF FifoStages
      <4> QED
        BY <4>1, <4>2, <4>3
    <3>4. Len(line[f]) + 1 \in 1..Len(line'[f]) /\ line'[f][Len(line[f]) + 1] = <<v, i>>
      BY <3>1, <1>6, <1>7 DEF m
    <3>5. Holds(r, <<v, i>>)'
      BY <3>2, <3>3, <3>4 DEF Holds
    <3> QED
      BY <3>5
  <2> QED
    BY <2>1, <2>2
<1> QED
  BY <1>9, <1>10, <1>12, <1>13, <1>14, <1>15, <1>16 DEF FifoInv

LEMMA FifoReaderSteps == ASSUME FifoInv, NEW r \in FifoReaders, P!Reader(r) PROVE FifoInv'
<1>0. r \in P!FifoProcs /\ r \notin FifoWriters /\ r \in P!Fifos
  BY FifoSets
<1>t. FifoTypes
  BY DEF FifoInv
<1>1. CASE P!Mkfifo(r)
  <2>1. PICK s \in {"open", "exit1"} : step' = [step EXCEPT ![r] = s]
    BY <1>1 DEF P!Mkfifo
  <2>2. name' \in P!Fifos \cup {"none"} /\ step[r] = "mkfifo" /\ UNCHANGED <<opened, line, given, read, late>>
    BY <1>0, <1>1, <1>t DEF P!Mkfifo, FifoTypes
  <2> QED
    BY <1>0, <1>t, <2>1, <2>2, FifoBegins DEF FifoTypes
<1>2. CASE P!OpenRead(r) /\ name = "none"
  <2>1. /\ step[r] = "open" /\ step' = [step EXCEPT ![r] = "exit1"]
        /\ UNCHANGED <<name, opened, line, given, read, late>>
    BY <1>2 DEF P!OpenRead, P!OpenFifo
  <2> QED
    BY <1>0, <1>t, <2>1, FifoBegins DEF FifoTypes
<1>3. CASE P!OpenRead(r) /\ name # "none"
  BY <1>0, <1>3, FifoOpens DEF P!OpenRead
<1>4. CASE P!ReadFifo(r)
  BY <1>4, FifoReads
<1>5. CASE P!CloseFifo(r)
  BY <1>0, <1>5, FifoLeaves DEF P!CloseFifo, P!FifoEnded
<1> QED
  BY <1>1, <1>2, <1>3, <1>4, <1>5 DEF P!Reader

LEMMA FifoWriterSteps == ASSUME FifoInv, NEW w \in FifoWriters, P!Writer(w) PROVE FifoInv'
<1>0. w \in P!FifoProcs /\ w \notin FifoReaders
  BY FifoSets
<1>t. FifoTypes
  BY DEF FifoInv
<1>1. CASE P!OpenWrite(w) /\ name = "none"
  <2>1. /\ step[w] = "open" /\ step' = [step EXCEPT ![w] = "exit1"]
        /\ UNCHANGED <<name, opened, line, given, read>> /\ late' \in {late, late \cup {w}}
    BY <1>1 DEF P!OpenWrite, P!OpenFifo
  <2> QED
    BY <1>0, <1>t, <2>1, FifoBegins DEF FifoTypes
<1>2. CASE P!OpenWrite(w) /\ name # "none"
  BY <1>0, <1>2, FifoOpens DEF P!OpenWrite
<1>3. CASE P!WriteFifo(w)
  <2>1. CASE P!Open(opened[w], FifoReaders) # {}
    BY <1>3, <2>1, FifoWrites DEF P!WriteFifo
  <2>2. CASE P!Open(opened[w], FifoReaders) = {}
    <3>1. P!Leaves(w, "killed") \/ P!Leaves(w, "exit1")
      BY <1>3, <2>2 DEF P!WriteFifo
    <3> QED
      BY <1>0, <3>1, FifoLeaves DEF P!FifoEnded
  <2> QED
    BY <2>1, <2>2
<1>4. CASE P!InputEnds(w)
  BY <1>0, <1>4, FifoLeaves DEF P!InputEnds, P!FifoEnded
<1> QED
  BY <1>1, <1>2, <1>3, <1>4 DEF P!Writer

LEMMA FifoSteps == ASSUME FifoInv, P!FifoNext PROVE FifoInv'
<1>1. CASE P!Unlink
  <2>1. name' = "none" /\ UNCHANGED <<step, opened, line, given, read, late>>
    BY <1>1 DEF P!Unlink
  <2>2. FifoTypes'
    BY <2>1 DEF FifoInv, FifoTypes
  <2>3. FifoStages' /\ FifoMet' /\ FifoOrder' /\ FifoAhead'
    BY <2>1 DEF FifoInv, FifoStages, FifoMet, FifoOrder, FifoAhead, InOrder, Ahead
  <2>4. FifoGiven' /\ FifoLate' /\ FifoCarried'
    <3>1. FifoGiven'
      BY <2>1 DEF FifoInv, FifoGiven
    <3>2. FifoLate'
      BY <2>1 DEF FifoInv, FifoLate
    <3>3. FifoCarried'
      <4> SUFFICES ASSUME \A r \in FifoReaders : step[r] # "killed",
                          NEW w \in FifoWriters \ late, NEW i \in 1..given[w]
                   PROVE  \E r \in FifoReaders : Reads(r, <<w, i>>)' \/ Holds(r, <<w, i>>)'
        BY <2>1 DEF FifoCarried
      <4>1. PICK r \in FifoReaders : Reads(r, <<w, i>>) \/ Holds(r, <<w, i>>)
        BY DEF FifoInv, FifoCarried
      <4> QED
        BY <2>1, <4>1 DEF Reads, Holds
    <3> QED
      BY <3>1, <3>2, <3>3
  <2> QED
    BY <2>2, <2>3, <2>4 DEF FifoInv
<1>2. ASSUME NEW p \in P!FifoProcs, P!FifoKilled(p) PROVE FifoInv'
  BY <1>2, FifoLeaves DEF P!FifoKilled, P!FifoEnded
<1> QED
  BY <1>1, <1>2, FifoReaderSteps, FifoWriterSteps DEF P!FifoNext

LEMMA FifoHolds == ASSUME FifoInv PROVE P!FifoTypeOK /\ P!LinesArrive
<1>t. FifoTypes /\ FifoStages /\ FifoOrder /\ FifoCarried
  BY DEF FifoInv
<1>1. P!FifoTypeOK
  BY <1>t DEF P!FifoTypeOK, FifoTypes
<1>2. \A r \in FifoReaders : DOMAIN read[r] = 1..Len(read[r])
  <2> SUFFICES ASSUME NEW r \in FifoReaders PROVE DOMAIN read[r] = 1..Len(read[r])
    OBVIOUS
  <2>1. read[r] \in Seq(FifoLines)
    BY <1>t DEF FifoTypes
  <2> QED
    BY <2>1
<1>3. ASSUME NEW r \in FifoReaders, NEW i \in DOMAIN read[r], NEW j \in DOMAIN read[r],
             i < j, read[r][i][1] = read[r][j][1]
      PROVE  read[r][i][2] < read[r][j][2]
  BY <1>2, <1>3, <1>t DEF FifoOrder, InOrder
<1>4. ASSUME NEW w \in FifoWriters \ late, \A r \in FifoReaders : step[r] \in {"exit0", "exit1"},
             NEW i \in 1..given[w]
      PROVE  \E r \in FifoReaders : \E j \in DOMAIN read[r] : read[r][j] = <<w, i>>
  <2>1. \A r \in FifoReaders : step[r] # "killed" /\ step[r] # "read"
    BY <1>4
  <2>2. PICK r \in FifoReaders : Reads(r, <<w, i>>) \/ Holds(r, <<w, i>>)
    BY <2>1, <1>t DEF FifoCarried
  <2> QED
    BY <2>1, <2>2, <1>2 DEF Reads, Holds
<1> QED
  BY <1>1, <1>3, <1>4 DEF P!LinesArrive

------------------------------------------------------------------------------
(* The programs that fork one child after the other *)

\* A text: its kind, a number, and a status, a process or its state.
Kinds    == {"status", "before", "values", "ps", "times", "prompt", "interrupt"}
Statuses == {"0", "1", "7", "127", "abrt", "fpe", "int", "killed"}
Kids     == {"none", "born", "system", "search", "command", "_exit", "zombie", "gone"}
Alive    == {"born", "system", "search", "command", "_exit"}
Texts    == Kinds \X Nat \X (Statuses \cup Kids \cup {"main", "kid"})
Ends     == Nat \X Statuses
Images   == [glob : 6..7, held : Seq(Texts), path : BOOLEAN]

Unreaped == {"fork", "vfork", "zombie"}
Looping  == {"exec", "execlp", "interp"}
Mains(p) == X!Exited \cup
  CASE p \in X!Shells     -> {"prompt", "read", "fork", "wait"}
    [] p \in Looping      -> {"fork", "wait", "next"}
    [] p = "wait"         -> {"fork", "wait", "status", "next"}
    [] p = "proctime"     -> {"next", "times", "fork", "wait", "end"}
    [] p = "fork"         -> {"before", "fork", "sleep"}
    [] p = "vfork"        -> {"before", "fork", "vforked"}
    [] OTHER              -> {"fork", "sleep"}

ExecTypes ==
  /\ program \in X!Shells \cup Looping \cup Unreaped \cup {"wait", "proctime"}
  /\ ignoring \in BOOLEAN /\ tty \in BOOLEAN /\ typed \in 0..MaxCommands
  /\ image \in [{"main", "kid", "sh"} -> Images] /\ out \in Seq(Texts)
  /\ main \in Mains(program) /\ kid \in Kids
  /\ round \in 0..MaxCommands + 4 /\ struck \in 0..MaxInterrupts
  /\ ended \in Seq(Ends) /\ reaped \in Seq(Ends)
  /\ clock \in [now : Nat, start : Nat]

\* When there is a child.
Childless == {"prompt", "next", "fork", "status", "end", "times", "read", "before"}
ExecKids ==
  /\ main \in Childless \/ (main = "exit0" /\ program \notin Unreaped) =>
       kid = "none" \/ (ignoring /\ kid = "gone" /\ program \notin Unreaped)
  /\ main \in {"wait", "sleep", "vforked"} => kid # "none"
  /\ ~ignoring /\ kid = "gone" => main = "killed"
  /\ kid = "_exit" => program = "vfork"
  /\ kid = "command" => program \notin Unreaped \cup {"wait"}
  /\ program \in Unreaped => round = 1
  /\ program \notin X!Shells \cup {"proctime"} => round >= 1
  /\ program \in Unreaped /\ kid \in {"none"} \cup Alive => ended = <<>>

\* The parent has the statuses of all its children but the last.
ExecReaped ==
  /\ ignoring => reaped = <<>> /\ kid # "zombie"
  /\ ~ignoring /\ kid \in {"none"} \cup Alive => reaped = ended
  /\ ~ignoring /\ kid = "zombie" => \E s \in Statuses : ended = Append(reaped, <<round, s>>)
  /\ ~ignoring /\ kid = "gone" => \E e \in Ends : ended = Append(reaped, e)
  /\ main \in {"status", "end"} => reaped # <<>> /\ reaped[Len(reaped)][1] = round

ExecClock == program = "proctime" =>
  /\ main \in {"fork", "wait"} => clock.start = clock.now
  /\ main = "end" => clock.now = clock.start + round

\* The only child was killed.
Killed1 == \E j \in 1..Len(ended) : ended[j] = <<1, "killed">>

\* globval is 6 but in the memory of vfork.c.
ExecGlobs ==
  /\ program # "vfork" => image["main"].glob = 6 /\ image["kid"].glob = 6
  /\ program = "vfork" =>
       /\ kid \in {"none", "born"} => image["main"].glob = 6
       /\ kid \notin {"none", "born"} => image["main"].glob = 7 \/ Killed1

\* Where the next child has still to be counted, or to be told of.
Stages == CASE program = "wait"        -> {"fork", "wait", "status"}
            [] program = "proctime"    -> {"times", "fork", "wait", "end"}
            [] program \in X!Shells    -> {"prompt", "fork", "wait"}
            [] OTHER                   -> {}

\* What is known of a text.
Exempt(t, terminal) == terminal /\ t[1] = "prompt" /\ t[2] >= 100
Numbered(t) == t[2] <= round /\ (main \in Stages => t[2] < round)
Known(t) ==
  CASE t[1] = "before"    -> program \in {"fork", "vfork"} /\ main # "before"
    [] t[1] = "values"    -> /\ program \in {"fork", "vfork"}
                             /\ t[3] = "main" => main \in X!Exited
                             /\ t[3] # "main" => ended # <<>>
    [] t[1] = "ps"        -> program = "zombie" /\ main \in X!Exited
    [] t[1] = "status"    -> program = "wait" /\ Numbered(t)
    [] t[1] = "times"     -> program = "proctime" /\ Numbered(t)
    [] t[1] = "interrupt" -> program = "signals" /\ t[2] < struck
    [] OTHER              -> program \in X!Shells /\ (Exempt(t, tty) \/ Numbered(t))
Shown(t) == t[1] \in {"status", "times"} => \E j \in 1..Len(reaped) : reaped[j] = <<t[2], t[3]>>
Valued(t) ==
  t[1] = "values" =>
    \/ t[2] = IF program = "vfork" \/ t[3] = "kid" THEN 7 ELSE 6
    \/ program = "vfork" /\ Killed1
Listed(t) == t[1] = "ps" /\ ~ignoring => t[3] \notin {"gone", "none"}
Proper(t) == Known(t) /\ Shown(t) /\ Valued(t) /\ Listed(t)

Elems(s) == {s[i] : i \in 1..Len(s)}
AllTexts == Elems(out) \cup Elems(image["main"].held) \cup Elems(image["kid"].held)
ExecTexts == \A t \in AllTexts : Proper(t)

\* What is held on a terminal when a child gets a copy of it.
ExecHeld ==
  /\ tty => \A t \in Elems(image["kid"].held) : Exempt(t, tty)
  /\ tty /\ main \notin {"read", "killed"} => \A t \in Elems(image["main"].held) : Exempt(t, tty)
  /\ program = "wait" /\ round = 1 =>
       /\ image["kid"].held = <<>>
       /\ main \in {"fork", "wait", "status"} => image["main"].held = <<>>

\* A child that may write its copy of what is held has ended.
Copied == \E k \in 1..Len(ended) : ended[k][2] \in {"0", "1", "127", "abrt"}

Once(s, terminal) == \A i, j \in 1..Len(s) : i < j /\ s[i] = s[j] => Exempt(s[i], terminal)
AllOnce(o, h, terminal) ==
  Once(o, terminal) /\ Once(h, terminal) /\ \A t \in Elems(o) \cap Elems(h) : Exempt(t, terminal)
ExecOnce == tty \/ ~Copied => AllOnce(out, image["main"].held, tty)

ExecControl == ExecTypes /\ ExecKids /\ ExecReaped /\ ExecClock /\ ExecGlobs
ExecInv == ExecControl /\ ExecTexts /\ ExecHeld /\ ExecOnce

\* How a step changes what is known of the texts.
Moved ==
  /\ program' = program /\ ignoring' = ignoring /\ tty' = tty /\ typed' = typed
  /\ round' \in {round, round + 1} /\ struck' \in {struck, struck + 1}
  /\ main \in X!Exited => main' = main
  /\ main # "before" => main' # "before"
  /\ main' \in Stages => main \in Stages \/ round' = round + 1
  /\ ended' = ended \/ \E e \in Ends : ended' = Append(ended, e)
  /\ reaped' = reaped \/ \E e \in Ends : reaped' = Append(reaped, e)

\* The texts of a sequence made of others.
LEMMA ElemsOfNone == Elems(<<>>) = {}
<1>1. Len(<<>>) = 0
  OBVIOUS
<1> QED
  BY <1>1 DEF Elems

LEMMA ElemsOfOne == ASSUME NEW e PROVE Elems(<<e>>) = {e}
<1>1. Len(<<e>>) = 1 /\ <<e>>[1] = e
  OBVIOUS
<1> QED
  BY <1>1 DEF Elems

LEMMA ElemsOfJoined ==
  ASSUME NEW A, NEW a \in Seq(A), NEW b \in Seq(A)
  PROVE  a \o b \in Seq(A) /\ Elems(a \o b) = Elems(a) \cup Elems(b)
<1>1. /\ Len(a \o b) = Len(a) + Len(b) /\ Len(a) \in Nat /\ Len(b) \in Nat
      /\ \A i \in 1..Len(a) : (a \o b)[i] = a[i]
      /\ \A i \in 1..Len(b) : (a \o b)[Len(a) + i] = b[i]
      /\ \A i \in 1..(Len(a) + Len(b)) :
              \/ i \in 1..Len(a)
              \/ i - Len(a) \in 1..Len(b) /\ (a \o b)[i] = b[i - Len(a)]
  BY Joined
<1> DEFINE ab == a \o b
<1> HIDE DEF ab
<1>2. ASSUME NEW t \in Elems(ab) PROVE t \in Elems(a) \cup Elems(b)
  <2>1. PICK i \in 1..(Len(a) + Len(b)) : t = ab[i]
    BY <1>1 DEF Elems, ab
  <2> QED
    BY <1>1, <2>1 DEF Elems, ab
<1>3. ASSUME NEW t \in Elems(a) PROVE t \in Elems(ab)
  <2>1. PICK i \in 1..Len(a) : t = a[i]
    BY DEF Elems
  <2>2. i \in 1..Len(ab) /\ ab[i] = t
    BY <1>1, <2>1 DEF ab
  <2> QED
    BY <2>2 DEF Elems
<1>4. ASSUME NEW t \in Elems(b) PROVE t \in Elems(ab)
  <2>1. PICK i \in 1..Len(b) : t = b[i]
    BY DEF Elems
  <2>2. Len(a) + i \in 1..Len(ab) /\ ab[Len(a) + i] = t
    BY <1>1, <2>1 DEF ab
  <2> QED
    BY <2>2 DEF Elems
<1>5. ab \in Seq(A)
  BY DEF ab
<1>6. Elems(ab) = Elems(a) \cup Elems(b)
  BY <1>2, <1>3, <1>4
<1> QED
  BY <1>5, <1>6 DEF ab

LEMMA ElemsOfMore ==
  ASSUME NEW A, NEW a \in Seq(A), NEW e \in A
  PROVE  Append(a, e) \in Seq(A) /\ Elems(Append(a, e)) = Elems(a) \cup {e}
<1> DEFINE w == <<e>>
<1>1. Append(a, e) = a \o w /\ w \in Seq(A)
  OBVIOUS
<1>2. Elems(w) = {e}
  BY ElemsOfOne
<1> HIDE DEF w
<1>3. a \o w \in Seq(A) /\ Elems(a \o w) = Elems(a) \cup Elems(w)
  BY <1>1, ElemsOfJoined
<1> QED
  BY <1>1, <1>2, <1>3

\* What is written once stays so, if what is joined to it is once too, and is not in it.
LEMMA OnceJoined ==
  ASSUME NEW A, NEW a \in Seq(A), NEW b \in Seq(A), NEW y,
         Once(a, y), Once(b, y), \A t \in Elems(a) \cap Elems(b) : Exempt(t, y)
  PROVE  Once(a \o b, y)
<1>1. /\ Len(a \o b) = Len(a) + Len(b) /\ Len(a) \in Nat /\ Len(b) \in Nat
      /\ \A i \in 1..Len(a) : (a \o b)[i] = a[i]
      /\ \A i \in 1..(Len(a) + Len(b)) :
              \/ i \in 1..Len(a)
              \/ i - Len(a) \in 1..Len(b) /\ (a \o b)[i] = b[i - Len(a)]
  BY Joined
<1> DEFINE ab == a \o b
<1> HIDE DEF ab
<1>2. ASSUME NEW i \in 1..(Len(a) + Len(b)), NEW j \in 1..(Len(a) + Len(b)), i < j, ab[i] = ab[j]
      PROVE  Exempt(ab[i], y)
  <2>1. CASE i \in 1..Len(a) /\ j \in 1..Len(a)
    <3>1. ab[i] = a[i] /\ ab[j] = a[j]
      BY <1>1, <2>1 DEF ab
    <3> QED
      BY <1>2, <2>1, <3>1 DEF Once
  <2>2. CASE i \in 1..Len(a) /\ j \notin 1..Len(a)
    <3>1. ab[i] = a[i] /\ j - Len(a) \in 1..Len(b) /\ ab[j] = b[j - Len(a)]
      BY <1>1, <2>2 DEF ab
    <3>2. ab[i] \in Elems(a) /\ ab[i] \in Elems(b)
      BY <1>2, <2>2, <3>1 DEF Elems
    <3> QED
      BY <3>2
  <2>3. CASE i \notin 1..Len(a)
    <3>0. j \notin 1..Len(a)
      BY <1>1, <1>2, <2>3
    <3>1. /\ i - Len(a) \in 1..Len(b) /\ ab[i] = b[i - Len(a)]
          /\ j - Len(a) \in 1..Len(b) /\ ab[j] = b[j - Len(a)]
      BY <1>1, <2>3, <3>0 DEF ab
    <3>2. i - Len(a) < j - Len(a)
      BY <1>1, <1>2
    <3> DEFINE k == i - Len(a)
               l == j - Len(a)
    <3>3. k \in 1..Len(b) /\ l \in 1..Len(b) /\ k < l /\ b[k] = b[l] /\ ab[i] = b[k]
      BY <1>2, <3>1, <3>2
    <3> HIDE DEF k, l
    <3> QED
      BY <3>3 DEF Once
  <2> QED
    BY <2>1, <2>2, <2>3
<1> QED
  BY <1>1, <1>2 DEF Once, ab

LEMMA OnceOfNone == ASSUME NEW y PROVE Once(<<>>, y)
<1>1. Len(<<>>) = 0
  OBVIOUS
<1> QED
  BY <1>1 DEF Once

LEMMA OnceOfOne == ASSUME NEW e, NEW y PROVE Once(<<e>>, y)
<1>1. Len(<<e>>) = 1
  OBVIOUS
<1> QED
  BY <1>1 DEF Once

LEMMA OnceOfExempt ==
  ASSUME NEW a, NEW y, \A t \in Elems(a) : Exempt(t, y) PROVE Once(a, y)
BY DEF Once, Elems

\* What is held is written.
LEMMA Flushed ==
  ASSUME NEW A, NEW o \in Seq(A), NEW h \in Seq(A), NEW y, AllOnce(o, h, y)
  PROVE  AllOnce(o \o h, <<>>, y)
BY OnceJoined, OnceOfNone, ElemsOfNone DEF AllOnce

\* Something else is written, which is new or does not matter.
LEMMA WrittenMore ==
  ASSUME NEW A, NEW o \in Seq(A), NEW h \in Seq(A), NEW w \in Seq(A), NEW y,
         AllOnce(o, h, y), Once(w, y),
         \A t \in Elems(w) : Exempt(t, y) \/ t \notin Elems(o) \cup Elems(h)
  PROVE  AllOnce(o \o w, h, y)
<1>1. Once(o \o w, y)
  BY OnceJoined DEF AllOnce
<1>2. Elems(o \o w) = Elems(o) \cup Elems(w)
  BY ElemsOfJoined
<1> QED
  BY <1>1, <1>2 DEF AllOnce

\* Something else is held.
LEMMA HeldMore ==
  ASSUME NEW A, NEW o \in Seq(A), NEW h \in Seq(A), NEW t \in A, NEW y,
         AllOnce(o, h, y), Exempt(t, y) \/ t \notin Elems(o) \cup Elems(h)
  PROVE  AllOnce(o, Append(h, t), y)
<1> DEFINE w == <<t>>
<1>0. Append(h, t) = h \o w /\ w \in Seq(A)
  OBVIOUS
<1>e. Elems(w) = {t} /\ Once(w, y)
  BY ElemsOfOne, OnceOfOne
<1> HIDE DEF w
<1>1. Once(h \o w, y)
  BY <1>0, <1>e, OnceJoined DEF AllOnce
<1>2. Elems(h \o w) = Elems(h) \cup {t}
  BY <1>0, <1>e, ElemsOfJoined
<1> QED
  BY <1>0, <1>1, <1>2 DEF AllOnce

\* The types of what is made of texts.
LEMMA TextTypes ==
  ASSUME ExecTypes
  PROVE  /\ out \in Seq(Texts) /\ image["main"].held \in Seq(Texts)
         /\ image["kid"].held \in Seq(Texts) /\ AllTexts \subseteq Texts
         /\ \A p \in {"main", "kid", "sh"} :
              image[p].glob \in 6..7 /\ image[p].held \in Seq(Texts) /\ image[p].path \in BOOLEAN
<1>1. \A p \in {"main", "kid", "sh"} : image[p] \in Images
  BY DEF ExecTypes
<1>2. \A p \in {"main", "kid", "sh"} :
              image[p].glob \in 6..7 /\ image[p].held \in Seq(Texts) /\ image[p].path \in BOOLEAN
  BY <1>1 DEF Images
<1>3. ASSUME NEW s \in Seq(Texts) PROVE Elems(s) \subseteq Texts
  <2>1. \A i \in 1..Len(s) : s[i] \in Texts
    OBVIOUS
  <2> QED
    BY <2>1 DEF Elems
<1>4. out \in Seq(Texts)
  BY DEF ExecTypes
<1> QED
  BY <1>2, <1>3, <1>4 DEF AllTexts

LEMMA TextParts ==
  ASSUME NEW t \in Texts PROVE t[1] \in Kinds /\ t[2] \in Nat
BY DEF Texts

\* A sequence that has got no shorter still has what it had.
LEMMA StillThere ==
  ASSUME NEW A, NEW a \in Seq(A), NEW b,
         b = a \/ \E e \in A : b = Append(a, e)
  PROVE  b \in Seq(A) /\ Len(b) >= Len(a) /\ \A i \in 1..Len(a) : i \in 1..Len(b) /\ b[i] = a[i]
<1>0. Len(a) \in Nat
  OBVIOUS
<1>1. CASE b = a
  BY <1>0, <1>1
<1>2. CASE \E e \in A : b = Append(a, e)
  <2>1. PICK e \in A : b = Append(a, e)
    BY <1>2
  <2>2. b \in Seq(A) /\ Len(b) = Len(a) + 1 /\ \A i \in 1..Len(a) : b[i] = a[i]
    BY <2>1, OneMore
  <2> QED
    BY <1>0, <2>2
<1> QED
  BY <1>1, <1>2

\* What is true of a text remains true.
LEMMA StillProper ==
  ASSUME ExecTypes, Moved, NEW t \in Texts, Proper(t)
  PROVE  Proper(t)'
<1>p. /\ program' = program /\ ignoring' = ignoring /\ tty' = tty
      /\ round' \in {round, round + 1} /\ struck' \in {struck, struck + 1}
      /\ main \in X!Exited => main' = main
      /\ main # "before" => main' # "before"
  BY DEF Moved
<1>t. t[1] \in Kinds /\ t[2] \in Nat /\ round \in Nat /\ struck \in Nat
  BY TextParts, ProcessAssumption DEF ExecTypes
<1>e. \A i \in 1..Len(ended) : i \in 1..Len(ended') /\ ended'[i] = ended[i]
  <2>1. ended \in Seq(Ends)
    BY DEF ExecTypes
  <2> QED
    BY <2>1, StillThere DEF Moved
<1>r. \A i \in 1..Len(reaped) : i \in 1..Len(reaped') /\ reaped'[i] = reaped[i]
  <2>1. reaped \in Seq(Ends)
    BY DEF ExecTypes
  <2> QED
    BY <2>1, StillThere DEF Moved
<1>1. Shown(t)'
  BY <1>r DEF Shown, Proper
<1>2. Killed1 => Killed1'
  BY <1>e DEF Killed1
<1>3. Valued(t)'
  BY <1>2, <1>p DEF Valued, Proper
<1>4. Listed(t)'
  BY <1>p DEF Listed, Proper
<1>s. Stages' = Stages
  BY <1>p DEF Stages
<1>5. Numbered(t) => Numbered(t)'
  <2>1. CASE main' \notin Stages
    BY <2>1, <1>p, <1>t, <1>s DEF Numbered
  <2>2. CASE main \in Stages
    BY <2>2, <1>p, <1>t, <1>s DEF Numbered
  <2>3. CASE round' = round + 1
    BY <2>3, <1>p, <1>t, <1>s DEF Numbered
  <2> QED
    BY <2>1, <2>2, <2>3 DEF Moved
<1>6. ended # <<>> => ended' # <<>>
  <2>1. CASE ended' = ended
    BY <2>1
  <2>2. CASE \E e \in Ends : ended' = Append(ended, e)
    <3>1. PICK e \in Ends : ended' = Append(ended, e)
      BY <2>2
    <3>2. ended \in Seq(Ends)
      BY DEF ExecTypes
    <3>3. Len(ended') = Len(ended) + 1 /\ Len(ended) \in Nat
      BY <3>1, <3>2, OneMore
    <3> QED
      BY <3>3
  <2> QED
    BY <2>1, <2>2 DEF Moved
<1>7. Exempt(t, tty) => Exempt(t, tty)'
  BY <1>p DEF Exempt
<1>8. t[1] = "interrupt" /\ t[2] < struck => t[2] < struck'
  BY <1>p, <1>t
<1> HIDE DEF Numbered, Exempt
<1>9. Known(t)'
  BY <1>5, <1>6, <1>7, <1>8, <1>p, <1>t DEF Known, Kinds, Proper
<1> QED
  BY <1>1, <1>3, <1>4, <1>9 DEF Proper

\* So a step has to say only what it writes.
LEMMA TextsKept ==
  ASSUME ExecTypes, ExecTexts, Moved, NEW N, AllTexts' \subseteq AllTexts \cup N,
         \A t \in N : Proper(t)'
  PROVE  ExecTexts'
<1>1. ASSUME NEW t \in AllTexts PROVE Proper(t)'
  BY TextTypes, StillProper DEF ExecTexts
<1> QED
  BY <1>1 DEF ExecTexts

LEMMA TextsSame ==
  ASSUME ExecTypes, ExecTexts, Moved, AllTexts' \subseteq AllTexts PROVE ExecTexts'
<1>1. ASSUME NEW t \in AllTexts PROVE Proper(t)'
  BY TextTypes, StillProper DEF ExecTexts
<1> QED
  BY <1>1 DEF ExecTexts

LEMMA TextsMore ==
  ASSUME ExecTypes, ExecTexts, Moved, NEW x, AllTexts' \subseteq AllTexts \cup {x}, Proper(x)'
  PROVE  ExecTexts'
<1>1. ASSUME NEW t \in AllTexts PROVE Proper(t)'
  BY TextTypes, StillProper DEF ExecTexts
<1>2. ASSUME NEW t \in AllTexts' PROVE Proper(t)'
  <2>1. t \in AllTexts \/ t = x
    BY <1>2
  <2> QED
    BY <1>1, <2>1
<1> QED
  BY <1>2 DEF ExecTexts

\* And what is new of them differs from all of them.
LEMMA Unheard ==
  ASSUME ExecTexts, NEW t, ~Known(t)
  PROVE  t \notin Elems(out) \cup Elems(image["main"].held) /\ t \notin AllTexts
BY DEF ExecTexts, Proper, AllTexts

\* Nothing is written.
LEMMA OnceStays ==
  ASSUME ExecTypes, ExecOnce, Moved, out' = out, image'["main"].held = image["main"].held
  PROVE  ExecOnce'
<1>1. ended \in Seq(Ends)
  BY DEF ExecTypes
<1>2. \A i \in 1..Len(ended) : i \in 1..Len(ended') /\ ended'[i] = ended[i]
  BY <1>1, StillThere DEF Moved
<1>3. Copied => Copied'
  BY <1>2 DEF Copied
<1>4. tty' = tty
  BY DEF Moved
<1> QED
  BY <1>3, <1>4 DEF ExecOnce

\* If a child may have written its copy, it has still.
LEMMA CopiedStays ==
  ASSUME ExecTypes, Moved, tty' \/ ~Copied' PROVE tty \/ ~Copied
<1>1. ended \in Seq(Ends)
  BY DEF ExecTypes
<1>2. \A i \in 1..Len(ended) : i \in 1..Len(ended') /\ ended'[i] = ended[i]
  BY <1>1, StillThere DEF Moved
<1> QED
  BY <1>2 DEF Copied, Moved

\* The images of the processes, and what exec and fork do to them.
LEMMA ImageCopied ==
  ASSUME NEW m \in [{"main", "kid", "sh"} -> Images], NEW n, n = [m EXCEPT !["kid"] = m["main"]]
  PROVE  n \in [{"main", "kid", "sh"} -> Images] /\ n["main"] = m["main"] /\ n["kid"] = m["main"]
OBVIOUS

LEMMA ImageOfShell ==
  ASSUME NEW m \in [{"main", "kid", "sh"} -> Images], NEW n,
         n = [m EXCEPT !["sh"] = m["kid"]] \/ n = [m EXCEPT !["sh"].path = TRUE]
  PROVE  n \in [{"main", "kid", "sh"} -> Images] /\ n["main"] = m["main"] /\ n["kid"] = m["kid"]
BY DEF Images

LEMMA ImageChanged ==
  ASSUME NEW m \in [{"main", "kid", "sh"} -> Images], NEW n, m["main"].glob = 6,
         n = [m EXCEPT !["main"].glob = @ + 1]
  PROVE  /\ n \in [{"main", "kid", "sh"} -> Images] /\ n["kid"] = m["kid"]
         /\ n["main"].glob = 7 /\ n["main"].held = m["main"].held
<1>1. 7 \in 6..7 /\ 6 + 1 = 7
  OBVIOUS
<1> QED
  BY <1>1 DEF Images

\* Which program it can be, from what its parent does.
LEMMA WhoseMain ==
  ASSUME ExecTypes
  PROVE  /\ main = "wait" => program \notin Unreaped
         /\ main = "next" => program \in Looping \cup {"wait", "proctime"}
         /\ main = "sleep" => program \in {"fork", "zombie"}
         /\ main = "vforked" => program = "vfork"
         /\ main = "status" => program = "wait"
         /\ main \in {"end", "times"} => program = "proctime"
         /\ main = "before" => program \in {"fork", "vfork"}
         /\ main \in {"read", "prompt"} => program \in X!Shells
         /\ X!Exited \subseteq Mains(program)
         /\ main \in X!Exited => main \notin Stages /\ main \notin Childless \cup {"wait", "sleep", "vforked"}
<1>1. main \in Mains(program)
      /\ program \in X!Shells \cup Looping \cup Unreaped \cup {"wait", "proctime"}
  BY DEF ExecTypes
<1>2. X!Exited \subseteq Mains(program)
  BY DEF Mains
<1>3. main \in X!Exited => main \notin Stages /\ main \notin Childless \cup {"wait", "sleep", "vforked"}
  BY DEF X!Exited, Stages, Childless
<1> DEFINE E == X!Exited
<1>4. /\ program \in X!Shells => main \in E \cup {"prompt", "read", "fork", "wait"}
      /\ program \in Looping => main \in E \cup {"fork", "wait", "next"}
      /\ program = "wait" => main \in E \cup {"fork", "wait", "status", "next"}
      /\ program = "proctime" => main \in E \cup {"next", "times", "fork", "wait", "end"}
  BY <1>1 DEF Mains, X!Shells, Looping
<1>5. /\ program = "fork" => main \in E \cup {"before", "fork", "sleep"}
      /\ program = "vfork" => main \in E \cup {"before", "fork", "vforked"}
      /\ program = "zombie" => main \in E \cup {"fork", "sleep"}
  BY <1>1 DEF Mains, X!Shells, Looping
<1>6. E = {"exit0", "exit1", "killed"}
  BY DEF X!Exited
<1> HIDE DEF E
<1>7. \/ program \in X!Shells \cup Looping \cup {"wait", "proctime"}
      \/ program \in {"fork", "vfork", "zombie"}
  BY <1>1 DEF Unreaped
<1>8. Unreaped = {"fork", "vfork", "zombie"}
  BY DEF Unreaped
<1> QED
  BY <1>2, <1>3, <1>4, <1>5, <1>6, <1>7, <1>8

LEMMA ForkKeeps ==
  ASSUME ExecInv, NEW a \in {"wait", "sleep", "vforked"}, a \in Mains(program), X!Fork(a)
  PROVE  ExecInv'
<1>i. /\ ExecTypes /\ ExecKids /\ ExecReaped /\ ExecClock /\ ExecGlobs /\ ExecTexts /\ ExecHeld
      /\ ExecOnce
  BY DEF ExecInv, ExecControl
<1>a. /\ main = "fork" /\ main' = a /\ kid' = "born" /\ image' = [image EXCEPT !["kid"] = image["main"]]
      /\ program' = program /\ ignoring' = ignoring /\ tty' = tty /\ typed' = typed
      /\ round' = round /\ out' = out /\ ended' = ended /\ reaped' = reaped /\ clock' = clock
      /\ struck' = struck
  BY DEF X!Fork, X!started
<1>m. /\ image' \in [{"main", "kid", "sh"} -> Images]
      /\ image'["main"] = image["main"] /\ image'["kid"] = image["main"]
  BY <1>a, <1>i, ImageCopied DEF ExecTypes
<1>1. ExecTypes'
  BY <1>a, <1>i, <1>m DEF ExecTypes, Kids
<1>k. kid = "none" \/ (ignoring /\ program \notin Unreaped)
  BY <1>a, <1>i DEF ExecKids, Childless
<1>2. ExecKids'
  BY <1>a, <1>i, <1>k DEF ExecKids, Childless, Unreaped, Alive
<1>3. ExecReaped'
  BY <1>a, <1>i, <1>k DEF ExecReaped, Alive
<1>4. ExecClock'
  BY <1>a, <1>i DEF ExecClock
<1>5. ExecGlobs'
  BY <1>a, <1>i, <1>k, <1>m DEF ExecGlobs, Unreaped
<1>6. Moved
  BY <1>a, <1>i, WhoseMain DEF Moved, Stages, X!Exited, ExecTypes, X!Shells, Unreaped
<1>7. AllTexts' \subseteq AllTexts
  BY <1>a, <1>m DEF AllTexts
<1>8. ExecTexts'
  BY <1>i, <1>6, <1>7, TextsSame
<1>9. ExecHeld'
  BY <1>a, <1>i, <1>m DEF ExecHeld
<1>10. ExecOnce'
  BY <1>a, <1>i, <1>m, <1>6, OnceStays
<1> QED
  BY <1>1, <1>2, <1>3, <1>4, <1>5, <1>8, <1>9, <1>10 DEF ExecInv, ExecControl

LEMMA ReapKeeps ==
  ASSUME ExecInv, NEW a \in {"next", "status", "end", "prompt"}, a \in Mains(program), X!Reap(a)
  PROVE  ExecInv'
<1>i. /\ ExecTypes /\ ExecKids /\ ExecReaped /\ ExecClock /\ ExecGlobs /\ ExecTexts /\ ExecHeld
      /\ ExecOnce
  BY DEF ExecInv, ExecControl
<1>a. /\ main = "wait" /\ main' = a /\ kid = "zombie" /\ kid' = "none" /\ image' = image
      /\ program' = program /\ ignoring' = ignoring /\ tty' = tty /\ typed' = typed
      /\ round' = round /\ out' = out /\ ended' = ended
      /\ reaped' = Append(reaped, ended[Len(ended)])
      /\ clock' = [clock EXCEPT !.now = @ + round]
      /\ struck' = struck
  BY DEF X!Reap, X!started
<1>r. /\ ~ignoring /\ reaped' = ended /\ reaped' \in Seq(Ends) /\ reaped' # <<>>
      /\ reaped'[Len(reaped')][1] = round
      /\ \E e \in Ends : reaped' = Append(reaped, e)
  <2>1. ~ignoring
    BY <1>a, <1>i DEF ExecReaped
  <2>2. PICK s \in Statuses : ended = Append(reaped, <<round, s>>)
    BY <2>1, <1>a, <1>i DEF ExecReaped
  <2> DEFINE e == <<round, s>>
  <2>3. e \in Ends /\ reaped \in Seq(Ends) /\ e[1] = round
    BY <1>i, ProcessAssumption DEF ExecTypes, Ends
  <2> HIDE DEF e
  <2>4. /\ ended \in Seq(Ends) /\ Len(ended) = Len(reaped) + 1 /\ ended[Len(reaped) + 1] = e
        /\ Len(reaped) \in Nat
    BY <2>2, <2>3, OneMore DEF e
  <2>5. ended[Len(ended)] = e /\ ended # <<>>
    BY <2>4
  <2>6. reaped' = ended
    BY <2>2, <2>5, <1>a DEF e
  <2>7. reaped' = Append(reaped, e)
    BY <2>5, <1>a
  <2> QED
    BY <2>1, <2>3, <2>4, <2>5, <2>6, <2>7
<1>c. clock' \in [now : Nat, start : Nat] /\ clock'.now = clock.now + round /\ clock'.start = clock.start
  <2>1. clock \in [now : Nat, start : Nat] /\ round \in Nat
    BY <1>i, ProcessAssumption DEF ExecTypes
  <2> QED
    BY <1>a, <2>1
<1>1. ExecTypes'
  BY <1>a, <1>i, <1>r, <1>c DEF ExecTypes, Kids
<1>2. ExecKids'
  BY <1>a, <1>i, WhoseMain DEF ExecKids, Unreaped, Alive
<1>3. ExecReaped'
  BY <1>a, <1>r DEF ExecReaped
<1>4. ExecClock'
  BY <1>a, <1>i, <1>c DEF ExecClock
<1>5. ExecGlobs'
  BY <1>a, <1>i, WhoseMain DEF ExecGlobs, Unreaped, Killed1
<1>6. Moved
  BY <1>a, <1>i, <1>r, WhoseMain DEF Moved, Stages, X!Exited, ExecTypes, X!Shells, Unreaped
<1>7. AllTexts' \subseteq AllTexts
  BY <1>a DEF AllTexts
<1>8. ExecTexts'
  BY <1>i, <1>6, <1>7, TextsSame
<1>9. ExecHeld'
  BY <1>a, <1>i DEF ExecHeld
<1>10. ExecOnce'
  BY <1>a, <1>i, <1>6, OnceStays
<1> QED
  BY <1>1, <1>2, <1>3, <1>4, <1>5, <1>8, <1>9, <1>10 DEF ExecInv, ExecControl

\* The parent ends by exit(): what it holds is written, and perhaps a new text.
LEMMA EndKeeps ==
  ASSUME ExecInv, NEW how \in {"exit0", "exit1"}, NEW text \in Seq(Texts), X!Exits(how, text),
         main \notin X!Exited, main \in Childless \/ how = "exit1" \/ program \in Unreaped,
         UNCHANGED <<X!started, round, kid, ended, reaped, clock, struck>>,
         Once(text, tty), \A t \in Elems(text) : ~Known(t) /\ Proper(t)'
  PROVE  ExecInv'
<1>i. /\ ExecTypes /\ ExecKids /\ ExecReaped /\ ExecClock /\ ExecGlobs /\ ExecTexts /\ ExecHeld
      /\ ExecOnce
  BY DEF ExecInv, ExecControl
<1>a. /\ main' = how /\ out' = (out \o image["main"].held) \o text
      /\ image' = [image EXCEPT !["main"].held = <<>>] /\ kid' = kid
      /\ program' = program /\ ignoring' = ignoring /\ tty' = tty /\ typed' = typed
      /\ round' = round /\ ended' = ended /\ reaped' = reaped /\ clock' = clock
      /\ struck' = struck
  BY DEF X!Exits, X!started
<1>t. out \in Seq(Texts) /\ image["main"].held \in Seq(Texts)
  BY <1>i, TextTypes
<1>e. <<>> \in Seq(Texts)
  OBVIOUS
<1>m. /\ image' \in [{"main", "kid", "sh"} -> Images]
      /\ image'["main"].held = <<>> /\ image'["main"].glob = image["main"].glob
      /\ image'["kid"] = image["kid"]
  <2> DEFINE h == <<>>
  <2>1. h \in Seq(Texts) /\ image' = [image EXCEPT !["main"].held = h]
    BY <1>a, <1>e
  <2>2. image \in [{"main", "kid", "sh"} -> Images]
    BY <1>i DEF ExecTypes
  <2> HIDE DEF h
  <2>3. /\ image' \in [{"main", "kid", "sh"} -> Images]
        /\ image'["main"].held = h /\ image'["main"].glob = image["main"].glob
        /\ \A q \in {"main", "kid", "sh"} : q # "main" => image'[q] = image[q]
    BY <2>1, <2>2 DEF Images
  <2> QED
    BY <2>3 DEF h
<1>o. /\ out \o image["main"].held \in Seq(Texts) /\ out' \in Seq(Texts)
      /\ Elems(out \o image["main"].held) = Elems(out) \cup Elems(image["main"].held)
      /\ Elems(out') = Elems(out) \cup Elems(image["main"].held) \cup Elems(text)
  <2> DEFINE w == out \o image["main"].held
  <2>1. w \in Seq(Texts) /\ Elems(w) = Elems(out) \cup Elems(image["main"].held)
    BY <1>t, ElemsOfJoined
  <2>2. out' = w \o text
    BY <1>a
  <2> HIDE DEF w
  <2>3. out' \in Seq(Texts) /\ Elems(out') = Elems(w) \cup Elems(text)
    BY <2>1, <2>2, ElemsOfJoined
  <2> QED
    BY <2>1, <2>3 DEF w
<1>x. main' \in X!Exited /\ main' \in Mains(program)
  BY <1>a, <1>i, WhoseMain DEF X!Exited
<1>1. ExecTypes'
  BY <1>a, <1>i, <1>m, <1>o, <1>x DEF ExecTypes
<1>k. /\ ~ignoring => kid # "gone"
      /\ how = "exit0" /\ program \notin Unreaped => kid = "none" \/ (ignoring /\ kid = "gone")
  BY <1>i DEF ExecKids, X!Exited
<1>2. ExecKids'
  BY <1>a, <1>i, <1>k DEF ExecKids, Childless
<1>3. ExecReaped'
  BY <1>a, <1>i DEF ExecReaped
<1>4. ExecClock'
  BY <1>a, <1>i DEF ExecClock
<1>5. ExecGlobs'
  BY <1>a, <1>i, <1>m DEF ExecGlobs, Killed1
<1>6. Moved
  BY <1>a, <1>i DEF Moved, Stages, X!Exited
<1>7. AllTexts' \subseteq AllTexts \cup Elems(text)
  BY <1>o, <1>m, ElemsOfNone DEF AllTexts
<1>8. ExecTexts'
  BY <1>i, <1>6, <1>7, TextsKept
<1>9. ExecHeld'
  BY <1>a, <1>i, <1>m, ElemsOfNone DEF ExecHeld
<1>10. ExecOnce'
  <2> SUFFICES ASSUME tty \/ ~Copied' PROVE AllOnce(out', <<>>, tty)
    BY <1>a, <1>m DEF ExecOnce
  <2>1. AllOnce(out, image["main"].held, tty)
    BY <1>a, <1>i, <1>6, CopiedStays DEF ExecOnce
  <2> DEFINE w == out \o image["main"].held
  <2>2. AllOnce(w, <<>>, tty)
    BY <2>1, <1>t, Flushed
  <2>3. \A t \in Elems(text) : t \notin Elems(w) \cup Elems(<<>>)
    BY <1>i, <1>o, ElemsOfNone, Unheard
  <2>4. w \in Seq(Texts) /\ out' = w \o text
    BY <1>a, <1>o
  <2> HIDE DEF w
  <2> QED
    BY <2>2, <2>3, <2>4, <1>e, WrittenMore
<1> QED
  BY <1>1, <1>2, <1>3, <1>4, <1>5, <1>8, <1>9, <1>10 DEF ExecInv, ExecControl

\* Without a new text.
LEMMA QuietEndKeeps ==
  ASSUME ExecInv, NEW how \in {"exit0", "exit1"}, X!Exits(how, <<>>),
         main \notin X!Exited, main \in Childless \/ how = "exit1" \/ program \in Unreaped,
         UNCHANGED <<X!started, round, kid, ended, reaped, clock, struck>>
  PROVE  ExecInv'
<1>1. <<>> \in Seq(Texts)
  OBVIOUS
<1> QED
  BY <1>1, EndKeeps, OnceOfNone, ElemsOfNone

\* A child ends: what is known of the children.
LEMMA DiesKeeps ==
  ASSUME ExecInv, NEW s \in Statuses, kid \in Alive,
         kid' = IF ignoring THEN "gone" ELSE "zombie", ended' = Append(ended, <<round, s>>),
         UNCHANGED <<X!started, main, round, reaped, clock>>,
         struck' \in {struck, struck + 1}, struck' \in 0..MaxInterrupts,
         kid = "born" /\ program = "vfork" => s = "killed",
         out' \in Seq(Texts), image' \in [{"main", "kid", "sh"} -> Images],
         image'["main"].glob = image["main"].glob, image'["kid"].glob = image["kid"].glob
  PROVE  ExecControl' /\ Moved
<1>i. ExecTypes /\ ExecKids /\ ExecReaped /\ ExecClock /\ ExecGlobs
  BY DEF ExecInv, ExecControl
<1>a. /\ program' = program /\ ignoring' = ignoring /\ tty' = tty /\ typed' = typed
      /\ main' = main /\ round' = round /\ reaped' = reaped /\ clock' = clock
  BY DEF X!started
<1> DEFINE e == <<round, s>>
<1>e. e \in Ends /\ ended \in Seq(Ends) /\ ended' = Append(ended, e) /\ round \in Nat
  BY <1>i, ProcessAssumption DEF ExecTypes, Ends
<1>d. kid' \in {"gone", "zombie"} /\ (kid' = "gone" => ignoring) /\ (kid' = "zombie" => ~ignoring)
  OBVIOUS
<1>n. ended' \in Seq(Ends)
  <2> HIDE DEF e
  <2> QED
    BY <1>e, OneMore
<1>k. main \notin Childless /\ ~(main = "exit0" /\ program \notin Unreaped)
  BY <1>i DEF ExecKids, Alive
<1>1. ExecTypes'
  BY <1>a, <1>i, <1>n, <1>d DEF ExecTypes, Kids
<1>2. ExecKids'
  BY <1>a, <1>d, <1>i, <1>k DEF ExecKids, Alive
<1>3. ExecReaped'
  <2>1. ~ignoring => ended' = Append(reaped, <<round, s>>)
    BY <1>i DEF ExecReaped
  <2>2. main \notin {"status", "end"}
    BY <1>k DEF Childless
  <2>3. ignoring => reaped = <<>>
    BY <1>i DEF ExecReaped
  <2> QED
    BY <1>a, <1>d, <2>1, <2>2, <2>3 DEF ExecReaped, Alive
<1>4. ExecClock'
  BY <1>a, <1>i DEF ExecClock
<1>5. ExecGlobs'
  <2>1. ASSUME program = "vfork" PROVE image'["main"].glob = 7 \/ Killed1'
    <3>0. Len(ended) \in Nat /\ Len(ended') = Len(ended) + 1 /\ ended'[Len(ended) + 1] = e
          /\ \A i \in 1..Len(ended) : ended'[i] = ended[i]
      <4> HIDE DEF e
      <4>1. Len(ended) \in Nat
        BY <1>e
      <4>2. /\ Len(Append(ended, e)) = Len(ended) + 1 /\ Append(ended, e)[Len(ended) + 1] = e
            /\ \A i \in 1..Len(ended) : Append(ended, e)[i] = ended[i]
        BY <1>e, OneMore
      <4> QED
        BY <1>e, <4>1, <4>2
    <3>1. CASE kid = "born"
      <4>1. e = <<1, "killed">>
        BY <2>1, <3>1, <1>i DEF ExecKids, Unreaped
      <4> HIDE DEF e
      <4> QED
        BY <4>1, <3>0 DEF Killed1
    <3>2. CASE kid # "born"
      <4>1. image["main"].glob = 7 \/ Killed1
        BY <2>1, <3>2, <1>i DEF ExecGlobs, Alive
      <4> HIDE DEF e
      <4>2. Killed1 => Killed1'
        BY <3>0 DEF Killed1
      <4> QED
        BY <4>1, <4>2
    <3> QED
      BY <3>1, <3>2
  <2> QED
    BY <2>1, <1>a, <1>d, <1>i DEF ExecGlobs
<1>6. Moved
  <2> HIDE DEF e
  <2>1. \E x \in Ends : ended' = Append(ended, x)
    BY <1>e
  <2> QED
    BY <2>1, <1>a, <1>e DEF Moved
<1> QED
  BY <1>1, <1>2, <1>3, <1>4, <1>5, <1>6 DEF ExecControl

LEMMA KidDiesKeeps ==
  ASSUME ExecInv, NEW s \in Statuses, kid \in Alive, X!KidDies(s),
         kid = "born" /\ program = "vfork" => s = "killed"
  PROVE  ExecInv'
<1>i. ExecTypes /\ ExecTexts /\ ExecHeld /\ ExecOnce
  BY DEF ExecInv, ExecControl
<1>a. /\ kid' = IF ignoring THEN "gone" ELSE "zombie"
      /\ ended' = Append(ended, <<round, s>>)
      /\ UNCHANGED <<X!started, main, round, reaped, clock>>
      /\ program' = program /\ tty' = tty /\ main' = main /\ round' = round
      /\ struck' = struck /\ image' = image /\ out' = out
  BY DEF X!KidDies, X!Dies, X!started
<1>b. struck' \in {struck, struck + 1} /\ struck' \in 0..MaxInterrupts
      /\ out' \in Seq(Texts) /\ image' \in [{"main", "kid", "sh"} -> Images]
  BY <1>a, <1>i DEF ExecTypes
<1>1. ExecControl' /\ Moved
  BY <1>a, <1>b, DiesKeeps
<1>2. AllTexts' \subseteq AllTexts
  BY <1>a DEF AllTexts
<1>3. ExecTexts'
  BY <1>i, <1>1, <1>2, TextsSame
<1>4. ExecHeld'
  BY <1>a, <1>i DEF ExecHeld
<1>5. ExecOnce'
  BY <1>a, <1>i, <1>1, OnceStays
<1> QED
  BY <1>1, <1>3, <1>4, <1>5 DEF ExecInv

\* A child that writes its copy of what is held, and perhaps a new text.
LEMMA KidExitsKeeps ==
  ASSUME ExecInv, NEW s \in Statuses, kid \in Alive, NEW text \in Seq(Texts), X!KidExits(s, text),
         program # "vfork",
         \/ s \in {"0", "1", "127", "abrt"}
         \/ image["kid"].held = <<>> /\ text = <<>>,
         Once(text, tty), \A t \in Elems(text) : ~Known(t) /\ Proper(t)'
  PROVE  ExecInv'
<1>i. ExecTypes /\ ExecTexts /\ ExecHeld /\ ExecOnce
  BY DEF ExecInv, ExecControl
<1>a. /\ kid' = IF ignoring THEN "gone" ELSE "zombie"
      /\ ended' = Append(ended, <<round, s>>)
      /\ UNCHANGED <<X!started, main, round, reaped, clock>>
      /\ program' = program /\ tty' = tty /\ main' = main /\ round' = round
      /\ struck' = struck /\ image' = image
      /\ out' = (out \o image["kid"].held) \o text
  BY DEF X!KidExits, X!Dies, X!started
<1>t. out \in Seq(Texts) /\ image["kid"].held \in Seq(Texts) /\ image["main"].held \in Seq(Texts)
  BY <1>i, TextTypes
<1> DEFINE w == out \o image["kid"].held
<1>w. w \in Seq(Texts) /\ Elems(w) = Elems(out) \cup Elems(image["kid"].held)
  BY <1>t, ElemsOfJoined
<1>v. out' = w \o text
  BY <1>a
<1>o. out' \in Seq(Texts) /\ Elems(out') = Elems(w) \cup Elems(text)
  <2> HIDE DEF w
  <2> QED
    BY <1>v, <1>w, ElemsOfJoined
<1>b. struck' \in {struck, struck + 1} /\ struck' \in 0..MaxInterrupts
      /\ out' \in Seq(Texts) /\ image' \in [{"main", "kid", "sh"} -> Images]
  BY <1>a, <1>i, <1>o DEF ExecTypes
<1>1. ExecControl' /\ Moved
  BY <1>a, <1>b, DiesKeeps
<1>2. AllTexts' \subseteq AllTexts \cup Elems(text)
  BY <1>a, <1>o, <1>w DEF AllTexts
<1>3. ExecTexts'
  BY <1>i, <1>1, <1>2, TextsKept
<1>4. ExecHeld'
  BY <1>a, <1>i DEF ExecHeld
<1>5. ExecOnce'
  <2>1. CASE image["kid"].held = <<>> /\ text = <<>>
    <3>1. w = out /\ w \o <<>> = w
      BY <2>1, <1>t
    <3>2. out' = out
      BY <2>1, <3>1, <1>v
    <3> QED
      BY <3>2, <1>a, <1>i, <1>1, OnceStays
  <2>2. CASE s \in {"0", "1", "127", "abrt"}
    <3>1. Copied'
      <4> DEFINE e == <<round, s>>
      <4>1. e \in Ends /\ ended \in Seq(Ends) /\ ended' = Append(ended, e) /\ e[2] = s
        BY <1>a, <1>i, ProcessAssumption DEF ExecTypes, Ends
      <4> HIDE DEF e
      <4>2. Len(ended) \in Nat /\ Len(ended') = Len(ended) + 1 /\ ended'[Len(ended) + 1] = e
        BY <4>1, OneMore
      <4> QED
        BY <2>2, <4>1, <4>2 DEF Copied
    <3> SUFFICES ASSUME tty PROVE AllOnce(out', image["main"].held, tty)
      BY <1>a, <3>1 DEF ExecOnce
    <3>2. AllOnce(out, image["main"].held, tty)
      BY <1>i DEF ExecOnce
    <3>3. \A t \in Elems(image["kid"].held) : Exempt(t, tty)
      BY <1>i DEF ExecHeld
    <3>4. AllOnce(w, image["main"].held, tty)
      BY <3>2, <3>3, <1>t, WrittenMore, OnceOfExempt
    <3>5. \A t \in Elems(text) : t \notin Elems(w) \cup Elems(image["main"].held)
      BY <1>i, <1>w, Unheard DEF AllTexts
    <3> HIDE DEF w
    <3> QED
      BY <3>4, <3>5, <1>v, <1>w, <1>t, WrittenMore
  <2> QED
    BY <2>1, <2>2
<1> QED
  BY <1>1, <1>3, <1>4, <1>5 DEF ExecInv

LEMMA QuietKidExitsKeeps ==
  ASSUME ExecInv, NEW s \in Statuses, kid \in Alive, X!KidExits(s, <<>>), program # "vfork",
         s \in {"0", "1", "127", "abrt"} \/ image["kid"].held = <<>>
  PROVE  ExecInv'
<1>1. <<>> \in Seq(Texts)
  OBVIOUS
<1> QED
  BY <1>1, KidExitsKeeps, OnceOfNone, ElemsOfNone

\* exec in the child.
LEMMA KidExecsKeeps ==
  ASSUME ExecInv, kid \in {"born", "search"}, program \notin Unreaped \cup {"wait"},
         NEW s \in {"1", "127"}, NEW found, X!KidExecs(found, s)
  PROVE  ExecInv'
<1>i. /\ ExecTypes /\ ExecKids /\ ExecReaped /\ ExecClock /\ ExecGlobs /\ ExecTexts /\ ExecHeld
      /\ ExecOnce
  BY DEF ExecInv, ExecControl
<1>n. CASE ~found
  <2>1. X!KidExits(s, <<>>) /\ kid \in Alive /\ s \in Statuses /\ program # "vfork"
    BY <1>n DEF X!KidExecs, Alive, Statuses, Unreaped
  <2> QED
    BY <2>1, QuietKidExitsKeeps
<1>f. CASE found
  <2>a. /\ kid' = "command" /\ image' = [image EXCEPT !["kid"].glob = 6, !["kid"].held = <<>>]
        /\ program' = program /\ ignoring' = ignoring /\ tty' = tty /\ typed' = typed
        /\ main' = main /\ round' = round /\ out' = out /\ ended' = ended /\ reaped' = reaped
        /\ clock' = clock /\ struck' = struck
    BY <1>f DEF X!KidExecs, X!started
  <2>m. /\ image' \in [{"main", "kid", "sh"} -> Images] /\ image'["main"] = image["main"]
        /\ image'["kid"].glob = 6 /\ image'["kid"].held = <<>>
    <3>1. image \in [{"main", "kid", "sh"} -> Images]
      BY <1>i DEF ExecTypes
    <3>2. <<>> \in Seq(Texts) /\ 6 \in 6..7
      OBVIOUS
    <3> QED
      BY <2>a, <3>1, <3>2 DEF Images
  <2>1. ExecTypes'
    BY <2>a, <1>i, <2>m DEF ExecTypes, Kids
  <2>2. ExecKids'
    BY <2>a, <1>i DEF ExecKids, Alive
  <2>3. ExecReaped'
    BY <2>a, <1>i DEF ExecReaped, Alive
  <2>4. ExecClock'
    BY <2>a, <1>i DEF ExecClock
  <2>5. ExecGlobs'
    BY <2>a, <1>i, <2>m DEF ExecGlobs, Unreaped
  <2>6. Moved
    BY <2>a, <1>i DEF Moved, Stages
  <2>7. AllTexts' \subseteq AllTexts
    BY <2>a, <2>m, ElemsOfNone DEF AllTexts
  <2>8. ExecTexts'
    BY <1>i, <2>6, <2>7, TextsSame
  <2>9. ExecHeld'
    BY <2>a, <1>i, <2>m, ElemsOfNone DEF ExecHeld
  <2>10. ExecOnce'
    BY <2>a, <1>i, <2>m, <2>6, OnceStays
  <2> QED
    BY <2>1, <2>2, <2>3, <2>4, <2>5, <2>8, <2>9, <2>10 DEF ExecInv, ExecControl
<1> QED
  BY <1>n, <1>f

\* What the fourth child of exec.c does before its exec.
LEMMA KidPreparesKeeps ==
  ASSUME ExecInv, program = "exec", X!ExecSystem \/ X!ExportPath
  PROVE  ExecInv'
<1>i. /\ ExecTypes /\ ExecKids /\ ExecReaped /\ ExecClock /\ ExecGlobs /\ ExecTexts /\ ExecHeld
      /\ ExecOnce
  BY DEF ExecInv, ExecControl
<1>a. /\ kid \in {"born", "system"} /\ kid' \in {"system", "search"}
      /\ \/ image' = image \/ image' = [image EXCEPT !["sh"] = image["kid"]]
         \/ image' = [image EXCEPT !["sh"].path = TRUE]
      /\ program' = program /\ ignoring' = ignoring /\ tty' = tty /\ typed' = typed
      /\ main' = main /\ round' = round /\ out' = out /\ ended' = ended /\ reaped' = reaped
      /\ clock' = clock /\ struck' = struck
  BY DEF X!ExecSystem, X!ExportPath, X!started
<1>m. /\ image' \in [{"main", "kid", "sh"} -> Images] /\ image'["main"] = image["main"]
      /\ image'["kid"] = image["kid"]
  BY <1>a, <1>i, ImageOfShell DEF ExecTypes
<1>1. ExecTypes'
  BY <1>a, <1>i, <1>m DEF ExecTypes, Kids
<1>2. ExecKids'
  BY <1>a, <1>i DEF ExecKids, Alive
<1>3. ExecReaped'
  BY <1>a, <1>i DEF ExecReaped, Alive
<1>4. ExecClock'
  BY <1>a, <1>i DEF ExecClock
<1>5. ExecGlobs'
  BY <1>a, <1>i, <1>m DEF ExecGlobs
<1>6. Moved
  BY <1>a, <1>i DEF Moved, Stages
<1>7. AllTexts' \subseteq AllTexts
  BY <1>a, <1>m DEF AllTexts
<1>8. ExecTexts'
  BY <1>i, <1>6, <1>7, TextsSame
<1>9. ExecHeld'
  BY <1>a, <1>i, <1>m DEF ExecHeld
<1>10. ExecOnce'
  BY <1>a, <1>i, <1>m, <1>6, OnceStays
<1> QED
  BY <1>1, <1>2, <1>3, <1>4, <1>5, <1>8, <1>9, <1>10 DEF ExecInv, ExecControl

\* The child of vfork() increments the value of its parent.
LEMMA IncrementKeeps ==
  ASSUME ExecInv, program = "vfork", X!VforkIncrement
  PROVE  ExecInv'
<1>i. /\ ExecTypes /\ ExecKids /\ ExecReaped /\ ExecClock /\ ExecGlobs /\ ExecTexts /\ ExecHeld
      /\ ExecOnce
  BY DEF ExecInv, ExecControl
<1>a. /\ kid = "born" /\ kid' = "_exit"
      /\ image' = [image EXCEPT !["main"].glob = @ + 1]
      /\ program' = program /\ ignoring' = ignoring /\ tty' = tty /\ typed' = typed
      /\ main' = main /\ round' = round /\ out' = out /\ ended' = ended /\ reaped' = reaped
      /\ clock' = clock /\ struck' = struck
  BY DEF X!VforkIncrement, X!started
<1>m. /\ image' \in [{"main", "kid", "sh"} -> Images] /\ image'["kid"] = image["kid"]
      /\ image'["main"].glob = 7 /\ image'["main"].held = image["main"].held
  BY <1>a, <1>i, ImageChanged DEF ExecTypes, ExecGlobs
<1>1. ExecTypes'
  BY <1>a, <1>i, <1>m DEF ExecTypes, Kids
<1>2. ExecKids'
  BY <1>a, <1>i DEF ExecKids, Alive
<1>3. ExecReaped'
  BY <1>a, <1>i DEF ExecReaped, Alive
<1>4. ExecClock'
  BY <1>a, <1>i DEF ExecClock
<1>5. ExecGlobs'
  BY <1>a, <1>i, <1>m DEF ExecGlobs
<1>6. Moved
  BY <1>a, <1>i DEF Moved, Stages
<1>7. AllTexts' \subseteq AllTexts
  BY <1>a, <1>m DEF AllTexts
<1>8. ExecTexts'
  BY <1>i, <1>6, <1>7, TextsSame
<1>9. ExecHeld'
  BY <1>a, <1>i, <1>m DEF ExecHeld
<1>10. ExecOnce'
  BY <1>a, <1>i, <1>m, <1>6, OnceStays
<1> QED
  BY <1>1, <1>2, <1>3, <1>4, <1>5, <1>8, <1>9, <1>10 DEF ExecInv, ExecControl

\* proctime.c before and instead of a child.
LEMMA TimesKeeps ==
  ASSUME ExecInv, program = "proctime", X!Times \/ X!SystemFails
  PROVE  ExecInv'
<1>i. /\ ExecTypes /\ ExecKids /\ ExecReaped /\ ExecClock /\ ExecGlobs /\ ExecTexts /\ ExecHeld
      /\ ExecOnce
  BY DEF ExecInv, ExecControl
<1>a. /\ main \in {"times", "fork", "wait"} /\ main' \in {"fork", "next"}
      /\ main' = "fork" => main = "times" /\ clock' = [clock EXCEPT !.start = clock.now]
      /\ main' = "next" => clock' = clock
      /\ main = "wait" => kid = "gone"
      /\ program' = program /\ ignoring' = ignoring /\ tty' = tty /\ typed' = typed
      /\ kid' = kid /\ round' = round /\ out' = out /\ ended' = ended /\ reaped' = reaped
      /\ image' = image /\ struck' = struck
  BY DEF X!Times, X!SystemFails, X!started
<1>c. /\ clock' \in [now : Nat, start : Nat]
      /\ main' = "fork" => clock'.start = clock'.now
  <2>1. clock \in [now : Nat, start : Nat]
    BY <1>i DEF ExecTypes
  <2>2. CASE main' = "fork"
    BY <2>1, <2>2, <1>a
  <2>3. CASE main' = "next"
    BY <2>1, <2>3, <1>a
  <2> QED
    BY <2>2, <2>3, <1>a
<1>x. main' \in Mains(program)
  BY <1>a DEF Mains, X!Shells, Looping
<1>1. ExecTypes'
  BY <1>a, <1>i, <1>c, <1>x DEF ExecTypes
<1>k. kid = "none" \/ (ignoring /\ kid = "gone")
  BY <1>a, <1>i DEF ExecKids, Childless, Unreaped
<1>2. ExecKids'
  BY <1>a, <1>i, <1>k DEF ExecKids, Alive, Unreaped
<1>3. ExecReaped'
  BY <1>a, <1>i, <1>k DEF ExecReaped, Alive
<1>4. ExecClock'
  BY <1>a, <1>c DEF ExecClock
<1>5. ExecGlobs'
  BY <1>a, <1>i DEF ExecGlobs
<1>6. Moved
  BY <1>a, <1>i DEF Moved, Stages, X!Exited, X!Shells
<1>7. AllTexts' \subseteq AllTexts
  BY <1>a DEF AllTexts
<1>8. ExecTexts'
  BY <1>i, <1>6, <1>7, TextsSame
<1>9. ExecHeld'
  BY <1>a, <1>i DEF ExecHeld
<1>10. ExecOnce'
  BY <1>a, <1>i, <1>6, OnceStays
<1> QED
  BY <1>1, <1>2, <1>3, <1>4, <1>5, <1>8, <1>9, <1>10 DEF ExecInv, ExecControl

\* The interrupt character in myshell.c.
LEMMA InterruptKeeps ==
  ASSUME ExecInv, X!Interrupt
  PROVE  ExecInv'
<1>i. /\ ExecTypes /\ ExecKids /\ ExecReaped /\ ExecClock /\ ExecGlobs /\ ExecTexts /\ ExecHeld
      /\ ExecOnce
  BY DEF ExecInv, ExecControl
<1>a. /\ program = "myshell" /\ main' = "killed" /\ struck < MaxInterrupts
      /\ struck' = struck + 1 /\ main \notin X!Exited
      /\ \/ kid \in {"born", "command"} /\ kid' = "gone" /\ ended' = Append(ended, <<round, "int">>)
         \/ kid' = kid /\ ended' = ended
      /\ program' = program /\ ignoring' = ignoring /\ tty' = tty /\ typed' = typed
      /\ round' = round /\ out' = out /\ reaped' = reaped
      /\ image' = image /\ clock' = clock
  BY DEF X!Interrupt, X!started
<1> DEFINE e == <<round, "int">>
<1>n. /\ e \in Ends
      /\ ended \in Seq(Ends) /\ round \in Nat
  BY <1>i, ProcessAssumption DEF ExecTypes, Ends, Statuses
<1>e. /\ ended' \in Seq(Ends)
      /\ ended' = ended \/ \E x \in Ends : ended' = Append(ended, x)
  <2>0. ended' = Append(ended, e) \/ ended' = ended
    BY <1>a
  <2> HIDE DEF e
  <2> QED
    BY <1>n, <2>0, OneMore
<1>x. main' \in Mains(program) /\ struck' \in 0..MaxInterrupts
  BY <1>a, <1>i, ProcessAssumption, WhoseMain DEF X!Exited, ExecTypes
<1>1. ExecTypes'
  BY <1>a, <1>i, <1>e, <1>x DEF ExecTypes, Kids
<1>2. ExecKids'
  BY <1>a, <1>i DEF ExecKids, Childless, Unreaped, X!Shells
<1>3. ExecReaped'
  <2>1. CASE kid' = "gone" /\ ended' = Append(ended, <<round, "int">>) /\ kid \in {"born", "command"}
    <3>1. ~ignoring => ended' = Append(reaped, e)
      BY <2>1, <1>i DEF ExecReaped, Alive
    <3> HIDE DEF e
    <3> QED
      BY <1>a, <1>i, <1>n, <2>1, <3>1 DEF ExecReaped, Alive
  <2>2. CASE kid' = kid /\ ended' = ended
    BY <1>a, <1>i, <2>2 DEF ExecReaped
  <2> QED
    BY <1>a, <2>1, <2>2
<1>4. ExecClock'
  BY <1>a DEF ExecClock
<1>5. ExecGlobs'
  BY <1>a, <1>i DEF ExecGlobs
<1>6. Moved
  BY <1>a, <1>e, <1>i DEF Moved, Stages, X!Exited, X!Shells
<1>7. AllTexts' \subseteq AllTexts
  BY <1>a DEF AllTexts
<1>8. ExecTexts'
  BY <1>i, <1>6, <1>7, TextsSame
<1>9. ExecHeld'
  BY <1>a, <1>i DEF ExecHeld
<1>10. ExecOnce'
  BY <1>a, <1>i, <1>6, OnceStays
<1> QED
  BY <1>1, <1>2, <1>3, <1>4, <1>5, <1>8, <1>9, <1>10 DEF ExecInv, ExecControl

\* The loop goes on with another child.
LEMMA AnotherKeeps ==
  ASSUME ExecInv, NEW n \in 0..(MaxCommands + 4), NEW a \in {"fork", "times"}, a \in Mains(program),
         a = "fork" => program # "proctime", X!Another(n, a)
  PROVE  ExecInv'
<1>i. /\ ExecTypes /\ ExecKids /\ ExecReaped /\ ExecClock /\ ExecGlobs /\ ExecTexts /\ ExecHeld
      /\ ExecOnce
  BY DEF ExecInv, ExecControl
<1>e. CASE ~(round < n)
  <2>1. /\ main = "next" /\ X!Exits("exit0", <<>>)
        /\ UNCHANGED <<X!started, round, kid, ended, reaped, clock, struck>>
    BY <1>e DEF X!Another
  <2> QED
    BY <2>1, QuietEndKeeps DEF X!Exited, Childless
<1>f. CASE round < n
  <2>a. /\ main = "next" /\ main' = a /\ round' = round + 1 /\ image' = image /\ out' = out
        /\ program' = program /\ ignoring' = ignoring /\ tty' = tty /\ typed' = typed
        /\ kid' = kid /\ ended' = ended /\ reaped' = reaped
        /\ clock' = clock /\ struck' = struck
    BY <1>f DEF X!Another, X!started
  <2>x. round' \in 0..(MaxCommands + 4) /\ round \in Nat /\ program \notin Unreaped
    BY <2>a, <1>f, <1>i, ProcessAssumption, WhoseMain DEF ExecTypes, Looping, Unreaped
  <2>1. ExecTypes'
    BY <2>a, <1>i, <2>x DEF ExecTypes
  <2>k. kid = "none" \/ (ignoring /\ kid = "gone")
    BY <2>a, <1>i DEF ExecKids, Childless
  <2>2. ExecKids'
    BY <2>a, <1>i, <2>k, <2>x DEF ExecKids, Alive
  <2>3. ExecReaped'
    BY <2>a, <1>i, <2>k DEF ExecReaped, Alive
  <2>4. ExecClock'
    BY <2>a, <1>i DEF ExecClock
  <2>5. ExecGlobs'
    BY <2>a, <1>i DEF ExecGlobs, Killed1
  <2>6. Moved
    BY <2>a, <1>i DEF Moved, X!Exited
  <2>7. AllTexts' \subseteq AllTexts
    BY <2>a DEF AllTexts
  <2>8. ExecTexts'
    BY <1>i, <2>6, <2>7, TextsSame
  <2>9. ExecHeld'
    <3>1. program = "wait" => round' # 1
      BY <2>a, <2>x, <1>i DEF ExecKids, X!Shells
    <3> QED
      BY <3>1, <2>a, <1>i DEF ExecHeld
  <2>10. ExecOnce'
    BY <2>a, <1>i, <2>6, OnceStays
  <2> QED
    BY <2>1, <2>2, <2>3, <2>4, <2>5, <2>8, <2>9, <2>10 DEF ExecInv, ExecControl
<1> QED
  BY <1>e, <1>f

\* A shell reads a command.
LEMMA FgetsKeeps ==
  ASSUME ExecInv, program \in X!Shells, X!Fgets
  PROVE  ExecInv'
<1>i. /\ ExecTypes /\ ExecKids /\ ExecReaped /\ ExecClock /\ ExecGlobs /\ ExecTexts /\ ExecHeld
      /\ ExecOnce
  BY DEF ExecInv, ExecControl
<1>e. CASE ~(round < typed)
  <2>1. /\ main = "read" /\ X!Exits("exit0", <<>>)
        /\ UNCHANGED <<X!started, round, kid, ended, reaped, clock, struck>>
    BY <1>e DEF X!Fgets
  <2> QED
    BY <2>1, QuietEndKeeps DEF X!Exited, Childless
<1>f. CASE round < typed
  <2>a. /\ main = "read" /\ main' = "fork" /\ round' = round + 1
        /\ program' = program /\ ignoring' = ignoring /\ tty' = tty /\ typed' = typed
        /\ kid' = kid /\ ended' = ended /\ reaped' = reaped
        /\ clock' = clock /\ struck' = struck
    BY <1>f DEF X!Fgets, X!started
  <2>b. IF tty THEN /\ out' = out \o image["main"].held
                    /\ image' = [image EXCEPT !["main"].held = <<>>]
        ELSE image' = image /\ out' = out
    BY <1>f DEF X!Fgets
  <2>t. /\ out \in Seq(Texts) /\ image["main"].held \in Seq(Texts) /\ <<>> \in Seq(Texts)
        /\ image \in [{"main", "kid", "sh"} -> Images]
    BY <1>i, TextTypes DEF ExecTypes
  <2>m. /\ image' \in [{"main", "kid", "sh"} -> Images] /\ image'["kid"] = image["kid"]
        /\ image'["main"].glob = image["main"].glob
        /\ tty => image'["main"].held = <<>>
        /\ ~tty => image'["main"].held = image["main"].held
    <3>1. CASE tty
      BY <2>b, <2>t, <3>1 DEF Images
    <3>2. CASE ~tty
      BY <2>b, <2>t, <3>2
    <3> QED
      BY <3>1, <3>2
  <2>o. /\ out' \in Seq(Texts) /\ Elems(out') \subseteq Elems(out) \cup Elems(image["main"].held)
    BY <2>b, <2>t, ElemsOfJoined
  <2>r. round' \in 0..(MaxCommands + 4)
    <3>1. round \in 0..(MaxCommands + 4) /\ typed \in 0..MaxCommands
      BY <1>i DEF ExecTypes
    <3> QED
      BY <2>a, <1>f, <3>1, ProcessAssumption
  <2>x. /\ "fork" \in Mains(program)
        /\ program \notin Unreaped \cup {"wait"} /\ program # "proctime"
    BY DEF X!Shells, Unreaped, Mains
  <2>1. ExecTypes'
    BY <2>a, <1>i, <2>r, <2>x, <2>m, <2>o DEF ExecTypes
  <2>k. kid = "none" \/ (ignoring /\ kid = "gone")
    BY <2>a, <1>i DEF ExecKids, Childless
  <2>2. ExecKids'
    BY <2>a, <1>i, <2>k, <2>x DEF ExecKids, Alive
  <2>3. ExecReaped'
    BY <2>a, <1>i, <2>k DEF ExecReaped, Alive
  <2>4. ExecClock'
    BY <2>a, <2>x DEF ExecClock
  <2>5. ExecGlobs'
    BY <2>a, <1>i, <2>m DEF ExecGlobs, Killed1
  <2>6. Moved
    BY <2>a, <1>i DEF Moved, X!Exited
  <2>7. AllTexts' \subseteq AllTexts
    BY <2>m, <2>o, ElemsOfNone DEF AllTexts
  <2>8. ExecTexts'
    BY <1>i, <2>6, <2>7, TextsSame
  <2>9. ExecHeld'
    BY <2>a, <2>m, <2>x, <1>i, ElemsOfNone DEF ExecHeld
  <2>10. ExecOnce'
    <3>1. CASE tty
      <4>1. AllOnce(out, image["main"].held, tty)
        BY <3>1, <1>i DEF ExecOnce
      <4>2. AllOnce(out \o image["main"].held, <<>>, tty)
        BY <4>1, <2>t, Flushed
      <4> QED
        BY <3>1, <4>2, <2>a, <2>b, <2>m DEF ExecOnce
    <3>2. CASE ~tty
      BY <3>2, <2>b, <2>m, <1>i, <2>6, OnceStays
    <3> QED
      BY <3>1, <3>2
  <2> QED
    BY <2>1, <2>2, <2>3, <2>4, <2>5, <2>8, <2>9, <2>10 DEF ExecInv, ExecControl
<1> QED
  BY <1>e, <1>f

\* What printf() of a new line does.
LEMMA PutsAdds ==
  ASSUME ExecTypes, ExecTexts, ExecOnce, Moved, NEW t \in Texts, ~Known(t), Proper(t)',
         X!Puts("main", t), ended' = ended
  PROVE  /\ out' \in Seq(Texts) /\ image' \in [{"main", "kid", "sh"} -> Images]
         /\ image'["main"].glob = image["main"].glob /\ image'["kid"] = image["kid"]
         /\ tty => image'["main"].held = <<>>
         /\ ExecTexts' /\ ExecOnce'
<1>t. /\ out \in Seq(Texts) /\ image["main"].held \in Seq(Texts) /\ <<>> \in Seq(Texts)
      /\ image \in [{"main", "kid", "sh"} -> Images]
  BY TextTypes DEF ExecTypes
<1>u. t \notin Elems(out) \cup Elems(image["main"].held)
  BY Unheard
<1>y. tty' = tty
  BY DEF Moved
<1> DEFINE h == image["main"].held
           w == out \o h
<1>1. CASE tty
  <2>a. out' = w \o <<t>> /\ image' = [image EXCEPT !["main"].held = <<>>]
    BY <1>1 DEF X!Puts
  <2>m. /\ image' \in [{"main", "kid", "sh"} -> Images] /\ image'["kid"] = image["kid"]
        /\ image'["main"].glob = image["main"].glob /\ image'["main"].held = <<>>
    BY <2>a, <1>t DEF Images
  <2>w. w \in Seq(Texts) /\ Elems(w) = Elems(out) \cup Elems(h)
    BY <1>t, ElemsOfJoined
  <2> DEFINE l == <<t>>
  <2>l. l \in Seq(Texts) /\ Elems(l) = {t} /\ Once(l, tty)
    BY ElemsOfOne, OnceOfOne
  <2>b. out' = w \o l
    BY <2>a
  <2>v. AllOnce(out, h, tty)
    BY <1>1 DEF ExecOnce
  <2>f. AllOnce(w, <<>>, tty)
    BY <2>v, <1>t, Flushed
  <2> HIDE DEF w, l, h
  <2>o. out' \in Seq(Texts) /\ Elems(out') = Elems(w) \cup {t}
    BY <2>b, <2>l, <2>w, ElemsOfJoined
  <2>x. AllTexts' \subseteq AllTexts \cup {t}
    BY <2>o, <2>m, <2>w, ElemsOfNone DEF AllTexts, h
  <2>c. AllOnce(w \o l, <<>>, tty)
    <3>1. \A x \in Elems(l) : x \notin Elems(w) \cup Elems(<<>>)
      BY <1>u, <2>l, <2>w, ElemsOfNone DEF h
    <3> QED
      BY <3>1, <2>f, <2>l, <2>w, <1>t, WrittenMore
  <2>d. ExecTexts'
    BY <2>x, TextsMore
  <2>e. ExecOnce'
    BY <2>c, <2>b, <2>m, <1>y DEF ExecOnce
  <2> QED
    BY <2>m, <2>o, <2>d, <2>e
<1>2. CASE ~tty
  <2>a. out' = out /\ image' = [image EXCEPT !["main"].held = Append(@, t)]
    BY <1>2 DEF X!Puts
  <2>h. Append(h, t) \in Seq(Texts) /\ Elems(Append(h, t)) = Elems(h) \cup {t}
    BY <1>t, ElemsOfMore
  <2>m. /\ image' \in [{"main", "kid", "sh"} -> Images] /\ image'["kid"] = image["kid"]
        /\ image'["main"].glob = image["main"].glob /\ image'["main"].held = Append(h, t)
    BY <2>a, <2>h, <1>t DEF Images
  <2>x. AllTexts' \subseteq AllTexts \cup {t}
    BY <2>a, <2>m, <2>h DEF AllTexts
  <2>d. ExecTexts'
    BY <2>x, TextsMore
  <2>e. ExecOnce'
    <3>1. SUFFICES ASSUME tty \/ ~Copied' PROVE AllOnce(out, Append(h, t), tty)
      BY <2>a, <2>m, <1>y DEF ExecOnce
    <3>2. AllOnce(out, h, tty)
      BY <3>1, <1>y, CopiedStays DEF ExecOnce
    <3> QED
      BY <3>2, <1>t, <1>u, HeldMore
  <2> QED
    BY <1>2, <1>t, <2>a, <2>m, <2>d, <2>e
<1> QED
  BY <1>1, <1>2

LEMMA BeforeKeeps ==
  ASSUME ExecInv, X!Before, program \in {"fork", "vfork"}
  PROVE  ExecInv'
<1>i. /\ ExecTypes /\ ExecKids /\ ExecReaped /\ ExecClock /\ ExecGlobs /\ ExecTexts /\ ExecHeld
      /\ ExecOnce
  BY DEF ExecInv, ExecControl
<1> DEFINE t == <<"before", 0, "main">>
<1>a. /\ main = "before" /\ main' = "fork" /\ X!Puts("main", t)
      /\ program' = program /\ ignoring' = ignoring /\ tty' = tty /\ typed' = typed
      /\ kid' = kid /\ round' = round /\ ended' = ended /\ reaped' = reaped
      /\ clock' = clock /\ struck' = struck
  BY DEF X!Before, X!started
<1>6. Moved
  BY <1>a, <1>i DEF Moved, Stages, X!Exited, X!Shells
<1>t. t \in Texts /\ ~Known(t) /\ Proper(t)'
  BY <1>a DEF Texts, Kinds, Known, Proper, Shown, Valued, Listed
<1> HIDE DEF t
<1>m. /\ out' \in Seq(Texts) /\ image' \in [{"main", "kid", "sh"} -> Images]
      /\ image'["main"].glob = image["main"].glob /\ image'["kid"] = image["kid"]
      /\ tty => image'["main"].held = <<>>
      /\ ExecTexts' /\ ExecOnce'
  BY <1>a, <1>i, <1>6, <1>t, PutsAdds
<1>x. "fork" \in Mains(program) /\ program \in Unreaped
  BY DEF Mains, Unreaped, X!Shells, Looping
<1>1. ExecTypes'
  BY <1>a, <1>i, <1>m, <1>x DEF ExecTypes
<1>k. kid = "none"
  BY <1>a, <1>i, <1>x DEF ExecKids, Childless
<1>2. ExecKids'
  BY <1>a, <1>i, <1>k DEF ExecKids
<1>3. ExecReaped'
  BY <1>a, <1>i, <1>k DEF ExecReaped
<1>4. ExecClock'
  BY <1>a, <1>x DEF ExecClock, Unreaped
<1>5. ExecGlobs'
  BY <1>a, <1>i, <1>m DEF ExecGlobs, Killed1
<1>9. ExecHeld'
  BY <1>a, <1>i, <1>m, ElemsOfNone DEF ExecHeld
<1> QED
  BY <1>1, <1>2, <1>3, <1>4, <1>5, <1>m, <1>9 DEF ExecInv, ExecControl

LEMMA PrExitKeeps ==
  ASSUME ExecInv, X!PrExit, program = "wait"
  PROVE  ExecInv'
<1>i. /\ ExecTypes /\ ExecKids /\ ExecReaped /\ ExecClock /\ ExecGlobs /\ ExecTexts /\ ExecHeld
      /\ ExecOnce
  BY DEF ExecInv, ExecControl
<1>a. /\ main = "status" /\ main' = "next"
      /\ X!Puts("main", <<"status", round, reaped[Len(reaped)][2]>>)
      /\ program' = program /\ ignoring' = ignoring /\ tty' = tty /\ typed' = typed
      /\ kid' = kid /\ round' = round /\ ended' = ended /\ reaped' = reaped
      /\ clock' = clock /\ struck' = struck
  BY DEF X!PrExit, X!started
<1>r. /\ Len(reaped) \in 1..Len(reaped) /\ reaped[Len(reaped)] \in Ends
      /\ reaped[Len(reaped)][1] = round
  BY <1>a, <1>i DEF ExecTypes, ExecReaped
<1>s. PICK s \in Statuses : reaped[Len(reaped)] = <<round, s>>
  BY <1>r DEF Ends
<1>n. PICK n \in Nat : n = round
  BY <1>i, ProcessAssumption DEF ExecTypes
<1> DEFINE t == <<"status", n, s>>
<1>p. X!Puts("main", t)
  BY <1>a, <1>s, <1>n
<1>6. Moved
  BY <1>a, <1>i DEF Moved, Stages, X!Exited, X!Shells
<1>t. t \in Texts /\ ~Known(t) /\ Proper(t)'
  <2>1. t \in Texts
    BY DEF Texts, Kinds
  <2>2. ~Known(t)
    <3>1. main \in Stages
      BY <1>a DEF Stages, X!Shells
    <3>2. t[1] = "status" /\ ~(t[2] < round)
      BY <1>n
    <3> QED
      BY <3>1, <3>2 DEF Known, Numbered
  <2>3. Known(t)'
    <3>1. main' \notin Stages'
      BY <1>a DEF Stages, X!Shells
    <3>2. t[1] = "status" /\ t[2] <= round' /\ program' = "wait"
      BY <1>a, <1>n
    <3> QED
      BY <3>1, <3>2 DEF Known, Numbered
  <2>4. Shown(t)'
    BY <1>a, <1>r, <1>s, <1>n DEF Shown
  <2> QED
    BY <2>1, <2>2, <2>3, <2>4 DEF Proper, Valued, Listed
<1> HIDE DEF t
<1>m. /\ out' \in Seq(Texts) /\ image' \in [{"main", "kid", "sh"} -> Images]
      /\ image'["main"].glob = image["main"].glob /\ image'["kid"] = image["kid"]
      /\ tty => image'["main"].held = <<>>
      /\ ExecTexts' /\ ExecOnce'
  BY <1>a, <1>p, <1>i, <1>6, <1>t, PutsAdds
<1>x. "next" \in Mains(program) /\ program \notin Unreaped
  BY DEF Mains, Unreaped, X!Shells, Looping
<1>1. ExecTypes'
  BY <1>a, <1>i, <1>m, <1>x DEF ExecTypes
<1>k. kid = "none" \/ (ignoring /\ kid = "gone")
  BY <1>a, <1>i, <1>x DEF ExecKids, Childless
<1>2. ExecKids'
  BY <1>a, <1>i, <1>k, <1>x DEF ExecKids
<1>3. ExecReaped'
  BY <1>a, <1>i, <1>k DEF ExecReaped
<1>4. ExecClock'
  BY <1>a, <1>x DEF ExecClock, Unreaped
<1>5. ExecGlobs'
  BY <1>a, <1>i, <1>m DEF ExecGlobs, Killed1
<1>9. ExecHeld'
  BY <1>a, <1>i, <1>m, ElemsOfNone DEF ExecHeld
<1> QED
  BY <1>1, <1>2, <1>3, <1>4, <1>5, <1>m, <1>9 DEF ExecInv, ExecControl

LEMMA PrTimesKeeps ==
  ASSUME ExecInv, X!PrTimes, program = "proctime"
  PROVE  ExecInv'
<1>i. /\ ExecTypes /\ ExecKids /\ ExecReaped /\ ExecClock /\ ExecGlobs /\ ExecTexts /\ ExecHeld
      /\ ExecOnce
  BY DEF ExecInv, ExecControl
<1>a. /\ main = "end" /\ main' = "next"
      /\ \/ out' = Append(out, <<"times", clock.now - clock.start, reaped[Len(reaped)][2]>>)
         \/ out' = out
      /\ program' = program /\ ignoring' = ignoring /\ tty' = tty /\ typed' = typed
      /\ kid' = kid /\ round' = round /\ ended' = ended /\ reaped' = reaped
      /\ clock' = clock /\ struck' = struck /\ image' = image
  BY DEF X!PrTimes, X!started
<1>r. /\ Len(reaped) \in 1..Len(reaped) /\ reaped[Len(reaped)] \in Ends
      /\ reaped[Len(reaped)][1] = round
  BY <1>a, <1>i DEF ExecTypes, ExecReaped
<1>s. PICK s \in Statuses : reaped[Len(reaped)] = <<round, s>>
  BY <1>r DEF Ends
<1>n. PICK n \in Nat : n = round
  BY <1>i, ProcessAssumption DEF ExecTypes
<1>c. clock.now - clock.start = n
  <2>1. clock.now \in Nat /\ clock.start \in Nat
    BY <1>i DEF ExecTypes
  <2>2. clock.now = clock.start + n
    BY <1>a, <1>i, <1>n DEF ExecClock
  <2> QED
    BY <2>1, <2>2
<1> DEFINE t == <<"times", n, s>>
<1>6. Moved
  BY <1>a, <1>i DEF Moved, Stages, X!Exited, X!Shells
<1>t. t \in Texts /\ ~Known(t) /\ Proper(t)'
  <2>1. t \in Texts
    BY DEF Texts, Kinds
  <2>2. ~Known(t)
    <3>1. main \in Stages
      BY <1>a DEF Stages, X!Shells
    <3>2. t[1] = "times" /\ ~(t[2] < round)
      BY <1>n
    <3> QED
      BY <3>1, <3>2 DEF Known, Numbered
  <2>3. Known(t)'
    <3>1. main' \notin Stages'
      BY <1>a DEF Stages, X!Shells
    <3>2. t[1] = "times" /\ t[2] <= round' /\ program' = "proctime"
      BY <1>a, <1>n
    <3> QED
      BY <3>1, <3>2 DEF Known, Numbered
  <2>4. Shown(t)'
    BY <1>a, <1>r, <1>s, <1>n DEF Shown
  <2> QED
    BY <2>1, <2>2, <2>3, <2>4 DEF Proper, Valued, Listed
<1>x. "next" \in Mains(program) /\ program \notin Unreaped /\ program # "wait"
  BY DEF Mains, Unreaped, X!Shells, Looping
<1>p. out' = Append(out, t) \/ out' = out
  <2>1. CASE out' = out
    BY <2>1
  <2>2. CASE out' = Append(out, <<"times", clock.now - clock.start, reaped[Len(reaped)][2]>>)
    <3>1. reaped[Len(reaped)][2] = s
      BY <1>s
    <3> QED
      BY <2>2, <3>1, <1>c
  <2> QED
    BY <2>1, <2>2, <1>a
<1> HIDE DEF t
<1>y. out \in Seq(Texts) /\ image["main"].held \in Seq(Texts)
  BY <1>i, TextTypes
<1>o. /\ Append(out, t) \in Seq(Texts) /\ Elems(Append(out, t)) = Elems(out) \cup {t}
  BY <1>y, <1>t, ElemsOfMore
<1>7. AllTexts' \subseteq AllTexts \cup {t} /\ out' \in Seq(Texts)
  BY <1>a, <1>p, <1>o, <1>y DEF AllTexts
<1>8. ExecTexts'
  BY <1>i, <1>t, <1>6, <1>7, TextsMore
<1>10. ExecOnce'
  <2>1. CASE out' = out
    BY <2>1, <1>a, <1>i, <1>6, OnceStays
  <2>2. CASE out' = Append(out, t)
    <3>1. SUFFICES ASSUME tty \/ ~Copied' PROVE AllOnce(Append(out, t), image["main"].held, tty)
      BY <2>2, <1>a DEF ExecOnce
    <3>2. AllOnce(out, image["main"].held, tty)
      BY <3>1, <1>a, <1>i, <1>6, CopiedStays DEF ExecOnce
    <3> DEFINE l == <<t>>
    <3>3. Append(out, t) = out \o l /\ l \in Seq(Texts)
      BY <1>y, <1>t
    <3>4. Once(l, tty) /\ Elems(l) = {t}
      BY OnceOfOne, ElemsOfOne
    <3> HIDE DEF l
    <3>5. \A x \in Elems(l) : x \notin Elems(out) \cup Elems(image["main"].held)
      BY <3>4, <1>i, <1>t, Unheard
    <3> QED
      BY <3>2, <3>3, <3>4, <3>5, <1>y, WrittenMore
  <2> QED
    BY <2>1, <2>2, <1>p
<1>1. ExecTypes'
  BY <1>a, <1>i, <1>7, <1>x DEF ExecTypes
<1>k. kid = "none" \/ (ignoring /\ kid = "gone")
  BY <1>a, <1>i, <1>x DEF ExecKids, Childless
<1>2. ExecKids'
  BY <1>a, <1>i, <1>k, <1>x DEF ExecKids
<1>3. ExecReaped'
  BY <1>a, <1>i, <1>k DEF ExecReaped
<1>4. ExecClock'
  BY <1>a DEF ExecClock
<1>5. ExecGlobs'
  BY <1>a, <1>i DEF ExecGlobs, Killed1
<1>9. ExecHeld'
  BY <1>a, <1>i DEF ExecHeld
<1> QED
  BY <1>1, <1>2, <1>3, <1>4, <1>5, <1>8, <1>10, <1>9 DEF ExecInv, ExecControl

LEMMA PromptKeeps ==
  ASSUME ExecInv, X!Prompt, program \in X!Shells
  PROVE  ExecInv'
<1>i. /\ ExecTypes /\ ExecKids /\ ExecReaped /\ ExecClock /\ ExecGlobs /\ ExecTexts /\ ExecHeld
      /\ ExecOnce
  BY DEF ExecInv, ExecControl
<1>n. PICK n \in Nat : n = round
  BY <1>i, ProcessAssumption DEF ExecTypes
<1> DEFINE t == <<"prompt", n, "main">>
<1>a. /\ main = "prompt" /\ main' = "read"
      /\ image' = [image EXCEPT !["main"].held = Append(@, t)]
      /\ program' = program /\ ignoring' = ignoring /\ tty' = tty /\ typed' = typed
      /\ kid' = kid /\ round' = round /\ ended' = ended /\ reaped' = reaped
      /\ clock' = clock /\ struck' = struck /\ out' = out
  BY <1>n DEF X!Prompt, X!started
<1>6. Moved
  BY <1>a, <1>i DEF Moved, Stages, X!Exited, X!Shells
<1>t. t \in Texts /\ (~Known(t) \/ Exempt(t, tty)) /\ Proper(t)'
  <2>1. t \in Texts
    BY DEF Texts, Kinds
  <2>2. ~Numbered(t)
    <3>1. main \in Stages
      BY <1>a DEF Stages, X!Shells
    <3> QED
      BY <3>1, <1>n DEF Numbered
  <2>3. Numbered(t)'
    <3>1. main' \notin Stages'
      BY <1>a DEF Stages, X!Shells
    <3>2. t[2] <= round'
      BY <1>a, <1>n
    <3> QED
      BY <3>1, <3>2 DEF Numbered
  <2>4. t[1] = "prompt"
    OBVIOUS
  <2> HIDE DEF t, Numbered
  <2>5. Known(t)'
    BY <2>3, <2>4, <1>a DEF Known
  <2>6. ~Known(t) \/ Exempt(t, tty)
    BY <2>2, <2>4 DEF Known
  <2> QED
    BY <2>1, <2>4, <2>5, <2>6 DEF Proper, Shown, Valued, Listed
<1> HIDE DEF t
<1>y. out \in Seq(Texts) /\ image["main"].held \in Seq(Texts)
      /\ image \in [{"main", "kid", "sh"} -> Images]
  BY <1>i, TextTypes DEF ExecTypes
<1> DEFINE h == image["main"].held
<1>h. Append(h, t) \in Seq(Texts) /\ Elems(Append(h, t)) = Elems(h) \cup {t}
  BY <1>y, <1>t, ElemsOfMore
<1>m. /\ image' \in [{"main", "kid", "sh"} -> Images] /\ image'["kid"] = image["kid"]
      /\ image'["main"].glob = image["main"].glob /\ image'["main"].held = Append(h, t)
  BY <1>a, <1>h, <1>y DEF Images
<1>7. AllTexts' \subseteq AllTexts \cup {t}
  BY <1>a, <1>m, <1>h DEF AllTexts
<1>8. ExecTexts'
  BY <1>i, <1>t, <1>6, <1>7, TextsMore
<1>10. ExecOnce'
  <2>1. SUFFICES ASSUME tty \/ ~Copied' PROVE AllOnce(out, Append(h, t), tty)
    BY <1>a, <1>m DEF ExecOnce
  <2>2. AllOnce(out, h, tty)
    BY <2>1, <1>a, <1>i, <1>6, CopiedStays DEF ExecOnce
  <2>3. Exempt(t, tty) \/ t \notin Elems(out) \cup Elems(h)
    BY <1>i, <1>t, Unheard
  <2> QED
    BY <2>2, <2>3, <1>y, <1>t, HeldMore
<1>x. "read" \in Mains(program) /\ program \notin Unreaped \cup {"wait", "proctime"}
  <2>1. "read" \in Mains(program)
    BY DEF Mains, X!Shells, Looping
  <2> QED
    BY <2>1 DEF Unreaped, X!Shells
<1>1. ExecTypes'
  BY <1>a, <1>i, <1>m, <1>x DEF ExecTypes
<1>k. kid = "none" \/ (ignoring /\ kid = "gone")
  BY <1>a, <1>i, <1>x DEF ExecKids, Childless
<1>2. ExecKids'
  BY <1>a, <1>i, <1>k, <1>x DEF ExecKids
<1>3. ExecReaped'
  BY <1>a, <1>i, <1>k DEF ExecReaped
<1>4. ExecClock'
  BY <1>a, <1>x DEF ExecClock
<1>5. ExecGlobs'
  BY <1>a, <1>i, <1>m DEF ExecGlobs, Killed1
<1>9. ExecHeld'
  BY <1>a, <1>i, <1>m, <1>x DEF ExecHeld
<1> QED
  BY <1>1, <1>2, <1>3, <1>4, <1>5, <1>8, <1>10, <1>9 DEF ExecInv, ExecControl

\* The values at the end of fork.c and vfork.c.
LEMMA PrintValuesKeeps ==
  ASSUME ExecInv, X!PrintValues,
         \/ program = "fork" /\ main = "sleep"
         \/ program = "vfork" /\ main = "vforked" /\ kid \in {"zombie", "gone"}
  PROVE  ExecInv'
<1>i. /\ ExecTypes /\ ExecKids /\ ExecReaped /\ ExecClock /\ ExecGlobs /\ ExecTexts /\ ExecHeld
      /\ ExecOnce
  BY DEF ExecInv, ExecControl
<1>g. image["main"].glob \in 6..7
  BY <1>i, TextTypes
<1>n. PICK n \in 6..7 : n = image["main"].glob
  BY <1>g
<1> DEFINE t == <<"values", n, "main">>
<1>a. /\ X!Exits("exit0", <<t>>)
      /\ UNCHANGED <<X!started, round, kid, ended, reaped, clock, struck>>
      /\ main' = "exit0" /\ program' = program /\ ended' = ended
  BY <1>n DEF X!PrintValues, X!Values, X!Exits, X!started
<1>x. main \notin X!Exited /\ main' \in X!Exited /\ program \in Unreaped
  BY <1>a DEF X!Exited, Unreaped
<1>t. t \in Texts /\ ~Known(t) /\ Proper(t)'
  <2>1. t \in Texts
    BY DEF Texts, Kinds
  <2>2. ~Known(t) /\ Known(t)'
    BY <1>x, <1>a DEF Known
  <2>3. Valued(t)'
    <3>1. CASE program = "fork"
      BY <3>1, <1>a, <1>i, <1>n DEF Valued, ExecGlobs
    <3>2. CASE program = "vfork" /\ kid \in {"zombie", "gone"}
      <4>1. n = 7 \/ Killed1
        BY <3>2, <1>i, <1>n DEF ExecGlobs
      <4>2. Killed1' <=> Killed1
        BY <1>a DEF Killed1
      <4> QED
        BY <3>2, <4>1, <4>2, <1>a DEF Valued
    <3> QED
      BY <3>1, <3>2
  <2> QED
    BY <2>1, <2>2, <2>3 DEF Proper, Shown, Listed
<1> DEFINE l == <<t>>
<1> HIDE DEF t
<1>l. l \in Seq(Texts) /\ Elems(l) = {t} /\ Once(l, tty)
  BY <1>t, ElemsOfOne, OnceOfOne
<1> HIDE DEF l
<1>e. X!Exits("exit0", l)
  BY <1>a DEF l
<1>f. \A x \in Elems(l) : ~Known(x) /\ Proper(x)'
  <2> SUFFICES ASSUME NEW x \in Elems(l) PROVE ~Known(x) /\ Proper(x)'
    OBVIOUS
  <2>1. x = t
    BY <1>l
  <2> QED
    BY <1>t, <2>1
<1> QED
  BY <1>a, <1>e, <1>f, <1>l, <1>x, EndKeeps

\* zombie.c runs ps and ends.
LEMMA PsKeeps ==
  ASSUME ExecInv, program = "zombie", main = "sleep", X!Exits("exit0", <<<<"ps", 0, kid>>>>),
         UNCHANGED <<X!started, round, kid, ended, reaped, clock, struck>>
  PROVE  ExecInv'
<1>i. /\ ExecTypes /\ ExecKids
  BY DEF ExecInv, ExecControl
<1>n. PICK k \in Kids : k = kid
  BY <1>i DEF ExecTypes
<1> DEFINE t == <<"ps", 0, k>>
<1>a. /\ X!Exits("exit0", <<t>>)
      /\ main' = "exit0" /\ program' = program /\ ignoring' = ignoring
  BY <1>n DEF X!Exits, X!started
<1>x. main \notin X!Exited /\ main' \in X!Exited /\ program \in Unreaped
  BY <1>a DEF X!Exited, Unreaped
<1>t. t \in Texts /\ ~Known(t) /\ Proper(t)'
  <2>1. t \in Texts
    BY DEF Texts, Kinds
  <2>2. ~Known(t) /\ Known(t)'
    BY <1>x, <1>a DEF Known
  <2>3. Listed(t)'
    BY <1>a, <1>i, <1>n DEF Listed, ExecKids
  <2> QED
    BY <2>1, <2>2, <2>3 DEF Proper, Shown, Valued
<1> DEFINE l == <<t>>
<1> HIDE DEF t
<1>l. l \in Seq(Texts) /\ Elems(l) = {t} /\ Once(l, tty)
  BY <1>t, ElemsOfOne, OnceOfOne
<1> HIDE DEF l
<1>e. X!Exits("exit0", l)
  BY <1>a DEF l
<1>f. \A x \in Elems(l) : ~Known(x) /\ Proper(x)'
  <2> SUFFICES ASSUME NEW x \in Elems(l) PROVE ~Known(x) /\ Proper(x)'
    OBVIOUS
  <2>1. x = t
    BY <1>l
  <2> QED
    BY <1>t, <2>1
<1> QED
  BY <1>a, <1>e, <1>f, <1>l, <1>x, EndKeeps

\* The child of fork.c prints its own value.
LEMMA KidValuesKeeps ==
  ASSUME ExecInv, program = "fork", kid = "born",
         X!KidExits("0", X!Values("kid", image["kid"].glob + 1))
  PROVE  ExecInv'
<1>i. /\ ExecTypes /\ ExecKids /\ ExecGlobs
  BY DEF ExecInv, ExecControl
<1> DEFINE t == <<"values", 7, "kid">>
<1>g. image["kid"].glob + 1 = 7
  BY <1>i DEF ExecGlobs
<1>a. /\ X!KidExits("0", <<t>>)
      /\ program' = program /\ ended' = Append(ended, <<round, "0">>)
  BY <1>g DEF X!KidExits, X!Dies, X!Values, X!started
<1>x. kid \in Alive /\ "0" \in Statuses /\ "0" \in {"0", "1", "127", "abrt"} /\ program # "vfork"
  BY DEF Alive, Statuses
<1>n. ended = <<>> /\ ended' # <<>>
  <2>1. ended = <<>>
    BY <1>i DEF ExecKids, Unreaped, Alive
  <2> QED
    BY <1>a, <2>1
<1>t. t \in Texts /\ ~Known(t) /\ Proper(t)'
  <2>1. t \in Texts
    BY DEF Texts, Kinds
  <2>2. ~Known(t) /\ Known(t)'
    BY <1>n, <1>a DEF Known
  <2>3. Valued(t)'
    BY <1>a DEF Valued
  <2> QED
    BY <2>1, <2>2, <2>3 DEF Proper, Shown, Listed
<1> DEFINE l == <<t>>
<1> HIDE DEF t
<1>l. l \in Seq(Texts) /\ Elems(l) = {t} /\ Once(l, tty)
  BY <1>t, ElemsOfOne, OnceOfOne
<1> HIDE DEF l
<1>e. X!KidExits("0", l)
  BY <1>a DEF l
<1>f. \A x \in Elems(l) : ~Known(x) /\ Proper(x)'
  <2> SUFFICES ASSUME NEW x \in Elems(l) PROVE ~Known(x) /\ Proper(x)'
    OBVIOUS
  <2>1. x = t
    BY <1>l
  <2> QED
    BY <1>t, <2>1
<1> QED
  BY <1>e, <1>f, <1>l, <1>x, KidExitsKeeps


\* The interrupt character in signals.c: what is written and what is held of it.
LEMMA ToldKeeps ==
  ASSUME ExecTypes, ExecTexts, ExecHeld, ExecOnce, Moved, program = "signals", tty,
         struck' = struck + 1,
         \/ /\ out' = (out \o X!Notice("main")) \o X!Notice("kid")
            /\ image' = [image EXCEPT !["main"].held = X!Reprompt("main"), !["kid"].held = X!Reprompt("kid")]
         \/ /\ out' = out \o X!Notice("main")
            /\ image' = [image EXCEPT !["main"].held = X!Reprompt("main")]
  PROVE  /\ out' \in Seq(Texts) /\ image' \in [{"main", "kid", "sh"} -> Images]
         /\ image'["main"].glob = image["main"].glob /\ image'["kid"].glob = image["kid"].glob
         /\ ExecTexts' /\ ExecHeld' /\ ExecOnce'
<1>s. struck \in Nat
  BY ProcessAssumption DEF ExecTypes
<1>n. PICK n \in Nat : n = struck
  BY <1>s
<1> DEFINE h == image["main"].held
           k == image["kid"].held
           t == <<"interrupt", n, "main">>
           u == <<"interrupt", n, "kid">>
           p == <<"prompt", 100 + n, "main">>
           q == <<"prompt", 100 + n, "kid">>
           i == <<t>>
           j == <<u>>
           v == <<p>>
           w == <<q>>
           o == out \o (h \o i)
           x == o \o (k \o j)
<1>y. out \in Seq(Texts) /\ h \in Seq(Texts) /\ k \in Seq(Texts) /\ <<>> \in Seq(Texts)
      /\ image \in [{"main", "kid", "sh"} -> Images]
  BY TextTypes DEF ExecTypes
<1>a. /\ \/ out' = x /\ image' = [image EXCEPT !["main"].held = v, !["kid"].held = w]
         \/ out' = o /\ image' = [image EXCEPT !["main"].held = v]
  BY <1>n DEF X!Notice, X!Reprompt
<1>p. /\ program' = "signals" /\ tty' = tty
  BY DEF Moved
<1>t. /\ t \in Texts /\ u \in Texts /\ p \in Texts /\ q \in Texts /\ t # u
      /\ ~Known(t) /\ ~Known(u) /\ Known(t)' /\ Known(u)'
      /\ Exempt(p, tty) /\ Exempt(q, tty)
  <2>0. 100 + n \in Nat /\ 100 + n >= 100
    OBVIOUS
  <2>1. t \in Texts /\ u \in Texts /\ p \in Texts /\ q \in Texts /\ t # u
    BY <2>0 DEF Texts, Kinds
  <2>2. ~Known(t) /\ ~Known(u)
    BY <1>n DEF Known
  <2>3. Known(t)' /\ Known(u)'
    BY <1>n, <1>p DEF Known
  <2>4. Exempt(p, tty) /\ Exempt(q, tty)
    BY <2>0 DEF Exempt
  <2> QED
    BY <2>1, <2>2, <2>3, <2>4
<1>r. Known(p)' /\ Known(q)'
  <2>1. Exempt(p, tty') /\ Exempt(q, tty')
    BY <1>t, <1>p
  <2>2. p[1] = "prompt" /\ q[1] = "prompt"
    OBVIOUS
  <2> QED
    BY <2>1, <2>2, <1>p DEF Known, X!Shells
<1>q. Proper(t)' /\ Proper(u)' /\ Proper(p)' /\ Proper(q)'
  BY <1>t, <1>r DEF Proper, Shown, Valued, Listed
<1> HIDE DEF t, u, p, q
<1>l. /\ i \in Seq(Texts) /\ j \in Seq(Texts) /\ v \in Seq(Texts) /\ w \in Seq(Texts)
      /\ Elems(i) = {t} /\ Elems(j) = {u} /\ Elems(v) = {p} /\ Elems(w) = {q}
      /\ Once(i, tty) /\ Once(j, tty) /\ Once(v, tty) /\ Once(w, tty)
  <2>1. ASSUME NEW e \in Texts
        PROVE  <<e>> \in Seq(Texts) /\ Elems(<<e>>) = {e} /\ Once(<<e>>, tty)
    <3>1. <<e>> \in Seq(Texts)
      OBVIOUS
    <3>2. Elems(<<e>>) = {e}
      BY ElemsOfOne
    <3>3. Once(<<e>>, tty)
      BY OnceOfOne
    <3> QED
      BY <3>1, <3>2, <3>3
  <2> QED
    BY <1>t, <2>1
<1> HIDE DEF i, j, v, w, h, k
<1>o. /\ h \o i \in Seq(Texts) /\ Elems(h \o i) = Elems(h) \cup {t}
      /\ o \in Seq(Texts) /\ Elems(o) = Elems(out) \cup Elems(h) \cup {t}
  <2>1. h \o i \in Seq(Texts) /\ Elems(h \o i) = Elems(h) \cup {t}
    BY <1>y, <1>l, ElemsOfJoined
  <2> DEFINE l == h \o i
  <2>3. l \in Seq(Texts)
    BY <2>1
  <2> HIDE DEF l
  <2>2. out \o l \in Seq(Texts) /\ Elems(out \o l) = Elems(out) \cup Elems(l)
    BY <1>y, <2>3, ElemsOfJoined
  <2> QED
    BY <2>1, <2>2 DEF l
<1>x. /\ k \o j \in Seq(Texts) /\ Elems(k \o j) = Elems(k) \cup {u}
      /\ x \in Seq(Texts) /\ Elems(x) = Elems(out) \cup Elems(h) \cup {t} \cup Elems(k) \cup {u}
  <2>1. k \o j \in Seq(Texts) /\ Elems(k \o j) = Elems(k) \cup {u}
    BY <1>y, <1>l, ElemsOfJoined
  <2> HIDE DEF o
  <2> DEFINE l == k \o j
  <2>3. l \in Seq(Texts)
    BY <2>1
  <2> HIDE DEF l
  <2>2. o \o l \in Seq(Texts) /\ Elems(o \o l) = Elems(o) \cup Elems(l)
    BY <1>o, <2>3, ElemsOfJoined
  <2> QED
    BY <2>1, <2>2, <1>o DEF l
<1>e. \A z \in Elems(k) : Exempt(z, tty)
  BY DEF ExecHeld, k
<1>u. \A z \in {t, u} : z \notin Elems(out) /\ z \notin Elems(h) /\ z \notin Elems(k)
  BY <1>t, Unheard DEF AllTexts, h, k
\* What is written is once.
<1>1. AllOnce(o, <<>>, tty)
  <2>1. AllOnce(out, h, tty)
    BY DEF ExecOnce, h
  <2>2. AllOnce(out \o h, <<>>, tty)
    BY <2>1, <1>y, Flushed
  <2>3. out \o h \in Seq(Texts) /\ Elems(out \o h) = Elems(out) \cup Elems(h)
    BY <1>y, ElemsOfJoined
  <2>4. \A z \in Elems(i) : z \notin Elems(out \o h) \cup Elems(<<>>)
    BY <1>l, <1>u, <2>3, ElemsOfNone
  <2>5. AllOnce((out \o h) \o i, <<>>, tty)
    BY <2>2, <2>3, <2>4, <1>y, <1>l, WrittenMore
  <2>6. out \o (h \o i) = (out \o h) \o i
    <3>1. out \in Seq(Texts) /\ h \in Seq(Texts) /\ i \in Seq(Texts)
      BY <1>y, <1>l
    <3> QED
      BY <3>1
  <2>7. o = (out \o h) \o i
    BY <2>6
  <2> HIDE DEF o
  <2> QED
    BY <2>5, <2>7
<1>2. AllOnce(x, <<>>, tty)
  <2>1. Once(k \o j, tty)
    <3>1. Once(k, tty)
      BY <1>e, OnceOfExempt
    <3>2. \A z \in Elems(k) \cap Elems(j) : Exempt(z, tty)
      BY <1>e
    <3> QED
      BY <3>1, <3>2, <1>y, <1>l, OnceJoined
  <2>2. \A z \in Elems(k \o j) : Exempt(z, tty) \/ z \notin Elems(o) \cup Elems(<<>>)
    BY <1>e, <1>u, <1>o, <1>x, <1>t, ElemsOfNone
  <2> HIDE DEF o
  <2> QED
    BY <2>1, <2>2, <1>1, <1>o, <1>x, <1>y, WrittenMore
<1>3. ASSUME NEW z \in Seq(Texts), AllOnce(z, <<>>, tty) PROVE AllOnce(z, v, tty)
  <2>1. AllOnce(z, Append(<<>>, p), tty)
    BY <1>3, <1>t, <1>y, HeldMore
  <2>2. Append(<<>>, p) = v
    BY DEF v
  <2> QED
    BY <2>1, <2>2
<1> HIDE DEF o, x
<1>4. CASE out' = x /\ image' = [image EXCEPT !["main"].held = v, !["kid"].held = w]
  <2>m. /\ image' \in [{"main", "kid", "sh"} -> Images]
        /\ image'["main"].held = v /\ image'["main"].glob = image["main"].glob
        /\ image'["kid"].held = w /\ image'["kid"].glob = image["kid"].glob
    BY <1>4, <1>y, <1>l DEF Images
  <2>1. AllTexts' \subseteq AllTexts \cup {t, u, p, q}
    BY <1>4, <2>m, <1>x, <1>l DEF AllTexts, h, k
  <2>2. ExecTexts'
    <3> DEFINE N == {t, u, p, q}
    <3>1. \A z \in N : Proper(z)'
      BY <1>q
    <3>2. AllTexts' \subseteq AllTexts \cup N
      BY <2>1
    <3> HIDE DEF N
    <3> QED
      BY <3>1, <3>2, TextsKept
  <2>3. ExecHeld'
    BY <2>m, <1>l, <1>t, <1>p DEF ExecHeld
  <2>4. ExecOnce'
    BY <1>4, <2>m, <1>2, <1>3, <1>x, <1>p DEF ExecOnce
  <2> QED
    BY <1>4, <2>m, <1>x, <2>2, <2>3, <2>4
<1>5. CASE out' = o /\ image' = [image EXCEPT !["main"].held = v]
  <2>m. /\ image' \in [{"main", "kid", "sh"} -> Images]
        /\ image'["main"].held = v /\ image'["main"].glob = image["main"].glob
        /\ image'["kid"] = image["kid"]
    BY <1>5, <1>y, <1>l DEF Images
  <2>1. AllTexts' \subseteq AllTexts \cup {t, p}
    BY <1>5, <2>m, <1>o, <1>l DEF AllTexts, h, k
  <2>2. ExecTexts'
    <3> DEFINE N == {t, p}
    <3>1. \A z \in N : Proper(z)'
      BY <1>q
    <3>2. AllTexts' \subseteq AllTexts \cup N
      BY <2>1
    <3> HIDE DEF N
    <3> QED
      BY <3>1, <3>2, TextsKept
  <2>3. ExecHeld'
    BY <2>m, <1>l, <1>t, <1>p DEF ExecHeld
  <2>4. ExecOnce'
    BY <1>5, <2>m, <1>1, <1>3, <1>o, <1>p DEF ExecOnce
  <2> QED
    BY <1>5, <2>m, <1>o, <2>2, <2>3, <2>4
<1> QED
  BY <1>a, <1>4, <1>5

LEMMA SignalsInterruptKeeps ==
  ASSUME ExecInv, X!SignalsInterrupt
  PROVE  ExecInv'
<1>i. /\ ExecTypes /\ ExecKids /\ ExecReaped /\ ExecClock /\ ExecGlobs /\ ExecTexts /\ ExecHeld
      /\ ExecOnce
  BY DEF ExecInv, ExecControl
<1>a. /\ program = "signals" /\ tty /\ struck < MaxInterrupts /\ struck' = struck + 1
      /\ \/ /\ out' = (out \o X!Notice("main")) \o X!Notice("kid")
            /\ image' = [image EXCEPT !["main"].held = X!Reprompt("main"), !["kid"].held = X!Reprompt("kid")]
         \/ /\ out' = out \o X!Notice("main")
            /\ image' = [image EXCEPT !["main"].held = X!Reprompt("main")]
      /\ \/ /\ kid = "command" /\ kid' = (IF ignoring THEN "gone" ELSE "zombie")
            /\ ended' = Append(ended, <<round, "int">>)
         \/ kid' = kid /\ ended' = ended
      /\ UNCHANGED <<X!started, main, round, reaped, clock>>
      /\ program' = program /\ ignoring' = ignoring /\ tty' = tty /\ typed' = typed
      /\ main' = main /\ round' = round /\ reaped' = reaped /\ clock' = clock
  BY DEF X!SignalsInterrupt, X!started
<1>x. struck' \in {struck, struck + 1} /\ struck' \in 0..MaxInterrupts
  <2>1. struck \in 0..MaxInterrupts
    BY <1>i DEF ExecTypes
  <2> QED
    BY <1>a, <2>1, ProcessAssumption
<1>6. Moved
  <2>1. ended' = ended \/ \E e \in Ends : ended' = Append(ended, e)
    <3>1. <<round, "int">> \in Ends
      BY <1>i, ProcessAssumption DEF ExecTypes, Ends, Statuses
    <3> QED
      BY <3>1, <1>a
  <2> QED
    BY <2>1, <1>a, <1>x DEF Moved, Stages
<1>m. /\ out' \in Seq(Texts) /\ image' \in [{"main", "kid", "sh"} -> Images]
      /\ image'["main"].glob = image["main"].glob /\ image'["kid"].glob = image["kid"].glob
      /\ ExecTexts' /\ ExecHeld' /\ ExecOnce'
  BY <1>a, <1>i, <1>6, ToldKeeps
<1>1. CASE kid = "command" /\ kid' = (IF ignoring THEN "gone" ELSE "zombie")
           /\ ended' = Append(ended, <<round, "int">>)
  <2>1. kid \in Alive /\ "int" \in Statuses /\ kid # "born"
    BY <1>1 DEF Alive, Statuses
  <2>2. ExecControl'
    BY <1>1, <2>1, <1>a, <1>x, <1>m, DiesKeeps
  <2> QED
    BY <2>2, <1>m DEF ExecInv
<1>2. CASE kid' = kid /\ ended' = ended
  <2>1. ExecTypes'
    BY <1>2, <1>a, <1>x, <1>i, <1>m DEF ExecTypes
  <2>2. ExecKids'
    BY <1>2, <1>a, <1>i DEF ExecKids
  <2>3. ExecReaped'
    BY <1>2, <1>a, <1>i DEF ExecReaped
  <2>4. ExecClock'
    BY <1>2, <1>a, <1>i DEF ExecClock
  <2>5. ExecGlobs'
    BY <1>2, <1>a, <1>i, <1>m DEF ExecGlobs, Killed1
  <2> QED
    BY <2>1, <2>2, <2>3, <2>4, <2>5, <1>m DEF ExecInv, ExecControl
<1> QED
  BY <1>a, <1>1, <1>2

LEMMA ExecStarts == ASSUME X!ForkExecInit PROVE ExecInv
<1>a. /\ program \in X!Shells \cup {"exec", "execlp", "interp", "wait", "fork", "vfork", "zombie",
                              "proctime"}
      /\ ignoring \in BOOLEAN /\ tty \in BOOLEAN /\ typed \in 0..MaxCommands
      /\ kid = "none" /\ out = <<>> /\ ended = <<>> /\ reaped = <<>>
      /\ clock = [now |-> 0, start |-> 0] /\ struck = 0
  BY DEF X!ForkExecInit
<1>b. PICK inpath \in BOOLEAN :
        image = [p \in {"main", "kid", "sh"} |-> [glob |-> 6, held |-> <<>>, path |-> p # "sh" /\ inpath]]
  BY DEF X!ForkExecInit
<1>p. program \in X!Shells \cup Looping \cup Unreaped \cup {"wait", "proctime"}
  BY <1>a DEF Looping, Unreaped
<1>c. /\ main \in {"prompt", "next", "before", "fork"} /\ main \in Mains(program)
      /\ main = "fork" => program # "proctime"
  <2>1. CASE program \in X!Shells
    <3>1. main = "prompt"
      BY <2>1 DEF X!ForkExecInit, X!Shells
    <3> QED
      BY <2>1, <3>1 DEF Mains, X!Shells, Looping
  <2>2. CASE program = "proctime"
    <3>1. main = "next"
      BY <2>2 DEF X!ForkExecInit, X!Shells
    <3> QED
      BY <2>2, <3>1 DEF Mains, X!Shells, Looping
  <2>3. CASE program \in {"fork", "vfork"}
    <3>1. main = "before"
      BY <2>3 DEF X!ForkExecInit, X!Shells
    <3> QED
      BY <2>3, <3>1 DEF Mains, X!Shells, Looping
  <2>4. CASE program \in Looping \cup {"wait", "zombie"}
    <3>1. main = "fork"
      BY <2>4 DEF X!ForkExecInit, X!Shells, Looping
    <3> QED
      BY <2>4, <3>1 DEF Mains, X!Shells, Looping
  <2> QED
    BY <1>p, <2>1, <2>2, <2>3, <2>4 DEF Unreaped
<1>d. /\ round \in 0..1
      /\ program \notin X!Shells \cup {"proctime"} => round = 1
  BY DEF X!ForkExecInit
<1>e. <<>> \in Seq(Texts) /\ <<>> \in Seq(Ends)
  OBVIOUS
<1>m. /\ image \in [{"main", "kid", "sh"} -> Images]
      /\ image["main"].glob = 6 /\ image["main"].held = <<>>
      /\ image["kid"].glob = 6 /\ image["kid"].held = <<>>
  <2>1. \A p \in {"main", "kid", "sh"} :
          [glob |-> 6, held |-> <<>>, path |-> p # "sh" /\ inpath] \in Images
    BY <1>e DEF Images
  <2> QED
    BY <1>b, <2>1
<1>1. ExecTypes
  BY <1>a, <1>p, <1>c, <1>d, <1>e, <1>m, ProcessAssumption DEF ExecTypes, Kids
<1>2. ExecKids
  BY <1>a, <1>c, <1>d DEF ExecKids, Unreaped, X!Shells, Alive
<1>3. ExecReaped
  BY <1>a, <1>c DEF ExecReaped, Alive
<1>4. ExecClock
  BY <1>a, <1>c DEF ExecClock
<1>5. ExecGlobs
  BY <1>a, <1>m DEF ExecGlobs
<1>6. ExecTexts
  BY <1>a, <1>m, ElemsOfNone DEF ExecTexts, AllTexts
<1>7. ExecHeld
  BY <1>m, ElemsOfNone DEF ExecHeld
<1>8. ExecOnce
  <2>1. AllOnce(<<>>, <<>>, tty)
    BY OnceOfNone, ElemsOfNone DEF AllOnce
  <2> QED
    BY <1>a, <1>m, <2>1 DEF ExecOnce
<1> QED
  BY <1>1, <1>2, <1>3, <1>4, <1>5, <1>6, <1>7, <1>8 DEF ExecInv, ExecControl

\* What fork, wait and the loops do alike: a program that waits for its children.
LEMMA LoopSteps ==
  ASSUME ExecInv, NEW a \in {"next", "status", "prompt"}, a \in Mains(program),
         "wait" \in Mains(program),
         \/ X!Fork("wait")
         \/ \E s \in {"exit0", "exit1"} : X!ForkFails(s)
         \/ X!Reap(a)
         \/ X!NoChild
  PROVE  ExecInv'
<1>1. CASE X!Fork("wait")
  BY <1>1, ForkKeeps
<1>2. ASSUME NEW s \in {"exit0", "exit1"}, X!ForkFails(s) PROVE ExecInv'
  <2>1. /\ main = "fork" /\ X!Exits(s, <<>>)
        /\ UNCHANGED <<X!started, round, kid, ended, reaped, clock, struck>>
    BY <1>2 DEF X!ForkFails
  <2> QED
    BY <2>1, QuietEndKeeps DEF X!Exited, Childless
<1>3. CASE X!Reap(a)
  BY <1>3, ReapKeeps
<1>4. CASE X!NoChild
  <2>1. /\ main = "wait" /\ X!Exits("exit1", <<>>)
        /\ UNCHANGED <<X!started, round, kid, ended, reaped, clock, struck>>
    BY <1>4 DEF X!NoChild
  <2> QED
    BY <2>1, QuietEndKeeps DEF X!Exited
<1> QED
  BY <1>1, <1>2, <1>3, <1>4

LEMMA LoopingSteps ==
  ASSUME ExecInv, X!Exec \/ X!Execlp \/ X!Interp PROVE ExecInv'
<1>p. program \in Looping /\ program \notin Unreaped \cup {"wait"} /\ program # "proctime"
  BY DEF X!Exec, X!Execlp, X!Interp, Looping, Unreaped
<1>m. /\ "wait" \in Mains(program) /\ "next" \in Mains(program) /\ "fork" \in Mains(program)
      /\ 4 \in 0..(MaxCommands + 4) /\ 1 \in 0..(MaxCommands + 4)
  <2>1. "wait" \in Mains(program) /\ "next" \in Mains(program) /\ "fork" \in Mains(program)
    BY <1>p DEF Mains, X!Shells, Looping
  <2>2. 4 \in 0..(MaxCommands + 4) /\ 1 \in 0..(MaxCommands + 4)
    BY ProcessAssumption
  <2> QED
    BY <2>1, <2>2
<1>a. \/ X!Fork("wait")
      \/ \E s \in {"exit0", "exit1"} : X!ForkFails(s)
      \/ X!Reap("next")
      \/ X!NoChild
      \/ \E n \in {1, 4} : X!Another(n, "fork")
      \/ kid \in {"born", "search"} /\ \E found \in BOOLEAN : X!KidExecs(found, "1")
      \/ kid = "born" /\ round = 2 /\ X!KidExits("1", <<>>)
      \/ program = "exec" /\ (X!ExecSystem \/ X!ExportPath)
  <2>k. ASSUME NEW found, X!KidExecs(found, "1")
        PROVE  \E f \in BOOLEAN : X!KidExecs(f, "1")
    <3>1. CASE found
      BY <2>k, <3>1 DEF X!KidExecs
    <3>2. CASE ~found
      BY <2>k, <3>2 DEF X!KidExecs
    <3> QED
      BY <3>1, <3>2
  <2>1. CASE X!Exec
    BY <2>1, <2>k DEF X!Exec
  <2>2. CASE X!Execlp
    BY <2>2, <2>k DEF X!Execlp
  <2>3. CASE X!Interp
    BY <2>3, <2>k DEF X!Interp
  <2> QED
    BY <2>1, <2>2, <2>3
<1>1. CASE \/ X!Fork("wait")
           \/ \E s \in {"exit0", "exit1"} : X!ForkFails(s)
           \/ X!Reap("next")
           \/ X!NoChild
  BY <1>1, <1>m, LoopSteps
<1>2. ASSUME NEW n \in {1, 4}, X!Another(n, "fork") PROVE ExecInv'
  BY <1>2, <1>m, <1>p, AnotherKeeps
<1>3. ASSUME kid \in {"born", "search"}, NEW found \in BOOLEAN, X!KidExecs(found, "1") PROVE ExecInv'
  BY <1>3, <1>p, KidExecsKeeps
<1>4. CASE kid = "born" /\ X!KidExits("1", <<>>)
  BY <1>4, <1>p, QuietKidExitsKeeps DEF Alive, Statuses, Unreaped
<1>5. CASE program = "exec" /\ (X!ExecSystem \/ X!ExportPath)
  BY <1>5, KidPreparesKeeps
<1> QED
  BY <1>a, <1>1, <1>2, <1>3, <1>4, <1>5

LEMMA WaitSteps == ASSUME ExecInv, X!Wait PROVE ExecInv'
<1>p. program = "wait"
  BY DEF X!Wait
<1>m. /\ "wait" \in Mains(program) /\ "status" \in Mains(program) /\ "fork" \in Mains(program)
      /\ 3 \in 0..(MaxCommands + 4)
  <2>1. "wait" \in Mains(program) /\ "status" \in Mains(program) /\ "fork" \in Mains(program)
    BY <1>p DEF Mains, X!Shells, Looping
  <2>2. 3 \in 0..(MaxCommands + 4)
    BY ProcessAssumption
  <2> QED
    BY <2>1, <2>2
<1>a. \/ X!Fork("wait")
      \/ X!ForkFails("exit1")
      \/ X!Reap("status")
      \/ X!NoChild
      \/ X!PrExit
      \/ X!Another(3, "fork")
      \/ kid = "born" /\ round = 1 /\ X!KidExits("7", <<>>)
      \/ kid = "born" /\ \E s \in {"abrt", "fpe"} : X!KidDies(s)
      \/ kid = "born" /\ \E s \in {"abrt", "1"} : X!KidExits(s, <<>>)
  BY DEF X!Wait
<1>1. CASE \/ X!Fork("wait")
           \/ X!ForkFails("exit1")
           \/ X!Reap("status")
           \/ X!NoChild
  BY <1>1, <1>m, LoopSteps
<1>2. CASE X!PrExit
  BY <1>2, <1>p, PrExitKeeps
<1>3. CASE X!Another(3, "fork")
  BY <1>3, <1>m, <1>p, AnotherKeeps
<1>4. CASE kid = "born" /\ round = 1 /\ X!KidExits("7", <<>>)
  <2>1. image["kid"].held = <<>>
    BY <1>4, <1>p DEF ExecInv, ExecHeld
  <2> QED
    BY <1>4, <1>p, <2>1, QuietKidExitsKeeps DEF Alive, Statuses
<1>5. ASSUME kid = "born", NEW s \in {"abrt", "fpe"}, X!KidDies(s) PROVE ExecInv'
  BY <1>5, <1>p, KidDiesKeeps DEF Alive, Statuses
<1>6. ASSUME kid = "born", NEW s \in {"abrt", "1"}, X!KidExits(s, <<>>) PROVE ExecInv'
  BY <1>6, <1>p, QuietKidExitsKeeps DEF Alive, Statuses
<1> QED
  BY <1>a, <1>1, <1>2, <1>3, <1>4, <1>5, <1>6

\* fork.c, vfork.c and zombie.c do not wait.
LEMMA UnreapedSteps ==
  ASSUME ExecInv, X!ForkProgram \/ X!Vfork \/ X!Zombie PROVE ExecInv'
<1>f. ASSUME X!ForkFails("exit1") PROVE ExecInv'
  <2>1. /\ main = "fork" /\ X!Exits("exit1", <<>>)
        /\ UNCHANGED <<X!started, round, kid, ended, reaped, clock, struck>>
    BY <1>f DEF X!ForkFails
  <2> QED
    BY <2>1, QuietEndKeeps DEF X!Exited
<1>1. CASE X!ForkProgram
  <2>p. program = "fork" /\ "sleep" \in Mains(program)
    BY <1>1 DEF X!ForkProgram, Mains, X!Shells, Looping
  <2>1. CASE X!Before
    BY <2>1, <2>p, BeforeKeeps
  <2>2. CASE X!Fork("sleep")
    BY <2>2, <2>p, ForkKeeps
  <2>3. CASE kid = "born" /\ X!KidExits("0", X!Values("kid", image["kid"].glob + 1))
    BY <2>3, <2>p, KidValuesKeeps
  <2>4. CASE main = "sleep" /\ X!PrintValues
    BY <2>4, <2>p, PrintValuesKeeps
  <2> QED
    BY <1>1, <1>f, <2>1, <2>2, <2>3, <2>4 DEF X!ForkProgram
<1>2. CASE X!Vfork
  <2>p. program = "vfork" /\ "vforked" \in Mains(program)
    BY <1>2 DEF X!Vfork, Mains, X!Shells, Looping
  <2>1. CASE X!Before
    BY <2>1, <2>p, BeforeKeeps
  <2>2. CASE X!Fork("vforked")
    BY <2>2, <2>p, ForkKeeps
  <2>3. CASE X!VforkIncrement
    BY <2>3, <2>p, IncrementKeeps
  <2>4. CASE kid = "_exit" /\ X!KidDies("0")
    BY <2>4, KidDiesKeeps DEF Alive, Statuses
  <2>5. CASE main = "vforked" /\ kid \in {"zombie", "gone"} /\ X!PrintValues
    BY <2>5, <2>p, PrintValuesKeeps
  <2> QED
    BY <1>2, <1>f, <2>1, <2>2, <2>3, <2>4, <2>5 DEF X!Vfork
<1>3. CASE X!Zombie
  <2>p. program = "zombie" /\ "sleep" \in Mains(program)
    BY <1>3 DEF X!Zombie, Mains, X!Shells, Looping
  <2>1. CASE X!Fork("sleep")
    BY <2>1, <2>p, ForkKeeps
  <2>2. CASE kid = "born" /\ X!KidExits("0", <<>>)
    BY <2>2, <2>p, QuietKidExitsKeeps DEF Alive, Statuses
  <2>3. CASE /\ main = "sleep" /\ X!Exits("exit0", <<<<"ps", 0, kid>>>>)
             /\ UNCHANGED <<X!started, round, kid, ended, reaped, clock, struck>>
    BY <2>3, <2>p, PsKeeps
  <2> QED
    BY <1>3, <1>f, <2>1, <2>2, <2>3 DEF X!Zombie
<1> QED
  BY <1>1, <1>2, <1>3

LEMMA ProctimeSteps == ASSUME ExecInv, X!Proctime PROVE ExecInv'
<1>p. program = "proctime"
  BY DEF X!Proctime
<1>m. /\ "times" \in Mains(program) /\ "end" \in Mains(program) /\ "wait" \in Mains(program)
  BY <1>p DEF Mains, X!Shells, Looping
<1>n. PICK n \in 0..(MaxCommands + 4) : n = typed
  BY ProcessAssumption DEF ExecInv, ExecControl, ExecTypes
<1>1. CASE X!Another(typed, "times")
  <2>1. X!Another(n, "times")
    BY <1>1, <1>n
  <2> QED
    BY <2>1, <1>m, AnotherKeeps
<1>2. CASE X!Times \/ X!SystemFails
  BY <1>2, <1>p, TimesKeeps
<1>3. CASE X!Fork("wait")
  BY <1>3, <1>m, ForkKeeps
<1>4. CASE X!Reap("end")
  BY <1>4, <1>m, ReapKeeps
<1>5. CASE X!PrTimes
  BY <1>5, <1>p, PrTimesKeeps
<1>6. CASE kid = "born" /\ X!KidExecs(TRUE, "127")
  BY <1>6, <1>p, KidExecsKeeps DEF Unreaped
<1>7. CASE kid = "born" /\ X!KidDies("127")
  BY <1>7, <1>p, KidDiesKeeps DEF Alive, Statuses
<1> QED
  BY <1>1, <1>2, <1>3, <1>4, <1>5, <1>6, <1>7 DEF X!Proctime

LEMMA ShellSteps == ASSUME ExecInv, X!Myshell \/ X!SignalsShell PROVE ExecInv'
<1>p. program \in X!Shells /\ program \notin Unreaped \cup {"wait"} /\ X!Shell
  BY DEF X!Myshell, X!SignalsShell, X!Shells, Unreaped
<1>m. /\ "prompt" \in Mains(program) /\ "wait" \in Mains(program)
  BY <1>p DEF Mains, X!Shells, Looping
<1>1. CASE X!Prompt
  BY <1>1, <1>p, PromptKeeps
<1>2. CASE X!Fgets
  BY <1>2, <1>p, FgetsKeeps
<1>3. CASE X!Fork("wait") \/ X!ForkFails("exit1") \/ X!Reap("prompt") \/ X!NoChild
  BY <1>3, <1>m, LoopSteps
<1>4. CASE kid = "born" /\ \E found \in BOOLEAN : X!KidExecs(found, "127")
  BY <1>4, <1>p, KidExecsKeeps
<1> QED
  BY <1>p, <1>1, <1>2, <1>3, <1>4 DEF X!Shell

LEMMA ExecSteps == ASSUME ExecInv, X!ForkExecNext PROVE ExecInv'
<1>k. kid \in Kids
  BY DEF ExecInv, ExecControl, ExecTypes
<1>1. CASE X!CommandEnds
  <2>1. kid = "command" /\ X!KidDies("0")
    BY <1>1 DEF X!CommandEnds
  <2> QED
    BY <2>1, KidDiesKeeps DEF Alive, Statuses
<1>2. CASE X!KidKilled
  <2>1. kid \notin {"none", "zombie", "gone"} /\ X!KidDies("killed")
    BY <1>2 DEF X!KidKilled
  <2>2. kid \in Alive /\ "killed" \in Statuses
    BY <1>k, <2>1 DEF Kids, Alive, Statuses
  <2> QED
    BY <2>1, <2>2, KidDiesKeeps
<1> QED
  BY <1>1, <1>2, LoopingSteps, WaitSteps, UnreapedSteps, ProctimeSteps, ShellSteps,
     InterruptKeeps, SignalsInterruptKeeps DEF X!ForkExecNext, X!ForkExecRun

\* What follows from it.
LEMMA ExecTyped == ASSUME ExecInv PROVE X!ForkExecTypeOK
<1>i. ExecTypes
  BY DEF ExecInv, ExecControl
<1>1. \A p \in {"main", "kid", "sh"} : image[p].glob \in 6..7 /\ image[p].path \in BOOLEAN
  BY <1>i, TextTypes
<1>2. /\ kid \in {"none", "born", "system", "search", "command", "_exit", "zombie", "gone"}
      /\ round \in 0..(MaxCommands + 4) /\ struck \in 0..MaxInterrupts
  BY <1>i DEF ExecTypes, Kids
<1> QED
  BY <1>1, <1>2 DEF X!ForkExecTypeOK

LEMMA ExecAccounted == ASSUME ExecInv PROVE X!ReapedInOrder /\ X!ZombieShown
<1>i. ExecTypes /\ ExecKids /\ ExecReaped /\ ExecTexts
  BY DEF ExecInv, ExecControl
<1>t. reaped \in Seq(Ends) /\ ended \in Seq(Ends) /\ out \in Seq(Texts)
  BY <1>i DEF ExecTypes
<1>d. /\ DOMAIN reaped = 1..Len(reaped) /\ DOMAIN out = 1..Len(out)
      /\ Len(reaped) \in Nat /\ Len(ended) \in Nat
  BY <1>t
<1>1. Len(reaped) <= Len(ended) /\ \A i \in 1..Len(reaped) : reaped[i] = ended[i]
  <2>1. CASE ignoring
    <3>1. reaped = <<>>
      BY <2>1, <1>i DEF ExecReaped
    <3>2. Len(reaped) = 0
      BY <3>1
    <3> QED
      BY <3>2, <1>d
  <2>2. CASE reaped = ended
    BY <2>2, <1>d
  <2>3. CASE ~ignoring /\ kid \in {"zombie", "gone"}
    <3>1. \E e \in Ends : ended = Append(reaped, e)
      <4>1. CASE kid = "zombie"
        <5>1. PICK s \in Statuses : ended = Append(reaped, <<round, s>>)
          BY <2>3, <4>1, <1>i DEF ExecReaped
        <5>2. <<round, s>> \in Ends
          BY <1>i, ProcessAssumption DEF ExecTypes, Ends
        <5> QED
          BY <5>1, <5>2
      <4>2. CASE kid = "gone"
        BY <2>3, <4>2, <1>i DEF ExecReaped
      <4> QED
        BY <2>3, <4>1, <4>2
    <3>2. PICK e \in Ends : ended = Append(reaped, e)
      BY <3>1
    <3>3. Len(ended) = Len(reaped) + 1 /\ \A i \in 1..Len(reaped) : ended[i] = reaped[i]
      BY <3>2, <1>t, OneMore
    <3> QED
      BY <3>3, <1>d
  <2>4. kid \in Kids
    BY <1>i DEF ExecTypes
  <2>5. ~ignoring /\ kid \in {"none"} \cup Alive => reaped = ended
    BY <1>i DEF ExecReaped
  <2> QED
    BY <2>1, <2>2, <2>3, <2>4, <2>5 DEF Kids, Alive
<1>2. main = "exit0" /\ ~ignoring /\ program \notin {"fork", "vfork", "zombie"} => reaped = ended
  BY <1>i DEF ExecKids, ExecReaped, Unreaped
<1>3. ASSUME ~ignoring, NEW i \in 1..Len(out)
      PROVE  out[i] \notin {<<"ps", 0, "gone">>, <<"ps", 0, "none">>}
  <2>1. Listed(out[i])
    BY <1>i DEF ExecTexts, AllTexts, Elems, Proper
  <2> QED
    BY <2>1, <1>3 DEF Listed
<1> QED
  BY <1>1, <1>2, <1>3, <1>d DEF X!ReapedInOrder, X!ZombieShown

LEMMA ExecTold == ASSUME ExecInv PROVE X!ShownOfChild /\ X!WrittenOnce /\ X!ValuesOfImage
<1>i. ExecTypes /\ ExecTexts /\ ExecOnce
  BY DEF ExecInv, ExecControl
<1>t. reaped \in Seq(Ends) /\ ended \in Seq(Ends) /\ out \in Seq(Texts)
  BY <1>i DEF ExecTypes
<1>d. /\ DOMAIN reaped = 1..Len(reaped) /\ DOMAIN out = 1..Len(out)
      /\ DOMAIN ended = 1..Len(ended)
  BY <1>t
<1>p. \A i \in 1..Len(out) : Shown(out[i]) /\ Valued(out[i])
  BY <1>i DEF ExecTexts, AllTexts, Elems, Proper
<1>1. X!ShownOfChild
  <2> SUFFICES ASSUME NEW i \in 1..Len(out), out[i][1] \in {"status", "times"}
               PROVE  \E j \in 1..Len(reaped) : reaped[j] = <<out[i][2], out[i][3]>>
    BY <1>d DEF X!ShownOfChild
  <2> QED
    BY <1>p DEF Shown
<1>2. X!ValuesOfImage
  <2> SUFFICES ASSUME NEW i \in 1..Len(out), out[i][1] = "values"
               PROVE  \/ out[i][2] = IF program = "vfork" \/ out[i][3] = "kid" THEN 7 ELSE 6
                      \/ program = "vfork" /\ \E j \in 1..Len(ended) : ended[j] = <<1, "killed">>
    BY <1>d DEF X!ValuesOfImage
  <2> QED
    BY <1>p DEF Valued, Killed1
<1>3. X!WrittenOnce
  <2> SUFFICES ASSUME NEW i \in 1..Len(out), NEW j \in 1..Len(out), i < j, out[i] = out[j]
               PROVE  IF tty THEN out[i][1] = "prompt" /\ out[i][2] >= 100
                      ELSE \E k \in 1..Len(ended) : ended[k][2] \in {"0", "1", "127", "abrt"}
    BY <1>d DEF X!WrittenOnce
  <2>1. ASSUME tty \/ ~Copied PROVE Exempt(out[i], tty)
    BY <2>1, <1>i DEF ExecOnce, AllOnce, Once
  <2>2. CASE tty
    BY <2>1, <2>2 DEF Exempt
  <2>3. CASE ~tty
    <3>1. Copied
      BY <2>1, <2>3 DEF Exempt
    <3> QED
      BY <2>3, <3>1 DEF Copied
  <2> QED
    BY <2>2, <2>3
<1> QED
  BY <1>1, <1>2, <1>3

\* And of a step: an interrupt in signals.c ends a command and is told.
LEMMA ExecInterrupts == ASSUME ExecInv, X!ForkExecNext PROVE X!InterruptEndsCommand
<1> SUFFICES ASSUME program = "signals", struck' # struck
             PROVE  /\ main' = main /\ kid' \notin {"command"}
                    /\ kid # "command" => kid' = kid
                    /\ \E i \in DOMAIN out' : out'[i] = <<"interrupt", struck, "main">>
  BY DEF X!InterruptEndsCommand
<1>1. X!SignalsInterrupt
  <2>1. X!SignalsShell \/ X!CommandEnds \/ X!KidKilled => struck' = struck
    BY DEF X!SignalsShell, X!Shell, X!Prompt, X!Fgets, X!Fork, X!ForkFails, X!Reap, X!NoChild,
           X!KidExecs, X!KidExits, X!KidDies, X!Dies, X!CommandEnds, X!KidKilled
  <2>2. ~X!Exec /\ ~X!Execlp /\ ~X!Interp /\ ~X!Wait /\ ~X!ForkProgram /\ ~X!Vfork /\ ~X!Zombie
        /\ ~X!Proctime /\ ~X!Myshell /\ ~X!Interrupt
    BY DEF X!Exec, X!Execlp, X!Interp, X!Wait, X!ForkProgram, X!Vfork, X!Zombie, X!Proctime,
           X!Myshell, X!Interrupt
  <2> QED
    BY <2>1, <2>2 DEF X!ForkExecNext, X!ForkExecRun
<1>i. ExecTypes
  BY DEF ExecInv, ExecControl
<1>n. PICK n \in Nat : n = struck
  BY <1>i, ProcessAssumption DEF ExecTypes
<1> DEFINE t == <<"interrupt", n, "main">>
           h == image["main"].held
           k == image["kid"].held
           l == <<t>>
           j == <<<<"interrupt", n, "kid">>>>
<1>a. \/ out' = out \o (h \o l)
      \/ out' = (out \o (h \o l)) \o (k \o j)
  BY <1>1, <1>n DEF X!SignalsInterrupt, X!Notice
<1>b. main' = main /\ kid' \notin {"command"} /\ (kid # "command" => kid' = kid)
  BY <1>1 DEF X!SignalsInterrupt
<1>t. t \in Texts /\ <<"interrupt", n, "kid">> \in Texts
  BY DEF Texts, Kinds
<1>y. out \in Seq(Texts) /\ h \in Seq(Texts) /\ k \in Seq(Texts)
  BY <1>i, TextTypes
<1> HIDE DEF t, h, k
<1>l. l \in Seq(Texts) /\ j \in Seq(Texts)
  BY <1>t
<1>e. Elems(l) = {t}
  BY ElemsOfOne
<1> HIDE DEF l, j
<1> DEFINE g == h \o l
           f == k \o j
<1>g. g \in Seq(Texts) /\ t \in Elems(g) /\ f \in Seq(Texts)
  BY <1>y, <1>l, <1>e, ElemsOfJoined
<1> HIDE DEF g, f
<1> DEFINE o == out \o g
<1>o. o \in Seq(Texts) /\ t \in Elems(o)
  BY <1>y, <1>g, ElemsOfJoined
<1>c. out' = o \/ out' = o \o f
  BY <1>a DEF g, f
<1> HIDE DEF o
<1>d. out' \in Seq(Texts) /\ t \in Elems(out')
  <2>1. o \o f \in Seq(Texts) /\ t \in Elems(o \o f)
    BY <1>g, <1>o, ElemsOfJoined
  <2> QED
    BY <1>c, <1>o, <2>1
<1>f. \E i \in DOMAIN out' : out'[i] = t
  <2>1. DOMAIN out' = 1..Len(out')
    BY <1>d
  <2> QED
    BY <1>d, <2>1 DEF Elems
<1> QED
  BY <1>b, <1>f, <1>n DEF t

------------------------------------------------------------------------------
(* The walk of a tree *)

\* A set of numbers has a least one.
LEMMA LeastExists ==
  ASSUME NEW N, N \subseteq Nat, N # {} PROVE \E x \in N : \A y \in N : x <= y
<1> DEFINE less == {p \in Nat \X Nat : p[1] < p[2]}
<1>1. IsWellFoundedOn(less, Nat)
  BY NatLessThanWellFounded DEF OpToRel
<1>2. \A x, y \in Nat : <<y, x>> \in less <=> y < x
  OBVIOUS
<1>3. PICK x \in N : \A y \in N : ~(<<y, x>> \in less)
  <2> HIDE DEF less
  <2> QED
    BY <1>1, WFMin
<1>4. \A y \in N : ~(y < x)
  <2> HIDE DEF less
  <2> QED
    BY <1>2, <1>3
<1> QED
  BY <1>4

\* The parts of the paths that dopath() makes.
Parts == T!Entries \cup {""}

\* What the parts of a path lead to, one after the other.
LEMMA TrailLeads ==
  ASSUME NEW p \in Seq(Parts)
  PROVE  /\ 1 <= Len(p) => T!Trail(p)[1] = "top"
         /\ \A i \in 2..Len(p) : T!Trail(p)[i] = T!Below(T!Trail(p)[i - 1], p[i])
<1>n. Len(p) \in Nat
  OBVIOUS
<1> DEFINE Leads(k, g) == g = [i \in 1..k |-> IF i = 1 THEN "top" ELSE T!Below(g[i - 1], p[i])]
           Lost == {k \in Nat : ~\E g : Leads(k, g)}
<1>1. Lost = {}
  <2> SUFFICES ASSUME Lost # {} PROVE FALSE
    OBVIOUS
  <2>1. PICK k \in Lost : \A j \in Lost : k <= j
    BY LeastExists
  <2>2. CASE k = 0
    <3> DEFINE g == [i \in 1..0 |-> ""]
    <3>1. 1..0 = {}
      OBVIOUS
    <3>2. Leads(0, g)
      BY <3>1
    <3> QED
      BY <2>1, <2>2, <3>2
  <2>3. CASE k # 0
    <3>1. k - 1 \in Nat /\ k \in Nat /\ ~(k <= k - 1)
      BY <2>1, <2>3
    <3>2. k - 1 \notin Lost
      BY <2>1, <3>1
    <3>3. PICK g : Leads(k - 1, g)
      BY <3>1, <3>2
    <3> DEFINE h == [i \in 1..k |-> IF i = k THEN IF k = 1 THEN "top" ELSE T!Below(g[k - 1], p[k])
                                             ELSE g[i]]
    <3>4. ASSUME NEW i \in 1..k
          PROVE  h[i] = IF i = 1 THEN "top" ELSE T!Below(h[i - 1], p[i])
      <4>1. CASE i = k /\ k = 1
        BY <4>1
      <4>2. CASE i = k /\ k # 1
        <5>1. k - 1 \in 1..k /\ k - 1 # k
          BY <3>1, <4>2
        <5>2. h[k - 1] = g[k - 1]
          BY <5>1
        <5> QED
          BY <4>2, <5>2
      <4>3. CASE i # k
        <5>1. i \in 1..(k - 1) /\ h[i] = g[i]
          BY <3>1, <4>3
        <5>2. g[i] = IF i = 1 THEN "top" ELSE T!Below(g[i - 1], p[i])
          BY <3>3, <5>1
        <5>3. i # 1 => i - 1 \in 1..k /\ i - 1 # k /\ h[i - 1] = g[i - 1]
          BY <3>1, <5>1
        <5> HIDE DEF h
        <5> QED
          BY <5>1, <5>2, <5>3
      <4> QED
        BY <4>1, <4>2, <4>3
    <3>5. Leads(k, h)
      <4>1. DOMAIN h = 1..k /\ h = [i \in 1..k |-> h[i]]
        OBVIOUS
      <4> HIDE DEF h
      <4>2. [i \in 1..k |-> h[i]] = [i \in 1..k |-> IF i = 1 THEN "top" ELSE T!Below(h[i - 1], p[i])]
        BY <3>4
      <4> QED
        BY <4>1, <4>2
    <3> QED
      BY <2>1, <3>5
  <2> QED
    BY <2>2, <2>3
<1>2. \E g : Leads(Len(p), g)
  BY <1>1, <1>n
<1>3. T!Trail(p) = CHOOSE g : Leads(Len(p), g)
  BY DEF T!Trail
<1>4. Leads(Len(p), T!Trail(p))
  BY <1>2, <1>3
<1> DEFINE t == T!Trail(p)
<1>5. ASSUME NEW i \in 1..Len(p)
      PROVE  t[i] = IF i = 1 THEN "top" ELSE T!Below(t[i - 1], p[i])
  <2> HIDE DEF t
  <2>1. t = [j \in 1..Len(p) |-> IF j = 1 THEN "top" ELSE T!Below(t[j - 1], p[j])]
    BY <1>4 DEF t
  <2> QED
    BY <2>1
<1>6. 1 <= Len(p) => 1 \in 1..Len(p)
  BY <1>n
<1>7. \A i \in 2..Len(p) : i \in 1..Len(p) /\ i # 1
  BY <1>n
<1> QED
  BY <1>5, <1>6, <1>7

\* The tree that the other process changes.
WalkPlaces ==
  /\ place \in [T!Entries -> {<<>>} \cup (T!Dirs \X T!Entries)] /\ place["top"] = <<>>
  /\ place["d"] \in {<<>>} \cup ({"top"} \X {"d", "f"})
  /\ \A x, y \in T!Entries : place[x] = place[y] /\ place[x] # <<>> => x = y
  /\ touched \subseteq T!Entries \ {"top"} /\ changes \in 0..MaxChanges
  /\ \A x \in T!Entries \ (touched \cup {"top"}) : place[x] # <<>>
  /\ "d" \notin touched => place["d"] = <<"top", "d">>

Activations == [dir : T!Dirs, ptr : Nat, given : SUBSET (T!Entries \cup {".."}),
                path : Seq(T!Entries), first : SUBSET T!Entries]
WalkTypes ==
  /\ walk \in {"lstat", "opendir", "readdir", "done"}
  /\ frames \in Seq(Activations) /\ Len(frames) <= MaxOpen
  /\ counted \in [T!Entries -> Nat] /\ unread \subseteq T!Entries \cup {T!None}
  /\ fullpath \in Seq(Parts) /\ followed \in BOOLEAN

\* The buffer, and what each activation has of it.
WalkPath ==
  /\ Len(fullpath) >= 1 /\ fullpath[1] = "top"
  /\ \A i \in 1..Len(fullpath) : fullpath[i] = "" => i = Len(fullpath)
  /\ walk = "lstat" => Len(fullpath) = Len(frames) + 1 /\ fullpath[Len(fullpath)] # ""
  /\ walk = "opendir" => Len(fullpath) = Len(frames) + 2 /\ fullpath[Len(fullpath)] = ""
  /\ walk = "readdir" => Len(frames) >= 1 /\ Len(fullpath) >= Len(frames)
  /\ walk = "done" => /\ Len(frames) = 0
                      /\ Len(fullpath) = 1 \/ (Len(fullpath) = 2 /\ fullpath[2] = "")

WalkFrames ==
  \A i \in 1..Len(frames) :
    /\ frames[i].ptr = i /\ Len(frames[i].path) = i
    /\ i <= Len(fullpath)
    /\ \A j \in 1..i : frames[i].path[j] = fullpath[j]
    /\ i + 1 <= Len(fullpath) /\ fullpath[i + 1] # "" => fullpath[i + 1] \in frames[i].given
    /\ i = 1 => frames[i].dir = "top"
    /\ i = 2 /\ "d" \notin touched /\ fullpath[2] = "d" => frames[i].dir = "d"

\* Whether the walk has still to come to a name in the first directory, to one in the
\* directory below it, or to a file that nobody has disturbed.
Coming(m) ==
  \/ Len(frames) = 0 /\ walk \in {"lstat", "opendir"}
  \/ Len(frames) >= 1 /\ m \notin frames[1].given
  \/ walk = "lstat" /\ Len(fullpath) = 2 /\ fullpath[2] = m
ComingBelow(m) ==
  \/ Coming("d")
  \/ walk = "opendir" /\ Len(fullpath) = 3 /\ fullpath[2] = "d"
  \/ Len(frames) >= 2 /\ fullpath[2] = "d" /\ m \notin frames[2].given
  \/ walk = "lstat" /\ Len(fullpath) = 3 /\ fullpath[2] = "d" /\ fullpath[3] = m
Expected(x) ==
  IF x = "top" THEN walk = "lstat" /\ Len(frames) = 0
  ELSE IF place[x][1] = "top" THEN Coming(place[x][2]) ELSE ComingBelow(place[x][2])

WalkLeast ==
  \A x \in T!Undisturbed : T!Above(x) \cap unread = {} => counted[x] >= 1 \/ Expected(x)
WalkMost ==
  ~followed => \A x \in T!Undisturbed : counted[x] <= 1 /\ (Expected(x) => counted[x] = 0)

WalkInv == WalkPlaces /\ WalkTypes /\ WalkPath /\ WalkFrames /\ WalkLeast /\ WalkMost

LEMMA FewOrMore ==
  ASSUME NEW n \in Nat, n >= 1
  PROVE  /\ n = 1 \/ n >= 2
         /\ n >= 2 => n = 2 \/ n >= 3
         /\ n >= 3 /\ n # 3 => n - 2 \in 2..n
OBVIOUS

LEMMA Counting ==
  ASSUME NEW n \in Nat
  PROVE  /\ n = 0 \/ n >= 1
         /\ n >= 1 => n = 1 \/ n >= 2
         /\ n >= 2 => n = 2 \/ n >= 3
         /\ n + 1 >= 1 /\ n + 2 >= n /\ n + 2 >= 1 /\ n + 1 >= n
         /\ (n + 1) + 1 = n + 2 /\ n + 1 <= n + 2
         /\ (n + 2) - 1 = n + 1 /\ n + 1 \in 0..(n + 2) /\ n \in 0..n /\ n + 1 \in 1..(n + 2)
         /\ n + 2 = 3 <=> n = 1
         /\ n + 1 = 2 <=> n = 1
         /\ n + 1 = 3 <=> n = 2
         /\ n + 2 = 2 <=> n = 0
         /\ n + 1 = 1 <=> n = 0
         /\ n >= 1 => n - 1 \in Nat /\ n - 1 \in 0..n /\ 1 \in 1..n /\ n \in 1..n /\ n >= n - 1
         /\ n >= 2 => 2 \in 1..n
         /\ \A i \in 1..n : i \in 1..(n + 1) /\ i \in 1..(n + 2) /\ i + 1 \in 1..(n + 1)
OBVIOUS

\* Two sequences with the same elements.
LEMMA SameSequence ==
  ASSUME NEW A, NEW a \in Seq(A), NEW B, NEW b \in Seq(B), Len(a) = Len(b),
         \A i \in 1..Len(a) : a[i] = b[i]
  PROVE  a = b
<1>1. a = [i \in 1..Len(a) |-> a[i]] /\ b = [i \in 1..Len(b) |-> b[i]]
  BY Elements
<1> QED
  BY <1>1

\* The first of a sequence.
LEMMA Shortened ==
  ASSUME NEW A, NEW a \in Seq(A), NEW n \in 0..Len(a)
  PROVE  /\ SubSeq(a, 1, n) \in Seq(A) /\ Len(SubSeq(a, 1, n)) = n
         /\ \A i \in 1..n : SubSeq(a, 1, n)[i] = a[i]
OBVIOUS

LEMMA Replaced ==
  ASSUME NEW A, NEW a \in Seq(A), NEW n \in 1..Len(a), NEW e \in A
  PROVE  /\ [a EXCEPT ![n] = e] \in Seq(A) /\ Len([a EXCEPT ![n] = e]) = Len(a)
         /\ [a EXCEPT ![n] = e][n] = e
         /\ \A i \in 1..Len(a) : i # n => [a EXCEPT ![n] = e][i] = a[i]
OBVIOUS

\* One component further.
LEMMA NameLeads ==
  ASSUME WalkPlaces, NEW d \in T!Dirs, NEW m \in T!Names(d)
  PROVE  /\ (CHOOSE y \in T!Entries : place[y] = <<d, m>>) \in T!Entries
         /\ place[CHOOSE y \in T!Entries : place[y] = <<d, m>>] = <<d, m>>
<1>1. PICK y \in T!Entries : place[y] # <<>> /\ place[y][1] = d /\ place[y][2] = m
  BY DEF T!Names
<1>2. place[y] \in T!Dirs \X T!Entries
  BY <1>1 DEF WalkPlaces
<1>3. place[y] = <<d, m>>
  BY <1>1, <1>2
<1> QED
  BY <1>3

LEMMA BelowNames ==
  ASSUME NEW x, NEW m \in T!Entries
  PROVE  /\ T!Target(x) \in T!Dirs /\ m \in T!Names(T!Target(x)) =>
              T!Below(x, m) = CHOOSE y \in T!Entries : place[y] = <<T!Target(x), m>>
         /\ ~(T!Target(x) \in T!Dirs /\ m \in T!Names(T!Target(x))) => T!Below(x, m) = T!None
<1>1. m \notin {"", ".", ".."}
  BY DEF T!Entries, T!Dirs
<1> QED
  BY <1>1 DEF T!Below

LEMMA BelowTyped ==
  ASSUME WalkPlaces, NEW x, NEW m \in Parts
  PROVE  T!Below(x, m) \in T!Entries \cup {T!None}
<1>1. CASE m \in T!Entries
  BY <1>1, BelowNames, NameLeads
<1>2. CASE m = ""
  <2> DEFINE d == T!Target(x)
  <2>1. T!Below(x, m) = IF d \notin T!Dirs THEN T!None ELSE d
    BY <1>2 DEF T!Below
  <2>2. T!Dirs \subseteq T!Entries
    BY DEF T!Entries
  <2> HIDE DEF d
  <2> QED
    BY <2>1, <2>2
<1> QED
  BY <1>1, <1>2 DEF Parts

LEMMA BelowIs ==
  ASSUME WalkPlaces, NEW x \in T!Entries, NEW d \in T!Dirs, NEW m \in T!Entries, place[x] = <<d, m>>
  PROVE  T!Below(d, m) = x
<1>1. T!Target(d) = d
  BY DEF T!Target, T!Dirs
<1>2. m \in T!Names(d)
  <2>1. place[x] # <<>> /\ place[x][1] = d /\ place[x][2] = m
    OBVIOUS
  <2> QED
    BY <2>1 DEF T!Names
<1>3. T!Below(d, m) = CHOOSE y \in T!Entries : place[y] = <<d, m>>
  BY <1>1, <1>2, BelowNames
<1>4. \A y \in T!Entries : place[y] = <<d, m>> => y = x
  <2>1. <<d, m>> # <<>>
    OBVIOUS
  <2> QED
    BY <2>1 DEF WalkPlaces
<1> QED
  BY <1>2, <1>3, <1>4, NameLeads

LEMMA BelowWas ==
  ASSUME WalkPlaces, NEW x, NEW m \in T!Entries, T!Below(x, m) # T!None
  PROVE  /\ T!Below(x, m) \in T!Entries /\ T!Target(x) \in T!Dirs
         /\ place[T!Below(x, m)] = <<T!Target(x), m>>
BY BelowNames, NameLeads

\* The file that a path leads to.
LEMMA FileFound ==
  ASSUME WalkPlaces, NEW p \in Seq(Parts), Len(p) >= 1
  PROVE  /\ T!File(p) \in T!Entries \cup {T!None}
         /\ Len(p) = 1 => T!File(p) = "top"
         /\ Len(p) = 2 => T!File(p) = T!Below("top", p[2])
         /\ Len(p) = 3 => T!File(p) = T!Below(T!Below("top", p[2]), p[3])
<1>n. Len(p) \in Nat /\ \A i \in 1..Len(p) : p[i] \in Parts
  OBVIOUS
<1> DEFINE t == T!Trail(p)
<1>1. t[1] = "top" /\ T!File(p) = t[Len(p)]
  BY TrailLeads DEF T!File
<1>2. \A i \in 2..Len(p) : t[i] = T!Below(t[i - 1], p[i])
  BY TrailLeads
<1> HIDE DEF t
<1>3. "top" \in T!Entries
  BY DEF T!Entries, T!Dirs
<1>4. Len(p) >= 2 => t[2] = T!Below("top", p[2])
  <2>1. Len(p) >= 2 => 2 \in 2..Len(p) /\ 2 - 1 = 1
    BY <1>n
  <2> QED
    BY <2>1, <1>1, <1>2
<1>5. Len(p) >= 3 => t[3] = T!Below(t[2], p[3])
  <2>1. Len(p) >= 3 => 3 \in 2..Len(p) /\ 3 - 1 = 2
    BY <1>n
  <2> QED
    BY <2>1, <1>2
<1>6. Len(p) >= 2 => t[Len(p)] \in T!Entries \cup {T!None}
  <2> SUFFICES ASSUME Len(p) >= 2 PROVE t[Len(p)] \in T!Entries \cup {T!None}
    OBVIOUS
  <2>1. Len(p) \in 2..Len(p) /\ p[Len(p)] \in Parts
    BY <1>n
  <2>2. t[Len(p)] = T!Below(t[Len(p) - 1], p[Len(p)])
    BY <2>1, <1>2
  <2> QED
    BY <2>1, <2>2, BelowTyped
<1>7. Len(p) = 1 \/ Len(p) >= 2
  BY <1>n, FewOrMore
<1>8. T!File(p) \in T!Entries \cup {T!None}
  BY <1>1, <1>3, <1>6, <1>7
<1>9. Len(p) = 3 => t[2] = T!Below("top", p[2]) /\ t[3] = T!Below(t[2], p[3])
  BY <1>4, <1>5
<1>10. Len(p) = 2 => t[2] = T!Below("top", p[2])
  BY <1>4
<1>11. Len(p) = 1 => T!File(p) = "top"
  BY <1>1
<1>12. Len(p) = 2 => T!File(p) = t[2]
  BY <1>1
<1>13. Len(p) = 3 => T!File(p) = t[3]
  BY <1>1
<1> QED
  BY <1>8, <1>9, <1>10, <1>11, <1>12, <1>13

\* Without links there is one path to a file.
LEMMA OnePath ==
  ASSUME WalkPlaces, NEW p \in Seq(Parts), Len(p) >= 1,
         \A i \in 2..Len(p) : p[i] \in T!Entries, ~T!Links(p),
         NEW x \in T!Entries, T!File(p) = x
  PROVE  \/ Len(p) = 1 /\ x = "top"
         \/ Len(p) = 2 /\ place[x] = <<"top", p[2]>>
         \/ Len(p) = 3 /\ place[x] = <<"d", p[3]>> /\ place["d"] = <<"top", p[2]>>
<1>n. Len(p) \in Nat /\ x # T!None /\ place["top"] = <<>>
  BY DEF T!Entries, T!Dirs, T!None, WalkPlaces
<1> DEFINE t == T!Trail(p)
<1>t. t[1] = "top" /\ t[Len(p)] = x
  BY TrailLeads DEF T!File
<1>l. \A i \in 1..(Len(p) - 1) : t[i] # "link"
  BY DEF T!Links
<1>b. \A i \in 2..Len(p) : t[i] = T!Below(t[i - 1], p[i])
  BY TrailLeads
<1> HIDE DEF t
\* What is below a directory.
<1>1. ASSUME NEW i \in 2..Len(p), NEW y, t[i] = y, y # T!None
      PROVE  /\ y \in T!Entries /\ t[i - 1] \in T!Dirs /\ place[y] = <<t[i - 1], p[i]>>
             /\ y # "top" /\ (y = "d" => t[i - 1] = "top")
  <2>1. y \in T!Entries /\ T!Target(t[i - 1]) \in T!Dirs /\ place[y] = <<T!Target(t[i - 1]), p[i]>>
    <3>1. t[i] = T!Below(t[i - 1], p[i]) /\ p[i] \in T!Entries
      BY <1>b
    <3> QED
      BY <1>1, <3>1, BelowWas
  <2>2. i - 1 \in 1..(Len(p) - 1)
    BY <1>n
  <2>3. T!Target(t[i - 1]) = t[i - 1]
    BY <2>2, <1>l DEF T!Target
  <2>4. <<T!Target(t[i - 1]), p[i]>> # <<>>
    OBVIOUS
  <2>5. y # "top"
    BY <2>1, <2>4, <1>n
  <2>6. y = "d" => t[i - 1] = "top"
    <3>1. place["d"] \in {<<>>} \cup ({"top"} \X {"d", "f"})
      BY DEF WalkPlaces
    <3>2. place["d"] # <<>> => place["d"][1] = "top"
      BY <3>1
    <3>3. <<t[i - 1], p[i]>>[1] = t[i - 1]
      OBVIOUS
    <3> QED
      BY <2>1, <2>3, <2>4, <3>2, <3>3
  <2> QED
    BY <2>1, <2>3, <2>5, <2>6
<1>2. CASE Len(p) = 1
  BY <1>2, <1>t
<1>3. CASE Len(p) >= 2
  <2>1. Len(p) \in 2..Len(p)
    BY <1>3, <1>n
  <2>2. t[Len(p) - 1] \in T!Dirs /\ place[x] = <<t[Len(p) - 1], p[Len(p)]>>
    BY <2>1, <1>1, <1>t, <1>n
  <2>3. CASE Len(p) = 2
    BY <2>2, <2>3, <1>t
  <2>4. CASE Len(p) >= 3
    <3> DEFINE k == Len(p) - 1
    <3>0. k \in 2..Len(p) /\ k - 1 \in 1..(Len(p) - 1)
      BY <2>4, <1>n
    <3>1. t[k] \in {"top", "d"}
      BY <2>2 DEF T!Dirs
    <3>2. t[k] # T!None
      BY <3>1 DEF T!None
    <3>3. t[k] # "top" /\ (t[k] = "d" => t[k - 1] = "top") /\ place[t[k]] = <<t[k - 1], p[k]>>
      BY <1>1, <3>0, <3>2
    <3>4. t[k] = "d" /\ t[k - 1] = "top"
      BY <3>1, <3>3
    <3>5. CASE k = 2
      <4>1. Len(p) = 3
        BY <3>5, <1>n
      <4> QED
        BY <2>2, <3>3, <3>4, <3>5, <4>1
    <3>6. CASE k # 2
      <4>1. k - 1 \in 2..Len(p)
        <5>1. Len(p) # 3 /\ k - 1 = Len(p) - 2
          BY <3>6, <1>n
        <5> QED
          BY <5>1, <2>4, <1>n, FewOrMore
      <4>2. t[k - 1] # "top"
        BY <1>1, <3>4, <4>1 DEF T!None
      <4> QED
        BY <3>4, <4>2
    <3> QED
      BY <3>5, <3>6
  <2>5. Len(p) = 2 \/ Len(p) >= 3
    BY <1>3, <1>n, FewOrMore
  <2> QED
    BY <2>3, <2>4, <2>5
<1>4. Len(p) = 1 \/ Len(p) >= 2
  BY <1>n, FewOrMore
<1> QED
  BY <1>2, <1>3, <1>4

\* The walk starts.
LEMMA WalkStarts == T!Init => WalkInv
<1> SUFFICES ASSUME T!Init PROVE WalkInv
  OBVIOUS
<1>1. /\ place \in [T!Entries -> {<<>>} \cup (T!Dirs \X T!Entries)] /\ place["top"] = <<>>
      /\ place["d"] = <<"top", "d">>
      /\ \A x \in {"f", "link"} : place[x] \in T!Dirs \X {x}
  BY DEF T!Init
<1>2. /\ walk = "lstat" /\ fullpath = <<"top">> /\ frames = <<>>
      /\ counted = [x \in T!Entries |-> 0] /\ unread = {} /\ followed = FALSE
      /\ touched = {} /\ changes = 0
  BY DEF T!Init
<1>3. WalkPlaces
  <2>1. T!Entries = {"top", "d", "f", "link"}
    BY DEF T!Entries, T!Dirs
  <2>2. place["f"] # <<>> /\ place["f"][2] = "f" /\ place["link"] # <<>> /\ place["link"][2] = "link"
        /\ place["d"][2] = "d" /\ place["d"] # <<>>
    BY <1>1
  <2>3. ASSUME NEW x \in T!Entries, NEW y \in T!Entries, place[x] = place[y], place[x] # <<>>
        PROVE  x = y
    BY <2>1, <2>2, <2>3, <1>1
  <2>4. place["d"] \in {<<>>} \cup ({"top"} \X {"d", "f"})
    BY <1>1
  <2>5. \A x \in T!Entries \ (touched \cup {"top"}) : place[x] # <<>>
    BY <2>1, <2>2
  <2>6. touched \subseteq T!Entries \ {"top"} /\ changes \in 0..MaxChanges
    BY <1>2, ProcessAssumption
  <2> QED
    BY <1>1, <2>3, <2>4, <2>5, <2>6 DEF WalkPlaces
<1>4. Len(frames) = 0 /\ Len(fullpath) = 1 /\ fullpath[1] = "top"
  BY <1>2
<1>5. WalkTypes
  <2>1. "top" \in Parts
    BY DEF Parts, T!Entries, T!Dirs
  <2>2. fullpath \in Seq(Parts) /\ frames \in Seq(Activations)
    BY <1>2, <2>1
  <2>3. Len(frames) <= MaxOpen
    BY <1>4, ProcessAssumption
  <2> QED
    BY <1>2, <2>2, <2>3 DEF WalkTypes
<1>6. WalkPath
  <2>1. \A i \in 1..Len(fullpath) : i = Len(fullpath)
    BY <1>4
  <2>2. walk = "lstat" /\ fullpath[Len(fullpath)] # ""
    BY <1>2, <1>4
  <2>3. Len(fullpath) >= 1 /\ Len(fullpath) = Len(frames) + 1
    BY <1>4
  <2> QED
    BY <1>4, <2>1, <2>2, <2>3 DEF WalkPath
<1>7. WalkFrames
  <2>1. 1..Len(frames) = {}
    BY <1>4
  <2> QED
    BY <2>1 DEF WalkFrames
<1>8. \A x \in T!Entries : counted[x] = 0
  BY <1>2
<1>9. \A x \in T!Undisturbed : Expected(x)
  BY <1>2, <1>4 DEF Expected, Coming, ComingBelow
<1>10. T!Undisturbed \subseteq T!Entries
  BY DEF T!Undisturbed
<1> QED
  BY <1>3, <1>5, <1>6, <1>7, <1>8, <1>9, <1>10 DEF WalkInv, WalkLeast, WalkMost

\* The other process leaves what it has not touched where it was.
LEMMA TreeChanges ==
  ASSUME WalkPlaces, T!Others
  PROVE  /\ WalkPlaces' /\ touched \subseteq touched' /\ UNCHANGED T!walker
         /\ \A y \in T!Entries \ touched' : place'[y] = place[y]
<1>e. T!Entries = {"top", "d", "f", "link"} /\ T!Dirs = {"top", "d"}
  BY DEF T!Entries, T!Dirs
<1>p. place \in [T!Entries -> {<<>>} \cup (T!Dirs \X T!Entries)] /\ place["top"] = <<>>
  BY DEF WalkPlaces
<1>1. ASSUME NEW x \in T!Entries, NEW d \in T!Dirs, NEW name0 \in {"d", "f"}, T!Rename(x, d, name0)
      PROVE  /\ WalkPlaces' /\ touched \subseteq touched' /\ UNCHANGED T!walker
             /\ \A y \in T!Entries \ touched' : place'[y] = place[y]
  <2> DEFINE over == {y \in T!Entries \ {x} : place[y] = <<d, name0>>}
  <2>1. /\ changes < MaxChanges /\ place[x] # <<>> /\ x # d
        /\ place' = [y \in T!Entries |-> IF y = x THEN <<d, name0>>
                                       ELSE IF y \in over THEN <<>> ELSE place[y]]
        /\ touched' = touched \cup over \cup {x} /\ changes' = changes + 1
        /\ UNCHANGED <<closed, T!walker>>
    BY <1>1 DEF T!Rename, T!Within
  <2>2. over \subseteq T!Entries /\ \A y \in T!Entries \ {x} : place[y] = <<d, name0>> <=> y \in over
    OBVIOUS
  <2>3. "top" \notin over /\ x # "top"
    BY <2>1, <1>p
  <2> HIDE DEF over
  <2>4. ASSUME NEW y \in T!Entries
        PROVE  place'[y] = IF y = x THEN <<d, name0>> ELSE IF y \in over THEN <<>> ELSE place[y]
    BY <2>1
  <2>5. place' \in [T!Entries -> {<<>>} \cup (T!Dirs \X T!Entries)]
    <3>1. <<d, name0>> \in T!Dirs \X T!Entries
      BY <1>e
    <3>2. \A y \in T!Entries : place[y] \in {<<>>} \cup (T!Dirs \X T!Entries)
      BY <1>p
    <3> QED
      BY <2>1, <3>1, <3>2
  <2>6. place'["top"] = <<>>
    BY <2>3, <2>4, <1>e, <1>p
  <2>7. place'["d"] \in {<<>>} \cup ({"top"} \X {"d", "f"})
    <3>1. CASE x = "d"
      <4>1. d = "top"
        BY <2>1, <3>1, <1>e
      <4>2. place'["d"] = <<"top", name0>>
        BY <3>1, <4>1, <2>4, <1>e
      <4> QED
        BY <4>2
    <3>2. CASE x # "d"
      BY <3>2, <2>4, <1>e DEF WalkPlaces
    <3> QED
      BY <3>1, <3>2
  <2>8. ASSUME NEW y \in T!Entries, NEW z \in T!Entries, place'[y] = place'[z], place'[y] # <<>>
        PROVE  y = z
    <3>1. CASE y = x /\ z # x
      BY <3>1, <2>8, <2>4, <2>2
    <3>2. CASE z = x /\ y # x
      BY <3>2, <2>8, <2>4, <2>2
    <3>3. CASE y # x /\ z # x
      BY <3>3, <2>8, <2>4 DEF WalkPlaces
    <3> QED
      BY <3>1, <3>2, <3>3
  <2>9. touched' \subseteq T!Entries \ {"top"}
    BY <2>1, <2>2, <2>3 DEF WalkPlaces
  <2>10. changes' \in 0..MaxChanges
    <3>1. changes \in 0..MaxChanges
      BY DEF WalkPlaces
    <3> QED
      BY <3>1, <2>1, ProcessAssumption
  <2>11. \A y \in T!Entries \ touched' : place'[y] = place[y]
    BY <2>1, <2>4
  <2>12. touched \subseteq touched'
    BY <2>1
  <2>13. /\ \A y \in T!Entries \ (touched' \cup {"top"}) : place'[y] # <<>>
         /\ "d" \notin touched' => place'["d"] = <<"top", "d">>
    BY <2>11, <2>12, <1>e DEF WalkPlaces
  <2> QED
    BY <2>1, <2>5, <2>6, <2>7, <2>8, <2>9, <2>10, <2>11, <2>12, <2>13 DEF WalkPlaces
<1>2. ASSUME NEW x \in T!Entries, T!Unlink(x)
      PROVE  /\ WalkPlaces' /\ touched \subseteq touched' /\ UNCHANGED T!walker
             /\ \A y \in T!Entries \ touched' : place'[y] = place[y]
  <2>1. /\ changes < MaxChanges /\ place[x] # <<>> /\ place' = [place EXCEPT ![x] = <<>>]
        /\ touched' = touched \cup {x} /\ changes' = changes + 1 /\ UNCHANGED <<closed, T!walker>>
    BY <1>2 DEF T!Unlink
  <2>2. x # "top"
    BY <2>1, <1>p
  <2>3. \A y \in T!Entries : place'[y] = IF y = x THEN <<>> ELSE place[y]
    BY <2>1, <1>p
  <2>4. place' \in [T!Entries -> {<<>>} \cup (T!Dirs \X T!Entries)] /\ place'["top"] = <<>>
    BY <2>1, <2>2, <1>p
  <2>5. place'["d"] \in {<<>>} \cup ({"top"} \X {"d", "f"})
    BY <2>3, <1>e DEF WalkPlaces
  <2>6. \A y, z \in T!Entries : place'[y] = place'[z] /\ place'[y] # <<>> => y = z
    BY <2>3 DEF WalkPlaces
  <2>7. touched' \subseteq T!Entries \ {"top"}
    BY <2>1, <2>2 DEF WalkPlaces
  <2>8. changes' \in 0..MaxChanges
    <3>1. changes \in 0..MaxChanges
      BY DEF WalkPlaces
    <3> QED
      BY <3>1, <2>1, ProcessAssumption
  <2>9. \A y \in T!Entries \ touched' : place'[y] = place[y]
    BY <2>1, <2>3
  <2>10. touched \subseteq touched'
    BY <2>1
  <2>11. /\ \A y \in T!Entries \ (touched' \cup {"top"}) : place'[y] # <<>>
         /\ "d" \notin touched' => place'["d"] = <<"top", "d">>
    BY <2>9, <2>10, <1>e DEF WalkPlaces
  <2> QED
    BY <2>1, <2>4, <2>5, <2>6, <2>7, <2>8, <2>9, <2>10, <2>11 DEF WalkPlaces
<1> QED
  BY <1>1, <1>2 DEF T!Others

\* What that means for the files that nobody has disturbed.
LEMMA StillUndisturbed ==
  ASSUME WalkPlaces, touched \subseteq touched', 
         \A y \in T!Entries \ touched' : place'[y] = place[y], NEW x \in T!Undisturbed'
  PROVE  x \in T!Undisturbed /\ place'[x] = place[x] /\ T!Above(x)' = T!Above(x)
<1>1. x \in T!Entries \ touched' /\ T!Above(x)' \cap touched' = {}
  BY DEF T!Undisturbed
<1>2. place'[x] = place[x]
  BY <1>1
<1>3. T!Above(x)' = T!Above(x)
  BY <1>2 DEF T!Above
<1> QED
  BY <1>1, <1>2, <1>3 DEF T!Undisturbed

LEMMA TreeSteps == ASSUME WalkInv, T!Others PROVE WalkInv'
<1>p. WalkPlaces /\ WalkTypes /\ WalkPath /\ WalkFrames /\ WalkLeast /\ WalkMost
  BY DEF WalkInv
<1>1. /\ WalkPlaces' /\ touched \subseteq touched'
      /\ walk' = walk /\ fullpath' = fullpath /\ frames' = frames /\ counted' = counted
      /\ unread' = unread /\ followed' = followed
      /\ \A y \in T!Entries \ touched' : place'[y] = place[y]
  BY <1>p, TreeChanges DEF T!walker
<1>2. WalkTypes' /\ WalkPath'
  BY <1>p, <1>1 DEF WalkTypes, WalkPath
<1>3. WalkFrames'
  BY <1>p, <1>1 DEF WalkFrames
<1>4. ASSUME NEW x \in T!Undisturbed'
      PROVE  x \in T!Undisturbed /\ Expected(x)' = Expected(x) /\ T!Above(x)' = T!Above(x)
  <2>1. x \in T!Undisturbed /\ place'[x] = place[x] /\ T!Above(x)' = T!Above(x)
    BY <1>p, <1>1, StillUndisturbed
  <2> QED
    BY <2>1, <1>1 DEF Expected, Coming, ComingBelow
<1>5. WalkLeast'
  BY <1>p, <1>1, <1>4 DEF WalkLeast
<1>6. WalkMost'
  BY <1>p, <1>1, <1>4 DEF WalkMost
<1> QED
  BY <1>1, <1>2, <1>3, <1>5, <1>6 DEF WalkInv

\* Where a file is that nobody has disturbed.
LEMMA UndisturbedPlace ==
  ASSUME WalkPlaces, NEW x \in T!Undisturbed
  PROVE  /\ x \in T!Entries \ touched
         /\ x # "top" => /\ T!Above(x) = {"top", place[x][1]} /\ place[x] # <<>>
                         /\ place[x] = <<place[x][1], place[x][2]>> /\ place[x][2] \in T!Entries
                         /\ place[x][1] \in {"top", "d"}
                         /\ place[x][1] = "d" => "d" \notin touched /\ place["d"] = <<"top", "d">>
<1>1. x \in T!Entries \ touched /\ T!Above(x) \cap touched = {}
  BY DEF T!Undisturbed
<1>2. SUFFICES ASSUME x # "top"
      PROVE /\ T!Above(x) = {"top", place[x][1]} /\ place[x] # <<>>
            /\ place[x] = <<place[x][1], place[x][2]>> /\ place[x][2] \in T!Entries
            /\ place[x][1] \in {"top", "d"}
            /\ place[x][1] = "d" => "d" \notin touched /\ place["d"] = <<"top", "d">>
  BY <1>1
<1>3. T!Above(x) = {"top", place[x][1]}
  BY <1>2 DEF T!Above
<1>4. place[x] \in T!Dirs \X T!Entries /\ place[x] # <<>>
  BY <1>1, <1>2 DEF WalkPlaces
<1>5. place[x][1] = "d" => "d" \notin touched /\ place["d"] = <<"top", "d">>
  BY <1>1, <1>3 DEF WalkPlaces
<1> QED
  BY <1>3, <1>4, <1>5 DEF T!Dirs

\* A step that counts nothing, and after which the walk expects what it did unless it
\* could not read a directory above it.
LEMMA WalkKeeps ==
  ASSUME WalkPlaces, WalkTypes, WalkLeast, WalkMost, UNCHANGED T!tree, counted' = counted,
         unread \subseteq unread', followed => followed',
         \A x \in T!Undisturbed : /\ Expected(x)' => Expected(x)
                                  /\ Expected(x) /\ T!Above(x) \cap unread' = {} => Expected(x)'
  PROVE  WalkPlaces' /\ WalkLeast' /\ WalkMost'
<1>1. place' = place /\ touched' = touched /\ changes' = changes
  BY DEF T!tree
<1>2. WalkPlaces'
  BY <1>1 DEF WalkPlaces
<1>3. T!Undisturbed' = T!Undisturbed /\ \A x \in T!Undisturbed : T!Above(x)' = T!Above(x)
  BY <1>1 DEF T!Undisturbed, T!Above
<1>4. WalkLeast'
  BY <1>3 DEF WalkLeast
<1>5. WalkMost'
  BY <1>3 DEF WalkMost
<1> QED
  BY <1>2, <1>4, <1>5

LEMMA WalkFrameTypes ==
  ASSUME WalkTypes
  PROVE  /\ Len(frames) \in Nat /\ Len(fullpath) \in Nat
         /\ \A i \in 1..Len(frames) :
              /\ frames[i] \in Activations /\ frames[i].given \subseteq T!Entries \cup {".."}
              /\ frames[i].path \in Seq(T!Entries) /\ Len(frames[i].path) \in Nat
         /\ \A i \in 1..Len(fullpath) : fullpath[i] \in Parts
<1>1. frames \in Seq(Activations) /\ fullpath \in Seq(Parts)
  BY DEF WalkTypes
<1>2. \A i \in 1..Len(frames) : frames[i] \in Activations
  BY <1>1
<1>3. \A f \in Activations : /\ f.given \subseteq T!Entries \cup {".."}
                             /\ f.path \in Seq(T!Entries) /\ Len(f.path) \in Nat
  BY DEF Activations
<1> QED
  BY <1>1, <1>2, <1>3

\* opendir() fails.
LEMMA OpendirFailsSteps == ASSUME WalkInv, T!OpendirFails PROVE WalkInv'
<1>p. WalkPlaces /\ WalkTypes /\ WalkPath /\ WalkFrames /\ WalkLeast /\ WalkMost
  BY DEF WalkInv
<1>1. /\ walk = "opendir" /\ unread' = unread \cup {T!File(T!Directory)}
      /\ fullpath' = fullpath /\ frames' = frames /\ counted' = counted /\ followed' = followed
      /\ UNCHANGED T!tree /\ touched' = touched
      /\ walk' = IF frames = <<>> THEN "done" ELSE "readdir"
  BY DEF T!OpendirFails, T!Returned, T!tree
<1>n. /\ Len(frames) \in Nat /\ Len(fullpath) \in Nat /\ fullpath \in Seq(Parts)
      /\ \A i \in 1..Len(fullpath) : fullpath[i] \in Parts
      /\ Len(fullpath) = Len(frames) + 2 /\ fullpath[Len(fullpath)] = ""
      /\ Len(frames) = 0 => walk' = "done"
      /\ Len(frames) >= 1 => walk' = "readdir"
  <2>1. frames = <<>> <=> Len(frames) = 0
    BY <1>p DEF WalkTypes
  <2>2. /\ Len(frames) \in Nat /\ Len(fullpath) \in Nat
        /\ \A i \in 1..Len(fullpath) : fullpath[i] \in Parts
    BY <1>p, WalkFrameTypes
  <2>3. fullpath \in Seq(Parts)
    BY <1>p DEF WalkTypes
  <2>4. Len(fullpath) = Len(frames) + 2 /\ fullpath[Len(fullpath)] = ""
    BY <1>p, <1>1 DEF WalkPath
  <2>5. Len(frames) = 0 => walk' = "done"
    BY <1>1, <2>1
  <2>6. Len(frames) >= 1 => walk' = "readdir"
    <3>1. Len(frames) >= 1 => Len(frames) # 0
      OBVIOUS
    <3> QED
      BY <1>1, <2>1, <3>1
  <2> QED
    BY <2>2, <2>3, <2>4, <2>5, <2>6
<1>a. Len(frames) \in Nat /\ Len(fullpath) = Len(frames) + 2
  BY <1>n
\* The path without its slash.
<1>d. /\ T!Directory \in Seq(Parts) /\ Len(T!Directory) = Len(frames) + 1
      /\ \A i \in 1..(Len(frames) + 1) : T!Directory[i] = fullpath[i]
  <2>1. Len(fullpath) - 1 \in 0..Len(fullpath) /\ Len(fullpath) - 1 = Len(frames) + 1
    BY <1>a, Counting
  <2> QED
    BY <1>n, <2>1, Shortened DEF T!Directory
<1>2. WalkTypes'
  <2>1. T!File(T!Directory) \in T!Entries \cup {T!None}
    <3>1. Len(T!Directory) = Len(frames) + 1
      BY <1>d
    <3>2. Len(frames) + 1 >= 1
      BY <1>a
    <3>3. Len(T!Directory) >= 1
      BY <3>1, <3>2
    <3> QED
      BY <1>d, <3>3, <1>p, FileFound
  <2> QED
    BY <1>p, <1>1, <2>1 DEF WalkTypes
<1>3. WalkPath'
  <2>1. Len(frames) = 0 \/ Len(frames) >= 1
    BY <1>a, Counting
  <2>2. CASE Len(frames) = 0
    <3>0. Len(fullpath) = 2
      BY <2>2, <1>a
    <3>1. Len(fullpath) = 2 /\ fullpath[2] = ""
      BY <3>0, <1>n
    <3> QED
      BY <2>2, <3>1, <1>n, <1>1, <1>p DEF WalkPath
  <2>3. CASE Len(frames) >= 1
    <3>1. Len(fullpath) >= Len(frames)
      BY <1>a, Counting
    <3> QED
      BY <2>3, <3>1, <1>n, <1>1, <1>p DEF WalkPath
  <2> QED
    BY <2>1, <2>2, <2>3
<1>4. WalkFrames'
  BY <1>p, <1>1 DEF WalkFrames
<1>5. ASSUME NEW x \in T!Undisturbed
      PROVE  /\ Expected(x)' => Expected(x)
             /\ Expected(x) /\ T!Above(x) \cap unread' = {} => Expected(x)'
  <2>u. /\ x # "top" => T!Above(x) = {"top", place[x][1]}
        /\ place[x][1] = "d" /\ x # "top" => "d" \notin touched /\ place["d"] = <<"top", "d">>
    BY <1>p, UndisturbedPlace
  <2>p. place' = place
    BY <1>1 DEF T!tree
  <2>w. walk' \notin {"lstat", "opendir"}
    BY <1>1
  <2>k. PICK m : m = place[x][2]
    OBVIOUS
  <2> DEFINE came  == Len(frames) >= 1 /\ m \notin frames[1].given
             cameD == Len(frames) >= 1 /\ "d" \notin frames[1].given
             came2 == Len(frames) >= 2 /\ fullpath[2] = "d" /\ m \notin frames[2].given
  <2>t. /\ x # "top" /\ place[x][1] = "top" => /\ Expected(x)' <=> came
                                               /\ Expected(x) <=> Len(frames) = 0 \/ came
    BY <1>1, <2>p, <2>w, <2>k DEF Expected, Coming
  <2>b. x # "top" /\ place[x][1] # "top" =>
          /\ Expected(x)' <=> cameD \/ came2
          /\ Expected(x) <=> \/ Len(frames) = 0 \/ cameD \/ came2
                             \/ Len(fullpath) = 3 /\ fullpath[2] = "d"
    BY <1>1, <2>p, <2>w, <2>k DEF Expected, Coming, ComingBelow
  <2> HIDE DEF came, cameD, came2
  <2>1. CASE x = "top"
    BY <2>1, <1>1, <2>w DEF Expected
  \* In the first directory, which could not be read if it is the one.
  <2>2. Len(frames) = 0 => "top" \in unread'
    <3> SUFFICES ASSUME Len(frames) = 0 PROVE "top" \in unread'
      OBVIOUS
    <3>0. Len(T!Directory) = Len(frames) + 1
      BY <1>d
    <3>1. Len(T!Directory) = 1 /\ Len(T!Directory) >= 1
      BY <3>0
    <3>2. T!File(T!Directory) = "top"
      BY <1>d, <1>p, <3>1, FileFound
    <3> QED
      BY <3>2, <1>1
  \* In the directory below it.
  <2>3. ASSUME Len(fullpath) = 3, fullpath[2] = "d", place["d"] = <<"top", "d">> PROVE "d" \in unread'
    <3>0. Len(frames) = 1
      BY <1>a, <2>3, Counting
    <3>1. Len(T!Directory) = 2 /\ Len(T!Directory) >= 1 /\ T!Directory[2] = "d"
      BY <1>d, <3>0, <2>3
    <3>2. T!File(T!Directory) = T!Below("top", "d")
      BY <1>d, <1>p, <3>1, FileFound
    <3>3. T!Below("top", "d") = "d"
      BY <1>p, <2>3, BelowIs DEF T!Entries, T!Dirs
    <3> QED
      BY <3>2, <3>3, <1>1
  <2>4. CASE x # "top" /\ place[x][1] = "top"
    <3>1. T!Above(x) \cap unread' = {} => "top" \notin unread'
      BY <2>4, <2>u
    <3> QED
      BY <2>4, <2>t, <2>2, <3>1
  <2>5. CASE x # "top" /\ place[x][1] # "top"
    <3>1. place[x][1] = "d"
      BY <2>5, <1>p, UndisturbedPlace
    <3>2. T!Above(x) = {"top", "d"} /\ place["d"] = <<"top", "d">>
      BY <3>1, <2>u, <2>5
    <3>3. T!Above(x) \cap unread' = {} => "top" \notin unread' /\ "d" \notin unread'
      BY <3>2
    <3>4. T!Above(x) \cap unread' = {} => Len(frames) # 0 /\ ~(Len(fullpath) = 3 /\ fullpath[2] = "d")
      BY <2>2, <2>3, <3>2, <3>3
    <3> QED
      BY <2>5, <2>b, <3>4
  <2> QED
    BY <2>1, <2>4, <2>5
<1>6. WalkPlaces' /\ WalkLeast' /\ WalkMost'
  <2>1. unread \subseteq unread' /\ (followed => followed')
    BY <1>1
  <2> QED
    BY <1>p, <1>1, <1>5, <2>1, WalkKeeps
<1> QED
  BY <1>2, <1>3, <1>4, <1>6 DEF WalkInv

\* opendir() opens a directory.
LEMMA OpendirSteps == ASSUME WalkInv, T!Opendir PROVE WalkInv'
<1>p. WalkPlaces /\ WalkTypes /\ WalkPath /\ WalkFrames /\ WalkLeast /\ WalkMost
  BY DEF WalkInv
<1> DEFINE d == T!Target(T!File(fullpath))
           frame == [dir |-> d, ptr |-> Len(fullpath) - 1, given |-> {},
                     path |-> T!Directory, first |-> T!Names(d)]
<1>1. /\ walk = "opendir" /\ walk' = "readdir" /\ d \in T!Dirs /\ Len(frames) < MaxOpen
      /\ frames' = Append(frames, frame)
      /\ fullpath' = fullpath /\ counted' = counted /\ unread' = unread
      /\ followed' = (followed \/ T!Links(fullpath))
      /\ UNCHANGED T!tree /\ touched' = touched /\ place' = place
  BY DEF T!Opendir, T!tree
<1>a. Len(frames) \in Nat /\ Len(fullpath) = Len(frames) + 2
  BY <1>1, <1>p, WalkFrameTypes DEF WalkPath
<1>b. /\ fullpath \in Seq(Parts) /\ fullpath[Len(fullpath)] = "" /\ frames \in Seq(Activations)
      /\ \A i \in 1..Len(fullpath) : fullpath[i] \in Parts /\ (fullpath[i] = "" => i = Len(fullpath))
  BY <1>1, <1>p, WalkFrameTypes DEF WalkPath, WalkTypes
<1>d. /\ T!Directory \in Seq(T!Entries) /\ Len(T!Directory) = Len(frames) + 1
      /\ \A i \in 1..(Len(frames) + 1) : T!Directory[i] = fullpath[i]
  <2>1. Len(fullpath) - 1 \in 0..Len(fullpath) /\ Len(fullpath) - 1 = Len(frames) + 1
    BY <1>a, Counting
  <2>2. /\ T!Directory \in Seq(Parts) /\ Len(T!Directory) = Len(frames) + 1
        /\ \A i \in 1..(Len(frames) + 1) : T!Directory[i] = fullpath[i]
    BY <1>b, <2>1, Shortened DEF T!Directory
  <2>3. ASSUME NEW i \in 1..(Len(frames) + 1) PROVE T!Directory[i] \in T!Entries
    <3>1. i \in 1..Len(fullpath) /\ i # Len(fullpath)
      BY <1>a
    <3>2. fullpath[i] \in T!Entries
      BY <3>1, <1>b DEF Parts
    <3> QED
      BY <3>2, <2>2
  <2>4. T!Directory = [i \in 1..(Len(frames) + 1) |-> T!Directory[i]]
    BY <2>2
  <2>5. Len(frames) + 1 \in Nat
    BY <1>a
  <2>6. T!Directory \in Seq(T!Entries)
    <3> DEFINE k == Len(frames) + 1
               f == T!Directory
    <3>1. f \in [1..k -> T!Entries] /\ k \in Nat
      BY <2>3, <2>4, <2>5
    <3> HIDE DEF k, f
    <3>2. f \in Seq(T!Entries)
      BY <3>1
    <3> QED
      BY <3>2 DEF f
  <2> QED
    BY <2>2, <2>6
<1>f. /\ frame \in Activations /\ frame.dir = d /\ frame.ptr = Len(frames) + 1
      /\ frame.given = {} /\ frame.path = T!Directory
  <2>1. Len(fullpath) - 1 = Len(frames) + 1 /\ Len(frames) + 1 \in Nat
    BY <1>a
  <2>2. T!Names(d) \subseteq T!Entries
    <3>1. \A y \in T!Entries : place[y] # <<>> => place[y][2] \in T!Entries
      BY <1>p DEF WalkPlaces
    <3> QED
      BY <3>1 DEF T!Names
  <2>3. frame = [dir |-> d, ptr |-> Len(frames) + 1, given |-> {}, path |-> T!Directory, first |-> T!Names(d)]
    BY <2>1
  <2>4. {} \in SUBSET (T!Entries \cup {".."}) /\ T!Names(d) \in SUBSET T!Entries
    BY <2>2
  <2> HIDE DEF d
  <2> QED
    BY <1>1, <1>d, <2>1, <2>3, <2>4 DEF Activations
<1> HIDE DEF frame, d
<1>2. /\ frames' \in Seq(Activations) /\ Len(frames') = Len(frames) + 1
      /\ \A i \in 1..Len(frames) : frames'[i] = frames[i]
      /\ frames'[Len(frames) + 1] = frame
  <2>1. frames \in Seq(Activations) /\ frame \in Activations /\ frames' = Append(frames, frame)
    BY <1>1, <1>b, <1>f
  <2> QED
    BY <2>1, OneMore
<1>3. WalkTypes'
  <2>1. Len(frames') <= MaxOpen
    <3>1. Len(frames) + 1 <= MaxOpen
      BY <1>1, <1>a, ProcessAssumption
    <3> QED
      BY <3>1, <1>2
  <2>2. followed' \in BOOLEAN
    BY <1>1, <1>p DEF WalkTypes, T!Links
  <2> QED
    BY <1>p, <1>1, <1>2, <2>1, <2>2 DEF WalkTypes
<1>4. WalkPath'
  <2>1. Len(frames') >= 1 /\ Len(fullpath) >= Len(frames')
    <3>1. Len(frames) + 1 >= 1 /\ Len(fullpath) >= Len(frames) + 1
      BY <1>a
    <3> QED
      BY <3>1, <1>2
  <2> QED
    BY <2>1, <1>1, <1>p DEF WalkPath
\* The directory that is opened is the one of its path.
<1>5. Len(frames) = 0 => d = "top"
  <2> SUFFICES ASSUME Len(frames) = 0 PROVE d = "top"
    OBVIOUS
  <2>1. Len(fullpath) = 2 /\ Len(fullpath) >= 1
    BY <1>a
  <2>2. fullpath[2] = ""
    BY <2>1, <1>b
  <2>3. T!File(fullpath) = T!Below("top", "")
    BY <2>1, <2>2, <1>b, <1>p, FileFound
  <2>4. T!Below("top", "") = "top"
    BY DEF T!Below, T!Target, T!Dirs
  <2> QED
    BY <2>3, <2>4 DEF d, T!Target
<1>6. Len(frames) = 1 /\ fullpath[2] = "d" /\ "d" \notin touched => d = "d"
  <2> SUFFICES ASSUME Len(frames) = 1, fullpath[2] = "d", "d" \notin touched PROVE d = "d"
    OBVIOUS
  <2>1. Len(fullpath) = 3 /\ Len(fullpath) >= 1
    BY <1>a
  <2>2. fullpath[3] = ""
    BY <2>1, <1>b
  <2>3. T!File(fullpath) = T!Below(T!Below("top", "d"), "")
    BY <2>1, <2>2, <1>b, <1>p, FileFound
  <2>4. T!Below("top", "d") = "d"
    <3>1. place["d"] = <<"top", "d">>
      BY <1>p DEF WalkPlaces
    <3> QED
      BY <1>p, <3>1, BelowIs DEF T!Entries, T!Dirs
  <2>5. T!Below("d", "") = "d"
    BY DEF T!Below, T!Target, T!Dirs
  <2> QED
    BY <2>3, <2>4, <2>5 DEF d, T!Target
<1>7. WalkFrames'
  <2> DEFINE FrameKept(i) ==
        /\ frames'[i].ptr = i /\ Len(frames'[i].path) = i
        /\ i <= Len(fullpath')
        /\ \A j \in 1..i : frames'[i].path[j] = fullpath'[j]
        /\ i + 1 <= Len(fullpath') /\ fullpath'[i + 1] # "" => fullpath'[i + 1] \in frames'[i].given
        /\ i = 1 => frames'[i].dir = "top"
        /\ i = 2 /\ "d" \notin touched' /\ fullpath'[2] = "d" => frames'[i].dir = "d"
  <2>1. ASSUME NEW i \in 1..Len(frames) PROVE FrameKept(i)
    <3>1. frames'[i] = frames[i] /\ fullpath' = fullpath /\ touched' = touched
      BY <1>1, <1>2
    <3>2. /\ frames[i].ptr = i /\ Len(frames[i].path) = i
          /\ i <= Len(fullpath)
          /\ \A j \in 1..i : frames[i].path[j] = fullpath[j]
          /\ i + 1 <= Len(fullpath) /\ fullpath[i + 1] # "" => fullpath[i + 1] \in frames[i].given
          /\ i = 1 => frames[i].dir = "top"
          /\ i = 2 /\ "d" \notin touched /\ fullpath[2] = "d" => frames[i].dir = "d"
      BY <1>p DEF WalkFrames
    <3> QED
      BY <3>1, <3>2
  <2>2. FrameKept(Len(frames) + 1)
    <3> DEFINE k == Len(frames) + 1
    <3>1. k <= Len(fullpath) /\ k + 1 = Len(fullpath)
      BY <1>a, Counting
    <3>2. fullpath[k + 1] = ""
      BY <3>1, <1>b
    <3>3. (k = 1 => Len(frames) = 0) /\ (k = 2 => Len(frames) = 1)
      BY <1>a, Counting
    <3>4. frames'[k] = frame
      BY <1>2
    <3>5. k = 1 => frame.dir = "top"
      BY <3>3, <1>5, <1>f
    <3>6. k = 2 /\ "d" \notin touched /\ fullpath[2] = "d" => frame.dir = "d"
      BY <3>3, <1>6, <1>f
    <3>7. frame.ptr = k /\ Len(frame.path) = k /\ \A j \in 1..k : frame.path[j] = fullpath[j]
      BY <1>f, <1>d
    <3> HIDE DEF k
    <3>8. FrameKept(k)
      BY <1>1, <3>1, <3>2, <3>4, <3>5, <3>6, <3>7
    <3> QED
      BY <3>8 DEF k
  <2>3. \A i \in 1..(Len(frames) + 1) : i \in 1..Len(frames) \/ i = Len(frames) + 1
    BY <1>a
  <2>4. \A i \in 1..Len(frames') : FrameKept(i)
    <3> HIDE DEF FrameKept
    <3> QED
      BY <2>1, <2>2, <2>3, <1>2
  <2> QED
    BY <2>4 DEF WalkFrames
<1>8. ASSUME NEW x \in T!Undisturbed
      PROVE  /\ Expected(x)' => Expected(x)
             /\ Expected(x) => Expected(x)'
  <2>k. PICK m : m = place[x][2]
    OBVIOUS
  <2> DEFINE came  == Len(frames) = 0 \/ (Len(frames) >= 1 /\ m \notin frames[1].given)
             cameD == Len(frames) = 0 \/ (Len(frames) >= 1 /\ "d" \notin frames[1].given)
             came2 == Len(frames) >= 2 /\ fullpath[2] = "d" /\ m \notin frames[2].given
             below == Len(fullpath) = 3 /\ fullpath[2] = "d"
  <2>t. x # "top" /\ place[x][1] = "top" => (Expected(x) <=> came)
    BY <1>1, <2>k DEF Expected, Coming
  <2>b. x # "top" /\ place[x][1] # "top" => (Expected(x) <=> cameD \/ came2 \/ below)
    BY <1>1, <2>k DEF Expected, Coming, ComingBelow
  <2> DEFINE came1  == Len(frames') >= 1 /\ m \notin frames'[1].given
             cameD1 == Len(frames') >= 1 /\ "d" \notin frames'[1].given
             came21 == Len(frames') >= 2 /\ fullpath[2] = "d" /\ m \notin frames'[2].given
  <2>t1. x # "top" /\ place[x][1] = "top" => (Expected(x)' <=> came1)
    BY <1>1, <2>k DEF Expected, Coming
  <2>b1. x # "top" /\ place[x][1] # "top" => (Expected(x)' <=> cameD1 \/ came21)
    BY <1>1, <2>k DEF Expected, Coming, ComingBelow
  <2>l. Len(frames) = 0 \/ Len(frames) = 1 \/ Len(frames) >= 2
    BY <1>a, Counting
  <2>0. CASE Len(frames) = 0
    <3>1. Len(frames') = 1 /\ frames'[1].given = {} /\ Len(fullpath) = 2
      BY <2>0, <1>2, <1>f, <1>a
    <3>2. came /\ cameD /\ came1 /\ cameD1
      BY <3>1, <2>0
    <3> HIDE DEF came, cameD, came2, below, came1, cameD1, came21
    <3> QED
      BY <3>2, <2>t, <2>b, <2>t1, <2>b1, <1>1 DEF Expected
  <2>1. CASE Len(frames) = 1
    <3>1. Len(frames') = 2 /\ frames'[1] = frames[1] /\ frames'[2].given = {} /\ Len(fullpath) = 3
      BY <2>1, <1>2, <1>f, <1>a
    <3>2. (came <=> came1) /\ (cameD <=> cameD1) /\ ~came2 /\ (below <=> came21)
      BY <3>1, <2>1
    <3> HIDE DEF came, cameD, came2, below, came1, cameD1, came21
    <3> QED
      BY <3>2, <2>t, <2>b, <2>t1, <2>b1, <1>1 DEF Expected
  <2>2. CASE Len(frames) >= 2
    <3>1. 1 \in 1..Len(frames) /\ 2 \in 1..Len(frames) /\ Len(frames) >= 1 /\ Len(frames) # 0
          /\ Len(fullpath) # 3 /\ Len(frames) + 1 >= 2 /\ Len(frames) + 1 >= 1
      BY <2>2, <1>a
    <3>2. frames'[1] = frames[1] /\ frames'[2] = frames[2] /\ Len(frames') >= 2 /\ Len(frames') >= 1
      BY <3>1, <1>2
    <3>3. (came <=> came1) /\ (cameD <=> cameD1) /\ (came2 <=> came21) /\ ~below
      BY <3>1, <3>2, <2>2
    <3> HIDE DEF came, cameD, came2, below, came1, cameD1, came21
    <3> QED
      BY <3>3, <2>t, <2>b, <2>t1, <2>b1, <1>1 DEF Expected
  <2> QED
    BY <2>l, <2>0, <2>1, <2>2
<1>9. WalkPlaces' /\ WalkLeast' /\ WalkMost'
  <2>1. unread \subseteq unread' /\ (followed => followed')
    BY <1>1
  <2> QED
    BY <1>p, <1>1, <1>8, <2>1, WalkKeeps
<1> QED
  BY <1>3, <1>4, <1>7, <1>9 DEF WalkInv

\* What an activation has given is the names it was to give.
LEMMA ReadNameSteps == ASSUME WalkInv, T!ReadName PROVE WalkInv'
<1>p. WalkPlaces /\ WalkTypes /\ WalkPath /\ WalkFrames /\ WalkLeast /\ WalkMost
  BY DEF WalkInv
<1>0. PICK name0 \in T!MayGive \ T!Skipped :
        /\ walk = "readdir" /\ walk' = "lstat" /\ frames' = T!Given(name0)
        /\ fullpath' = Append(SubSeq(fullpath, 1, T!Frame.ptr), name0)
        /\ UNCHANGED <<counted, unread, followed, T!tree>>
  BY DEF T!ReadName
<1> DEFINE n == Len(frames)
<1>a. n \in Nat /\ n >= 1 /\ n \in 1..n /\ n \in 0..Len(fullpath) /\ Len(fullpath) \in Nat
  <2>1. n \in Nat /\ Len(fullpath) \in Nat /\ n >= 1 /\ Len(fullpath) >= n
    BY <1>0, <1>p, WalkFrameTypes DEF WalkPath
  <2> HIDE DEF n
  <2> QED
    BY <2>1
<1>f. /\ frames \in Seq(Activations) /\ fullpath \in Seq(Parts)
      /\ \A i \in 1..n : frames[i] \in Activations
  BY <1>p, WalkFrameTypes DEF WalkTypes
<1>g. \A i \in 1..n :
        /\ frames[i].ptr = i /\ Len(frames[i].path) = i
        /\ i <= Len(fullpath)
        /\ \A j \in 1..i : frames[i].path[j] = fullpath[j]
        /\ i + 1 <= Len(fullpath) /\ fullpath[i + 1] # "" => fullpath[i + 1] \in frames[i].given
        /\ i = 1 => frames[i].dir = "top"
        /\ i = 2 /\ "d" \notin touched /\ fullpath[2] = "d" => frames[i].dir = "d"
  BY <1>p DEF WalkFrames
<1>h. /\ frames[n].ptr = n /\ frames[n].path \in Seq(T!Entries) /\ frames[n] \in Activations
      /\ frames[n].given \in SUBSET (T!Entries \cup {".."}) /\ Len(frames[n].path) = n
      /\ \A j \in 1..n : frames[n].path[j] = fullpath[j]
  <2>1. frames[n].path \in Seq(T!Entries) /\ frames[n].given \in SUBSET (T!Entries \cup {".."})
    BY <1>a, <1>f DEF Activations
  <2> HIDE DEF n
  <2> QED
    BY <2>1, <1>a, <1>f, <1>g
\* The name is one of a file, and has not been given before.
<1>m. name0 \in T!Entries /\ name0 \notin frames[n].given
  <2>1. name0 \in (frames[n].first \cup T!Names(frames[n].dir)) \ frames[n].given
    BY DEF T!MayGive, T!Skipped, T!Frame
  <2>2. frames[n].first \subseteq T!Entries
    BY <1>h DEF Activations
  <2>3. \A y \in T!Entries : place[y] # <<>> => place[y][2] \in T!Entries
    BY <1>p DEF WalkPlaces
  <2>4. T!Names(frames[n].dir) \subseteq T!Entries
    BY <2>3 DEF T!Names
  <2> QED
    BY <2>1, <2>2, <2>4
<1> DEFINE now == [frames[n] EXCEPT !.given = @ \cup {name0}]
<1>1. /\ walk = "readdir" /\ walk' = "lstat" /\ counted' = counted /\ unread' = unread
      /\ followed' = followed /\ UNCHANGED T!tree /\ touched' = touched /\ place' = place
  BY <1>0 DEF T!tree
<1>2. now \in Activations /\ now.given = frames[n].given \cup {name0} /\ now.ptr = frames[n].ptr
      /\ now.path = frames[n].path /\ now.dir = frames[n].dir
  <2>1. frames[n].given \cup {name0} \in SUBSET (T!Entries \cup {".."})
    BY <1>h, <1>m
  <2> DEFINE f == frames[n]
  <2>2. f \in Activations /\ f.given \cup {name0} \in SUBSET (T!Entries \cup {".."})
    BY <1>h, <2>1
  <2> HIDE DEF f
  <2>3. [f EXCEPT !.given = @ \cup {name0}] \in Activations
    BY <2>2 DEF Activations
  <2>4. [f EXCEPT !.given = @ \cup {name0}].given = f.given \cup {name0}
        /\ [f EXCEPT !.given = @ \cup {name0}].ptr = f.ptr
        /\ [f EXCEPT !.given = @ \cup {name0}].path = f.path
        /\ [f EXCEPT !.given = @ \cup {name0}].dir = f.dir
    BY <2>2 DEF Activations
  <2> QED
    BY <2>3, <2>4 DEF f
<1>3. /\ frames' \in Seq(Activations) /\ Len(frames') = n /\ frames'[n] = now
      /\ \A i \in 1..n : i # n => frames'[i] = frames[i]
  <2>1. frames' = [frames EXCEPT ![n] = now]
    BY <1>0 DEF T!Given
  <2>2. frames \in Seq(Activations) /\ now \in Activations /\ n \in 1..Len(frames)
    BY <1>f, <1>2, <1>a
  <2> HIDE DEF now
  <2> QED
    BY <2>1, <2>2, Replaced
<1> HIDE DEF now
\* The path, up to the slash, and the name.
<1>4. /\ fullpath' \in Seq(Parts) /\ Len(fullpath') = n + 1 /\ fullpath'[n + 1] = name0
      /\ \A i \in 1..n : fullpath'[i] = fullpath[i]
  <2> DEFINE start == SubSeq(fullpath, 1, n)
  <2>1. fullpath' = Append(start, name0)
    BY <1>0, <1>h DEF T!Frame
  <2>2. start \in Seq(Parts) /\ Len(start) = n /\ \A i \in 1..n : start[i] = fullpath[i]
    BY <1>a, <1>f, Shortened
  <2>3. name0 \in Parts
    BY <1>m DEF Parts
  <2> HIDE DEF start
  <2> QED
    BY <2>1, <2>2, <2>3, OneMore
<1>5. WalkTypes'
  BY <1>p, <1>1, <1>3, <1>4 DEF WalkTypes
<1>6. \A i \in 1..n : fullpath[i] \in T!Entries
  BY <1>h
<1>7. name0 # "" /\ \A i \in 1..n : fullpath[i] # ""
  <2>1. "" \notin T!Entries
    BY DEF T!Entries, T!Dirs
  <2> QED
    BY <2>1, <1>6, <1>m
<1>8. WalkPath'
  <2>1. ASSUME NEW i \in 1..(n + 1), fullpath'[i] = "" PROVE FALSE
    <3>1. i \in 1..n \/ i = n + 1
      <4> HIDE DEF n
      <4> QED
        BY <1>a
    <3>2. i = n + 1 => fullpath'[i] = name0
      BY <1>4
    <3>3. i \in 1..n => fullpath'[i] = fullpath[i]
      BY <1>4
    <3> QED
      BY <2>1, <3>1, <3>2, <3>3, <1>7
  <2>2. Len(fullpath') >= 1 /\ 1 \in 1..n
    <3>1. n + 1 >= 1 /\ 1 \in 1..n
      BY <1>a, Counting
    <3> QED
      BY <3>1, <1>4
  <2>3. fullpath'[1] = "top"
    BY <2>2, <1>4, <1>p DEF WalkPath
  <2>4. Len(fullpath') = Len(frames') + 1 /\ fullpath'[Len(fullpath')] # ""
    BY <1>3, <1>4, <1>7
  <2> QED
    BY <1>1, <1>4, <2>1, <2>2, <2>3, <2>4 DEF WalkPath
<1>9. WalkFrames'
  <2> DEFINE FrameKept(i) ==
        /\ frames'[i].ptr = i /\ Len(frames'[i].path) = i
        /\ i <= Len(fullpath')
        /\ \A j \in 1..i : frames'[i].path[j] = fullpath'[j]
        /\ i + 1 <= Len(fullpath') /\ fullpath'[i + 1] # "" => fullpath'[i + 1] \in frames'[i].given
        /\ i = 1 => frames'[i].dir = "top"
        /\ i = 2 /\ "d" \notin touched' /\ fullpath'[2] = "d" => frames'[i].dir = "d"
  <2>1. ASSUME NEW i \in 1..n PROVE FrameKept(i)
    <3>1. \A j \in 1..i : j \in 1..n
      <4> HIDE DEF n
      <4> QED
        BY <1>a
    <3>2. i <= n + 1 /\ (i = n \/ i + 1 \in 1..n) /\ (i # n => i + 1 <= Len(fullpath))
      <4> HIDE DEF n
      <4> QED
        BY <1>a
    <3>3. /\ frames'[i].ptr = i /\ frames'[i].path = frames[i].path /\ frames'[i].dir = frames[i].dir
          /\ i # n => frames'[i].given = frames[i].given
          /\ i = n => frames'[i].given = frames[n].given \cup {name0}
      <4>1. frames[i].ptr = i
        BY <1>g
      <4>2. CASE i = n
        BY <4>1, <4>2, <1>3, <1>2
      <4>3. CASE i # n
        BY <4>1, <4>3, <1>3
      <4> QED
        BY <4>2, <4>3
    <3>4. Len(frames[i].path) = i /\ \A j \in 1..i : frames[i].path[j] = fullpath'[j]
      <4>1. Len(frames[i].path) = i
        BY <1>g
      <4>2. ASSUME NEW j \in 1..i PROVE frames[i].path[j] = fullpath'[j]
        <5>1. frames[i].path[j] = fullpath[j]
          BY <1>g
        <5>2. fullpath'[j] = fullpath[j]
          BY <3>1, <1>4
        <5> QED
          BY <5>1, <5>2
      <4> QED
        BY <4>1, <4>2
    <3>5. i # n => /\ fullpath'[i + 1] = fullpath[i + 1] /\ i + 1 <= Len(fullpath)
                   /\ fullpath'[i + 1] # "" => fullpath'[i + 1] \in frames[i].given
      <4>1. i # n => i + 1 \in 1..n /\ i + 1 <= Len(fullpath)
        BY <3>2
      <4>2. i # n => fullpath'[i + 1] = fullpath[i + 1]
        BY <4>1, <1>4
      <4>3. i + 1 <= Len(fullpath) /\ fullpath[i + 1] # "" => fullpath[i + 1] \in frames[i].given
        BY <1>g
      <4> HIDE DEF n
      <4> QED
        BY <4>1, <4>2, <4>3
    <3>6. fullpath'[i + 1] # "" => fullpath'[i + 1] \in frames'[i].given
      BY <3>3, <3>5, <1>4
    <3>7. i = 1 => frames[i].dir = "top"
      BY <1>g
    <3>8. i = 2 /\ "d" \notin touched' /\ fullpath'[2] = "d" => frames[i].dir = "d"
      BY <1>g, <1>1, <1>4
    <3>9. i <= Len(fullpath')
      BY <3>2, <1>4
    <3> QED
      BY <3>3, <3>4, <3>6, <3>7, <3>8, <3>9
  <2> HIDE DEF FrameKept
  <2>2. \A i \in 1..Len(frames') : FrameKept(i)
    BY <2>1, <1>3
  <2> QED
    BY <2>2 DEF WalkFrames, FrameKept
<1>10. ASSUME NEW x \in T!Undisturbed
       PROVE  Expected(x)' <=> Expected(x)
  <2>k. PICK m : m = place[x][2]
    OBVIOUS
  <2> DEFINE came   == m \notin frames[1].given
             cameD  == "d" \notin frames[1].given
             came2  == n >= 2 /\ fullpath[2] = "d" /\ m \notin frames[2].given
             came1  == m \notin frames'[1].given \/ (n + 1 = 2 /\ fullpath'[2] = m)
             cameD1 == "d" \notin frames'[1].given \/ (n + 1 = 2 /\ fullpath'[2] = "d")
             came21 == \/ n >= 2 /\ fullpath'[2] = "d" /\ m \notin frames'[2].given
                       \/ n + 1 = 3 /\ fullpath'[2] = "d" /\ fullpath'[3] = m
  <2>0. n # 0
    <3> HIDE DEF n
    <3> QED
      BY <1>a
  <2>t. x # "top" /\ place[x][1] = "top" => (Expected(x) <=> came)
    BY <1>1, <2>k, <2>0, <1>a DEF Expected, Coming
  <2>b. x # "top" /\ place[x][1] # "top" => (Expected(x) <=> cameD \/ came2)
    BY <1>1, <2>k, <2>0, <1>a DEF Expected, Coming, ComingBelow
  <2>t1. x # "top" /\ place[x][1] = "top" => (Expected(x)' <=> came1)
    BY <1>1, <2>k, <2>0, <1>a, <1>3, <1>4 DEF Expected, Coming
  <2>b1. x # "top" /\ place[x][1] # "top" => (Expected(x)' <=> cameD1 \/ came21)
    BY <1>1, <2>k, <2>0, <1>a, <1>3, <1>4 DEF Expected, Coming, ComingBelow
  <2>e. x = "top" => ~Expected(x) /\ ~Expected(x)'
    BY <1>1, <1>3, <2>0 DEF Expected
  <2>l. n = 1 \/ n = 2 \/ (n # 2 /\ n >= 3)
    <3> HIDE DEF n
    <3> QED
      BY <1>a, Counting
  <2>1. CASE n = 1
    <3>1. n + 1 = 2 /\ n + 1 # 3 /\ ~(n >= 2)
      BY <2>1
    <3>2. frames'[1].given = frames[1].given \cup {name0} /\ fullpath'[2] = name0
      BY <2>1, <1>3, <1>2, <1>4
    <3>3. name0 \notin frames[1].given
      BY <2>1, <1>m
    <3>4. (came <=> came1) /\ (cameD <=> cameD1) /\ ~came2 /\ ~came21
      BY <3>1, <3>2, <3>3
    <3> HIDE DEF came, cameD, came2, came1, cameD1, came21
    <3> QED
      BY <3>4, <2>t, <2>b, <2>t1, <2>b1, <2>e
  <2>2. CASE n = 2
    <3>1. n + 1 = 3 /\ n + 1 # 2 /\ n >= 2 /\ 1 \in 1..n /\ 2 \in 1..n /\ n # 1
      BY <2>2
    <3>2. frames'[1] = frames[1] /\ frames'[2].given = frames[2].given \cup {name0}
          /\ fullpath'[2] = fullpath[2] /\ fullpath'[3] = name0
      BY <2>2, <3>1, <1>3, <1>2, <1>4
    <3>3. name0 \notin frames[2].given
      BY <2>2, <1>m
    <3>4. (came <=> came1) /\ (cameD <=> cameD1) /\ (came2 <=> came21)
      BY <3>1, <3>2, <3>3
    <3> HIDE DEF came, cameD, came2, came1, cameD1, came21
    <3> QED
      BY <3>4, <2>t, <2>b, <2>t1, <2>b1, <2>e
  <2>3. CASE n # 2 /\ n >= 3
    <3>1. n + 1 # 3 /\ n + 1 # 2 /\ n >= 2 /\ 1 \in 1..n /\ 2 \in 1..n /\ n # 1
      <4> HIDE DEF n
      <4> QED
        BY <2>3, <1>a
    <3>2. frames'[1] = frames[1] /\ frames'[2] = frames[2] /\ fullpath'[2] = fullpath[2]
      BY <2>3, <3>1, <1>3, <1>4
    <3>4. (came <=> came1) /\ (cameD <=> cameD1) /\ (came2 <=> came21)
      BY <3>1, <3>2
    <3> HIDE DEF came, cameD, came2, came1, cameD1, came21
    <3> QED
      BY <3>4, <2>t, <2>b, <2>t1, <2>b1, <2>e
  <2> QED
    BY <2>l, <2>1, <2>2, <2>3
<1>11. WalkPlaces' /\ WalkLeast' /\ WalkMost'
  <2>1. unread \subseteq unread' /\ (followed => followed')
    BY <1>1
  <2> QED
    BY <1>p, <1>1, <1>10, <2>1, WalkKeeps
<1> QED
  BY <1>5, <1>8, <1>9, <1>11 DEF WalkInv

\* The end of a directory.
LEMMA EndOfDirSteps == ASSUME WalkInv, T!EndOfDir PROVE WalkInv'
<1>p. WalkPlaces /\ WalkTypes /\ WalkPath /\ WalkFrames /\ WalkLeast /\ WalkMost
  BY DEF WalkInv
<1> DEFINE n == Len(frames)
<1>1. /\ walk = "readdir" /\ T!MustGive = {} /\ counted' = counted /\ unread' = unread
      /\ fullpath' = SubSeq(fullpath, 1, T!Frame.ptr) /\ frames' = SubSeq(frames, 1, n - 1)
      /\ walk' = (IF frames' = <<>> THEN "done" ELSE "readdir")
      /\ followed' = followed /\ UNCHANGED T!tree /\ touched' = touched /\ place' = place
  BY DEF T!EndOfDir, T!tree
<1>a. n \in Nat /\ n >= 1 /\ n \in 1..n /\ n \in 0..Len(fullpath) /\ n - 1 \in 0..n /\ n - 1 \in Nat
  <2>1. n \in Nat /\ Len(fullpath) \in Nat /\ n >= 1 /\ Len(fullpath) >= n
    BY <1>1, <1>p, WalkFrameTypes DEF WalkPath
  <2> HIDE DEF n
  <2> QED
    BY <2>1
<1>f. /\ frames \in Seq(Activations) /\ fullpath \in Seq(Parts)
      /\ \A i \in 1..n : frames[i] \in Activations
  BY <1>p, WalkFrameTypes DEF WalkTypes
<1>g. \A i \in 1..n :
        /\ frames[i].ptr = i /\ Len(frames[i].path) = i
        /\ i <= Len(fullpath)
        /\ \A j \in 1..i : frames[i].path[j] = fullpath[j]
        /\ i + 1 <= Len(fullpath) /\ fullpath[i + 1] # "" => fullpath[i + 1] \in frames[i].given
        /\ i = 1 => frames[i].dir = "top"
        /\ i = 2 /\ "d" \notin touched /\ fullpath[2] = "d" => frames[i].dir = "d"
  BY <1>p DEF WalkFrames
<1>h. /\ frames[n].ptr = n /\ frames[n].path \in Seq(T!Entries) /\ Len(frames[n].path) = n
      /\ \A j \in 1..n : frames[n].path[j] = fullpath[j]
  <2>1. frames[n].path \in Seq(T!Entries)
    BY <1>a, <1>f DEF Activations
  <2> HIDE DEF n
  <2> QED
    BY <2>1, <1>a, <1>g
<1>2. /\ frames' \in Seq(Activations) /\ Len(frames') = n - 1
      /\ \A i \in 1..(n - 1) : frames'[i] = frames[i]
  BY <1>1, <1>f, <1>a, Shortened
<1>3. /\ fullpath' \in Seq(Parts) /\ Len(fullpath') = n
      /\ \A i \in 1..n : fullpath'[i] = fullpath[i]
  <2>1. fullpath' = SubSeq(fullpath, 1, n)
    BY <1>1, <1>h DEF T!Frame
  <2> QED
    BY <2>1, <1>f, <1>a, Shortened
<1>w. /\ n - 1 = 0 => walk' = "done"
      /\ n - 1 # 0 => walk' = "readdir"
  <2>1. frames' = <<>> <=> Len(frames') = 0
    BY <1>2
  <2> QED
    BY <2>1, <1>1, <1>2
<1>4. WalkTypes'
  <2>1. n - 1 <= MaxOpen
    <3>1. n <= MaxOpen /\ MaxOpen \in Nat
      BY <1>p, ProcessAssumption DEF WalkTypes
    <3> HIDE DEF n
    <3> QED
      BY <3>1, <1>a
  <2>2. walk' \in {"done", "readdir"}
    BY <1>1
  <2> QED
    BY <1>p, <1>1, <1>2, <1>3, <2>1, <2>2 DEF WalkTypes
<1>5. \A i \in 1..n : fullpath[i] # ""
  <2>1. "" \notin T!Entries
    BY DEF T!Entries, T!Dirs
  <2>2. \A i \in 1..n : fullpath[i] \in T!Entries
    BY <1>h
  <2> QED
    BY <2>1, <2>2
<1>6. WalkPath'
  <2>1. 1 \in 1..n /\ Len(fullpath') >= 1
    <3>1. 1 \in 1..n
      BY <1>a, Counting
    <3> QED
      BY <3>1, <1>a, <1>3
  <2>2. fullpath'[1] = "top"
    BY <2>1, <1>3, <1>p DEF WalkPath
  <2>3. \A i \in 1..Len(fullpath') : fullpath'[i] # ""
    BY <1>3, <1>5
  <2>4. n - 1 = 0 => Len(fullpath') = 1 /\ Len(frames') = 0
    <3>1. n - 1 = 0 => n = 1
      <4> HIDE DEF n
      <4> QED
        BY <1>a
    <3> QED
      BY <3>1, <1>2, <1>3
  <2>5. n - 1 # 0 => Len(frames') >= 1 /\ Len(fullpath') >= Len(frames')
    <3>1. n - 1 # 0 => n - 1 >= 1 /\ n >= n - 1
      <4> HIDE DEF n
      <4> QED
        BY <1>a
    <3> QED
      BY <3>1, <1>2, <1>3
  <2> QED
    BY <1>w, <2>1, <2>2, <2>3, <2>4, <2>5 DEF WalkPath
<1>7. WalkFrames'
  <2> DEFINE FrameKept(i) ==
        /\ frames'[i].ptr = i /\ Len(frames'[i].path) = i
        /\ i <= Len(fullpath')
        /\ \A j \in 1..i : frames'[i].path[j] = fullpath'[j]
        /\ i + 1 <= Len(fullpath') /\ fullpath'[i + 1] # "" => fullpath'[i + 1] \in frames'[i].given
        /\ i = 1 => frames'[i].dir = "top"
        /\ i = 2 /\ "d" \notin touched' /\ fullpath'[2] = "d" => frames'[i].dir = "d"
  <2>1. ASSUME NEW i \in 1..(n - 1) PROVE FrameKept(i)
    <3>1. /\ \A j \in 1..i : j \in 1..n
          /\ i \in 1..n /\ i <= n /\ i + 1 \in 1..n /\ (i = 2 => 2 \in 1..n)
      <4> HIDE DEF n
      <4> QED
        BY <1>a
    <3>2. frames'[i] = frames[i]
      BY <1>2
    <3>3. frames[i].ptr = i /\ Len(frames[i].path) = i /\ (i = 1 => frames[i].dir = "top")
      BY <3>1, <1>g
    <3>4. i <= Len(fullpath')
      BY <3>1, <1>3
    <3>5. ASSUME NEW j \in 1..i PROVE frames[i].path[j] = fullpath'[j]
      <4>1. frames[i].path[j] = fullpath[j]
        BY <3>1, <1>g
      <4> QED
        BY <4>1, <3>1, <1>3
    <3>6. fullpath'[i + 1] = fullpath[i + 1]
      BY <3>1, <1>3
    <3>7. fullpath[i + 1] # "" => fullpath[i + 1] \in frames[i].given
      <4>1. i + 1 <= Len(fullpath)
        <5> HIDE DEF n
        <5> QED
          BY <3>1, <1>a
      <4> QED
        BY <4>1, <3>1, <1>g
    <3>8. i = 2 /\ "d" \notin touched' /\ fullpath'[2] = "d" => frames[i].dir = "d"
      BY <3>1, <1>g, <1>3, <1>1
    <3> QED
      BY <3>2, <3>3, <3>4, <3>5, <3>6, <3>7, <3>8
  <2> HIDE DEF FrameKept
  <2>2. \A i \in 1..Len(frames') : FrameKept(i)
    BY <2>1, <1>2
  <2> QED
    BY <2>2 DEF WalkFrames, FrameKept
\* What has stayed in the directory has been given.
<1>8. ASSUME NEW x \in T!Entries \ touched, place[x] # <<>>, place[x][1] = frames[n].dir
      PROVE  place[x][2] \in frames[n].given
  BY <1>1, <1>8 DEF T!MustGive, T!Frame
<1>9. ASSUME NEW x \in T!Undisturbed
      PROVE  /\ Expected(x)' => Expected(x)
             /\ Expected(x) => Expected(x)'
  <2>k. PICK m : m = place[x][2]
    OBVIOUS
  <2> DEFINE came   == m \notin frames[1].given
             cameD  == "d" \notin frames[1].given
             came2  == n >= 2 /\ fullpath[2] = "d" /\ m \notin frames[2].given
             came1  == n - 1 >= 1 /\ m \notin frames'[1].given
             cameD1 == n - 1 >= 1 /\ "d" \notin frames'[1].given
             came21 == n - 1 >= 2 /\ fullpath'[2] = "d" /\ m \notin frames'[2].given
  <2>0. n # 0
    <3> HIDE DEF n
    <3> QED
      BY <1>a
  <2>w. walk' \notin {"lstat", "opendir"} /\ walk \notin {"lstat", "opendir"}
    BY <1>1
  <2>t. x # "top" /\ place[x][1] = "top" => (Expected(x) <=> came)
    BY <2>w, <2>k, <2>0, <1>a DEF Expected, Coming
  <2>b. x # "top" /\ place[x][1] # "top" => (Expected(x) <=> cameD \/ came2)
    BY <2>w, <2>k, <2>0, <1>a DEF Expected, Coming, ComingBelow
  <2>t1. x # "top" /\ place[x][1] = "top" => (Expected(x)' <=> came1)
    BY <2>w, <1>1, <2>k, <1>2 DEF Expected, Coming
  <2>b1. x # "top" /\ place[x][1] # "top" => (Expected(x)' <=> cameD1 \/ came21)
    BY <2>w, <1>1, <2>k, <1>2 DEF Expected, Coming, ComingBelow
  <2>e. x = "top" => ~Expected(x) /\ ~Expected(x)'
    BY <2>w DEF Expected
  <2>u. /\ x \in T!Entries \ touched
        /\ x # "top" => /\ place[x] # <<>> /\ place[x][1] \in {"top", "d"}
                        /\ place[x][1] = "d" => "d" \notin touched /\ place["d"] = <<"top", "d">>
    BY <1>p, UndisturbedPlace
  <2>l. n = 1 \/ n = 2 \/ (n # 2 /\ n >= 3)
    <3> HIDE DEF n
    <3> QED
      BY <1>a, Counting
  <2>1. CASE n = 1
    <3>1. ~(n - 1 >= 1) /\ ~(n - 1 >= 2) /\ ~(n >= 2) /\ 1 \in 1..n
      BY <2>1
    <3>2. frames[1].dir = "top"
      BY <3>1, <1>g
    <3>3. x # "top" /\ place[x][1] = "top" => ~came
      BY <3>2, <2>1, <2>u, <2>k, <1>8
    <3>4. x # "top" /\ place[x][1] # "top" => ~cameD
      <4>1. SUFFICES ASSUME x # "top" /\ place[x][1] # "top" PROVE "d" \in frames[1].given
        OBVIOUS
      <4>2. "d" \in T!Entries \ touched /\ place["d"] = <<"top", "d">>
        BY <4>1, <2>u DEF T!Entries, T!Dirs
      <4>3. place["d"] # <<>> /\ place["d"][1] = "top" /\ place["d"][2] = "d"
        BY <4>2
      <4> QED
        BY <4>2, <4>3, <3>2, <2>1, <1>8
    <3>5. ~came1 /\ ~cameD1 /\ ~came2 /\ ~came21
      BY <3>1
    <3> HIDE DEF came, cameD, came2, came1, cameD1, came21
    <3> QED
      BY <3>3, <3>4, <3>5, <2>t, <2>b, <2>t1, <2>b1, <2>e
  <2>2. CASE n = 2
    <3>1. n - 1 >= 1 /\ ~(n - 1 >= 2) /\ n >= 2 /\ 1 \in 1..(n - 1) /\ 2 \in 1..n
      BY <2>2
    <3>2. frames'[1] = frames[1]
      BY <3>1, <1>2
    <3>3. (came <=> came1) /\ (cameD <=> cameD1) /\ ~came21
      BY <3>1, <3>2
    <3>4. x # "top" /\ place[x][1] # "top" => ~came2
      <4>1. SUFFICES ASSUME x # "top" /\ place[x][1] # "top", fullpath[2] = "d"
                     PROVE m \in frames[2].given
        OBVIOUS
      <4>2. "d" \notin touched /\ place[x][1] = "d" /\ place[x] # <<>> /\ x \in T!Entries \ touched
        BY <4>1, <2>u
      <4>3. frames[2].dir = "d"
        BY <4>1, <4>2, <3>1, <1>g
      <4> QED
        BY <4>2, <4>3, <2>2, <2>k, <1>8
    <3> HIDE DEF came, cameD, came2, came1, cameD1, came21
    <3> QED
      BY <3>3, <3>4, <2>t, <2>b, <2>t1, <2>b1, <2>e
  <2>3. CASE n # 2 /\ n >= 3
    <3>1. n - 1 >= 1 /\ n - 1 >= 2 /\ n >= 2 /\ 1 \in 1..(n - 1) /\ 2 \in 1..(n - 1) /\ 2 \in 1..n
      <4> HIDE DEF n
      <4> QED
        BY <2>3, <1>a
    <3>2. frames'[1] = frames[1] /\ frames'[2] = frames[2] /\ fullpath'[2] = fullpath[2]
      BY <3>1, <1>2, <1>3
    <3>3. (came <=> came1) /\ (cameD <=> cameD1) /\ (came2 <=> came21)
      BY <3>1, <3>2
    <3> HIDE DEF came, cameD, came2, came1, cameD1, came21
    <3> QED
      BY <3>3, <2>t, <2>b, <2>t1, <2>b1, <2>e
  <2> QED
    BY <2>l, <2>1, <2>2, <2>3
<1>10. WalkPlaces' /\ WalkLeast' /\ WalkMost'
  <2>1. unread \subseteq unread' /\ (followed => followed')
    BY <1>1
  <2> QED
    BY <1>p, <1>1, <1>9, <2>1, WalkKeeps
<1> QED
  BY <1>4, <1>6, <1>7, <1>10 DEF WalkInv

\* lstat() of the next path.
LEMMA LstatSteps == ASSUME WalkInv, T!Lstat PROVE WalkInv'
<1>p. WalkPlaces /\ WalkTypes /\ WalkPath /\ WalkFrames /\ WalkLeast /\ WalkMost
  BY DEF WalkInv
<1> DEFINE k == Len(frames)
<1>x. PICK f : f = T!File(fullpath)
  OBVIOUS
<1>1. /\ walk = "lstat"
      /\ counted' = IF f = T!None THEN counted ELSE [counted EXCEPT ![f] = @ + 1]
      /\ IF f \in T!Dirs THEN walk' = "opendir" /\ fullpath' = Append(fullpath, "")
                         ELSE T!Returned /\ fullpath' = fullpath
      /\ followed' = (followed \/ T!Links(fullpath)) /\ frames' = frames /\ unread' = unread
      /\ UNCHANGED T!tree /\ touched' = touched /\ place' = place /\ changes' = changes
  BY <1>x DEF T!Lstat, T!tree
<1>a. k \in Nat /\ Len(fullpath) = k + 1
  BY <1>1, <1>p, WalkFrameTypes DEF WalkPath
<1>b. /\ fullpath \in Seq(Parts) /\ frames \in Seq(Activations) /\ fullpath[1] = "top"
      /\ fullpath[Len(fullpath)] # ""
      /\ \A i \in 1..Len(fullpath) : fullpath[i] \in Parts /\ (fullpath[i] = "" => i = Len(fullpath))
  BY <1>1, <1>p, WalkFrameTypes DEF WalkPath, WalkTypes
<1>s. fullpath \in Seq(Parts) /\ frames \in Seq(Activations)
  BY <1>p DEF WalkTypes
<1>n. /\ k + 1 >= 1 /\ k + 1 >= k /\ k + 2 >= 1 /\ 1 \in 1..(k + 1) /\ k + 1 \in Nat
      /\ k + 1 = 1 <=> k = 0
      /\ k + 1 = 2 <=> k = 1
      /\ k + 1 = 3 <=> k = 2
      /\ k = 0 \/ k >= 1
      /\ k >= 1 => 1 \in 1..k /\ 2 \in 1..(k + 1)
      /\ k >= 2 => 2 \in 1..k /\ 3 \in 1..(k + 1) /\ k >= 1
      /\ k = 1 => k >= 1
      /\ k = 2 => k >= 2
  <2> HIDE DEF k
  <2> QED
    BY <1>a
<1>r. \A i \in 2..Len(fullpath) : fullpath[i] \in T!Entries
  <2> SUFFICES ASSUME NEW i \in 2..Len(fullpath) PROVE fullpath[i] \in T!Entries
    OBVIOUS
  <2>1. i \in 1..Len(fullpath)
    BY <1>a
  <2> QED
    BY <2>1, <1>b DEF Parts
<1>f. /\ f \in T!Entries \cup {T!None}
      /\ k = 0 => f = "top"
      /\ k = 1 => f = T!Below("top", fullpath[2])
      /\ k = 2 => f = T!Below(T!Below("top", fullpath[2]), fullpath[3])
  <2>1. Len(fullpath) >= 1
    BY <1>a, <1>n
  <2>2. (k = 0 <=> Len(fullpath) = 1) /\ (k = 1 <=> Len(fullpath) = 2) /\ (k = 2 <=> Len(fullpath) = 3)
    BY <1>a, <1>n
  <2> HIDE DEF k
  <2> QED
    BY <1>p, <1>b, <1>x, <2>1, <2>2, FileFound
<1>d. "top" \in T!Dirs /\ "d" \in T!Dirs /\ T!None \notin T!Entries /\ T!Dirs \subseteq T!Entries
  BY DEF T!Dirs, T!Entries, T!None
<1>2. /\ fullpath' \in Seq(Parts)
      /\ Len(fullpath') = IF f \in T!Dirs THEN k + 2 ELSE k + 1
      /\ \A i \in 1..(k + 1) : fullpath'[i] = fullpath[i]
      /\ f \in T!Dirs => fullpath'[k + 2] = ""
  <2>1. CASE f \in T!Dirs
    <3>1. fullpath' = Append(fullpath, "") /\ "" \in Parts
      BY <1>1, <2>1 DEF Parts
    <3>2. Len(fullpath) + 1 = k + 2
      BY <1>a
    <3> QED
      <4>1. /\ fullpath' \in Seq(Parts) /\ Len(fullpath') = k + 2
            /\ \A i \in 1..Len(fullpath) : fullpath'[i] = fullpath[i]
            /\ fullpath'[Len(fullpath) + 1] = ""
        <5>1. PICK e \in Parts : e = ""
          BY <3>1
        <5>2. fullpath' = Append(fullpath, e)
          BY <3>1, <5>1
        <5>3. Len(fullpath) \in Nat /\ Len(fullpath') = Len(fullpath) + 1
          BY <1>s, <5>2
        <5>4. fullpath' \in Seq(Parts) /\ \A i \in 1..Len(fullpath) : fullpath'[i] = fullpath[i]
          BY <1>s, <5>2
        <5>5. fullpath'[Len(fullpath) + 1] = e
          BY <1>s, <5>2
        <5> QED
          BY <3>2, <5>1, <5>3, <5>4, <5>5
      <4> QED
        BY <1>a, <2>1, <3>2, <4>1
  <2>2. CASE f \notin T!Dirs
    BY <1>1, <1>a, <1>b, <2>2
  <2> QED
    BY <2>1, <2>2
<1>w. /\ f \in T!Dirs <=> walk' = "opendir"
      /\ walk' \in {"opendir", "readdir"} /\ (k = 0 => f \in T!Dirs)
  <2>1. k = 0 => f \in T!Dirs
    BY <1>f, <1>d
  <2>2. frames = <<>> <=> k = 0
    BY <1>s
  <2> QED
    BY <2>1, <2>2, <1>1 DEF T!Returned
<1>3. counted' \in [T!Entries -> Nat] /\ \A x \in T!Entries : counted'[x] = IF x = f THEN counted[x] + 1 ELSE counted[x]
  <2>0. counted \in [T!Entries -> Nat]
    BY <1>p DEF WalkTypes
  <2>1. CASE f = T!None
    BY <2>0, <2>1, <1>1, <1>d
  <2>2. CASE f \in T!Entries
    <3>1. counted' = [counted EXCEPT ![f] = @ + 1]
      BY <2>2, <1>1, <1>d
    <3>2. counted[f] + 1 \in Nat
      BY <2>0, <2>2
    <3> QED
      BY <2>0, <2>2, <3>1, <3>2
  <2> QED
    BY <2>1, <2>2, <1>f
<1>4. WalkTypes'
  BY <1>p, <1>1, <1>2, <1>3, <1>w DEF WalkTypes
<1>5. WalkPath'
  <2>1. Len(fullpath') >= 1 /\ fullpath'[1] = "top"
    BY <1>2, <1>n, <1>b
  <2>2. ASSUME NEW i \in 1..Len(fullpath'), fullpath'[i] = "" PROVE i = Len(fullpath')
    <3>1. CASE f \in T!Dirs
      <4>1. i \in 1..(k + 2)
        BY <3>1, <1>2
      <4>2. i = k + 2 \/ i \in 1..(k + 1)
        <5> HIDE DEF k
        <5> QED
          BY <4>1, <1>a
      <4>3. i \notin 1..(k + 1)
        <5> SUFFICES ASSUME i \in 1..(k + 1) PROVE FALSE
          OBVIOUS
        <5>1. fullpath[i] = "" /\ i \in 1..Len(fullpath)
          BY <2>2, <1>2, <1>a
        <5> QED
          BY <5>1, <1>b
      <4> QED
        BY <4>2, <4>3, <3>1, <1>2
    <3>2. CASE f \notin T!Dirs
      <4>1. fullpath' = fullpath
        BY <1>1, <3>2
      <4> QED
        BY <2>2, <4>1, <1>b
    <3> QED
      BY <3>1, <3>2
  <2>3. walk' = "opendir" => Len(fullpath') = k + 2 /\ fullpath'[k + 2] = ""
    BY <1>2, <1>w
  <2>4. walk' = "readdir" => k >= 1 /\ Len(fullpath') >= k
    BY <1>2, <1>w, <1>n
  <2>5. walk' \notin {"lstat", "done"}
    BY <1>w
  <2> QED
    BY <2>1, <2>2, <2>3, <2>4, <2>5, <1>1 DEF WalkPath
<1>g. \A i \in 1..k :
        /\ frames[i].ptr = i /\ Len(frames[i].path) = i
        /\ \A j \in 1..i : frames[i].path[j] = fullpath[j]
        /\ i + 1 <= Len(fullpath) /\ fullpath[i + 1] # "" => fullpath[i + 1] \in frames[i].given
        /\ i = 1 => frames[i].dir = "top"
        /\ i = 2 /\ "d" \notin touched /\ fullpath[2] = "d" => frames[i].dir = "d"
  BY <1>p DEF WalkFrames
<1>6. WalkFrames'
  <2> DEFINE FrameKept(i) ==
        /\ frames'[i].ptr = i /\ Len(frames'[i].path) = i
        /\ i <= Len(fullpath')
        /\ \A j \in 1..i : frames'[i].path[j] = fullpath'[j]
        /\ i + 1 <= Len(fullpath') /\ fullpath'[i + 1] # "" => fullpath'[i + 1] \in frames'[i].given
        /\ i = 1 => frames'[i].dir = "top"
        /\ i = 2 /\ "d" \notin touched' /\ fullpath'[2] = "d" => frames'[i].dir = "d"
  <2>1. ASSUME NEW i \in 1..k PROVE FrameKept(i)
    <3>1. /\ \A j \in 1..i : j \in 1..(k + 1)
          /\ i <= k + 1 /\ i <= k + 2 /\ i + 1 \in 1..(k + 1) /\ i + 1 <= k + 1 /\ (i = 2 => 2 \in 1..(k + 1))
      <4> HIDE DEF k
      <4> QED
        BY <1>a
    <3>2. frames'[i] = frames[i]
      BY <1>1
    <3>3. frames[i].ptr = i /\ Len(frames[i].path) = i /\ (i = 1 => frames[i].dir = "top")
      BY <1>g
    <3>4. i <= Len(fullpath')
      BY <3>1, <1>2
    <3>5. ASSUME NEW j \in 1..i PROVE frames[i].path[j] = fullpath'[j]
      <4>1. frames[i].path[j] = fullpath[j]
        BY <1>g
      <4> QED
        BY <4>1, <3>1, <1>2
    <3>6. fullpath'[i + 1] = fullpath[i + 1]
      BY <3>1, <1>2
    <3>7. fullpath[i + 1] # "" => fullpath[i + 1] \in frames[i].given
      <4>1. i + 1 <= Len(fullpath)
        BY <3>1, <1>a
      <4> QED
        BY <4>1, <1>g
    <3>8. i = 2 /\ "d" \notin touched' /\ fullpath'[2] = "d" => frames[i].dir = "d"
      BY <3>1, <1>g, <1>2, <1>1
    <3> QED
      BY <3>2, <3>3, <3>4, <3>5, <3>6, <3>7, <3>8
  <2> HIDE DEF FrameKept
  <2>2. \A i \in 1..Len(frames') : FrameKept(i)
    BY <2>1, <1>1
  <2> QED
    BY <2>2 DEF WalkFrames, FrameKept
\* The path that lstat() has looked at has been given to the activations it is in.
<1>i. \A i \in 1..k : i + 1 <= Len(fullpath) /\ fullpath[i + 1] # "" =>
                       fullpath[i + 1] \in frames[i].given
  BY <1>g
<1>h. /\ k >= 1 => fullpath[2] \in frames[1].given
      /\ k >= 2 => fullpath[3] \in frames[2].given
  <2>1. k >= 1 => 1 \in 1..k /\ 1 + 1 = 2 /\ 2 <= Len(fullpath) /\ 2 \in 2..Len(fullpath)
    <3> HIDE DEF k
    <3> QED
      BY <1>a
  <2>2. k >= 2 => 2 \in 1..k /\ 2 + 1 = 3 /\ 3 <= Len(fullpath) /\ 3 \in 2..Len(fullpath)
    <3> HIDE DEF k
    <3> QED
      BY <1>a
  <2>3. "" \notin T!Entries
    BY DEF T!Entries, T!Dirs
  <2>4. ASSUME k >= 1 PROVE fullpath[2] \in frames[1].given
    <3>1. fullpath[2] # ""
      BY <2>1, <2>3, <2>4, <1>r
    <3> QED
      <4>1. 1 \in 1..k /\ 1 + 1 <= Len(fullpath) /\ fullpath[1 + 1] # "" /\ 1 + 1 = 2
        BY <2>1, <2>4, <3>1
      <4>2. fullpath[1 + 1] \in frames[1].given
        BY <4>1, <1>i
      <4> QED
        BY <4>1, <4>2
  <2>5. ASSUME k >= 2 PROVE fullpath[3] \in frames[2].given
    <3>1. fullpath[3] # ""
      BY <2>2, <2>3, <2>5, <1>r
    <3> QED
      <4>1. 2 \in 1..k /\ 2 + 1 <= Len(fullpath) /\ fullpath[2 + 1] # "" /\ 2 + 1 = 3
        BY <2>2, <2>5, <3>1
      <4>2. fullpath[2 + 1] \in frames[2].given
        BY <4>1, <1>i
      <4> QED
        BY <4>1, <4>2
  <2> QED
    BY <2>4, <2>5
<1>7. ASSUME NEW x \in T!Undisturbed
      PROVE  /\ Expected(x) => Expected(x)' \/ x = f
             /\ Expected(x)' => Expected(x)
             /\ x = f /\ ~T!Links(fullpath) => Expected(x) /\ ~Expected(x)'
  <2>k. PICK m : m = place[x][2]
    OBVIOUS
  <2> DEFINE open  == f \in T!Dirs
             came  == k >= 1 /\ m \notin frames[1].given
             cameD == k >= 1 /\ "d" \notin frames[1].given
             came2 == k >= 2 /\ fullpath[2] = "d" /\ m \notin frames[2].given
             atN   == k = 1 /\ fullpath[2] = m
             atD   == k = 1 /\ fullpath[2] = "d"
             at2   == k = 2 /\ fullpath[2] = "d" /\ fullpath[3] = m
  <2>w. /\ walk = "lstat" /\ walk' # "lstat" /\ (walk' = "opendir" <=> open) /\ (k = 0 => open)
    BY <1>1, <1>w
  <2>l. /\ Len(fullpath) = 2 <=> k = 1
        /\ Len(fullpath) = 3 <=> k = 2
        /\ open => (Len(fullpath') = 3 <=> k = 1)
        /\ k >= 1 => fullpath'[2] = fullpath[2]
    <3>1. k + 2 = 3 <=> k = 1
      <4> HIDE DEF k
      <4> QED
        BY <1>a
    <3> QED
      BY <3>1, <1>a, <1>n, <1>2
  <2>t. x # "top" /\ place[x][1] = "top" => (Expected(x) <=> k = 0 \/ came \/ atN)
    BY <2>w, <2>k, <2>l DEF Expected, Coming
  <2>b. x # "top" /\ place[x][1] # "top" =>
          (Expected(x) <=> k = 0 \/ cameD \/ atD \/ came2 \/ at2)
    BY <2>w, <2>k, <2>l DEF Expected, Coming, ComingBelow
  <2>t1. x # "top" /\ place[x][1] = "top" => (Expected(x)' <=> k = 0 \/ came)
    BY <2>w, <2>k, <1>1 DEF Expected, Coming
  <2>b1. x # "top" /\ place[x][1] # "top" =>
          (Expected(x)' <=> k = 0 \/ cameD \/ (open /\ atD) \/ came2)
    BY <2>w, <2>k, <2>l, <1>1, <1>n DEF Expected, Coming, ComingBelow
  <2>e. x = "top" => (Expected(x) <=> k = 0) /\ ~Expected(x)'
    BY <2>w DEF Expected
  <2>u. /\ x \in T!Entries \ touched
        /\ x # "top" => /\ place[x] = <<place[x][1], m>> /\ m \in T!Entries
                        /\ place[x][1] \in {"top", "d"}
                        /\ place[x][1] = "d" => place["d"] = <<"top", "d">>
    BY <1>p, <2>k, UndisturbedPlace
  <2>h. (atN => ~came) /\ (atD => ~cameD) /\ (at2 => ~came2 /\ ~cameD)
    BY <1>h, <1>n
  \* Where the path leads to x.
  <2>1. x # "top" /\ place[x][1] = "top" /\ atN => f = x
    BY <2>u, <1>p, <1>d, <1>f, BelowIs
  <2>2. x # "top" /\ place[x][1] # "top" /\ atD => f = "d"
    BY <2>u, <1>p, <1>d, <1>f, BelowIs
  <2>3. x # "top" /\ place[x][1] # "top" /\ at2 => f = x
    <3> SUFFICES ASSUME x # "top", place[x][1] # "top", at2 PROVE f = x
      OBVIOUS
    <3>1. place["d"] = <<"top", "d">> /\ place[x] = <<"d", m>> /\ m \in T!Entries
      BY <2>u
    <3>2. T!Below("top", "d") = "d" /\ T!Below("d", m) = x
      BY <3>1, <2>u, <1>p, <1>d, BelowIs
    <3> QED
      BY <3>2, <1>f
  <2>4. k = 0 => f = "top"
    BY <1>f
  <2>5. ASSUME x = f, ~T!Links(fullpath)
        PROVE  \/ k = 0 /\ x = "top"
               \/ x # "top" /\ place[x][1] = "top" /\ atN
               \/ x # "top" /\ place[x][1] # "top" /\ at2
    <3>1. Len(fullpath) >= 1 /\ T!File(fullpath) = x /\ x \in T!Entries
      BY <1>a, <1>n, <1>x, <2>5, <2>u
    <3>2. \/ Len(fullpath) = 1 /\ x = "top"
          \/ Len(fullpath) = 2 /\ place[x] = <<"top", fullpath[2]>>
          \/ Len(fullpath) = 3 /\ place[x] = <<"d", fullpath[3]>> /\ place["d"] = <<"top", fullpath[2]>>
      BY <1>p, <1>b, <1>r, <2>5, <3>1, OnePath
    <3>3. Len(fullpath) = 1 <=> k = 0
      BY <1>a, <1>n
    <3>4. place["top"] = <<>>
      BY <1>p DEF WalkPlaces
    <3>5. place[x] = <<"top", fullpath[2]>> => x # "top" /\ place[x][1] = "top" /\ m = fullpath[2]
      BY <3>4, <2>k
    <3>6. place[x] = <<"d", fullpath[3]>> => x # "top" /\ place[x][1] = "d" /\ m = fullpath[3]
      BY <3>4, <2>k
    <3>7. place["d"] = <<"top", fullpath[2]>> /\ x # "top" /\ place[x][1] = "d" => fullpath[2] = "d"
      BY <2>u
    <3> QED
      BY <3>2, <3>3, <3>5, <3>6, <3>7, <2>l
  <2>6. /\ k = 0 => ~atN /\ ~atD /\ ~at2
        /\ k = 1 => ~came2
        /\ k = 2 => ~atN /\ ~atD
    BY <1>n
  <2>7. (atN => k # 0) /\ (at2 => k # 0 /\ ~atD)
    BY <2>6
  <2>8. atD /\ f = "d" => open
    BY <1>d
  <2>9. x # "top" => place[x][1] = "top" \/ place[x][1] # "top"
    OBVIOUS
  <2> HIDE DEF open, came, cameD, came2, atN, atD, at2, k
  <2>10. CASE x = "top"
    BY <2>10, <2>e, <2>4, <2>5
  <2>11. CASE x # "top" /\ place[x][1] = "top"
    BY <2>11, <2>t, <2>t1, <2>1, <2>5, <2>h, <2>7
  <2>12. CASE x # "top" /\ place[x][1] # "top"
    BY <2>12, <2>b, <2>b1, <2>2, <2>3, <2>5, <2>h, <2>7, <2>8
  <2> QED
    BY <2>10, <2>11, <2>12
<1>8. WalkPlaces' /\ T!Undisturbed' = T!Undisturbed /\ \A x \in T!Undisturbed : T!Above(x)' = T!Above(x)
  BY <1>p, <1>1 DEF WalkPlaces, T!Undisturbed, T!Above
<1>9. \A x \in T!Undisturbed : x \in T!Entries /\ counted[x] \in Nat
  BY <1>p DEF T!Undisturbed, WalkTypes
<1>10. WalkLeast'
  <2> SUFFICES ASSUME NEW x \in T!Undisturbed, T!Above(x) \cap unread = {}
               PROVE  counted'[x] >= 1 \/ Expected(x)'
    BY <1>1, <1>8 DEF WalkLeast
  <2>1. counted[x] >= 1 \/ Expected(x)
    BY <1>p DEF WalkLeast
  <2>2. counted[x] >= 1 \/ x = f => counted'[x] >= 1
    BY <1>3, <1>9
  <2> QED
    BY <2>1, <2>2, <1>7
<1>11. WalkMost'
  <2> SUFFICES ASSUME ~followed', NEW x \in T!Undisturbed
               PROVE  counted'[x] <= 1 /\ (Expected(x)' => counted'[x] = 0)
    BY <1>8 DEF WalkMost
  <2>1. ~followed /\ ~T!Links(fullpath)
    BY <1>1
  <2>2. counted[x] <= 1 /\ (Expected(x) => counted[x] = 0)
    BY <2>1, <1>p DEF WalkMost
  <2>3. CASE x = f
    <3>1. counted'[x] = 1
      BY <2>1, <2>2, <2>3, <1>3, <1>7, <1>9
    <3> QED
      BY <3>1, <2>1, <2>3, <1>7
  <2>4. CASE x # f
    BY <2>2, <2>4, <1>3, <1>7, <1>9
  <2> QED
    BY <2>3, <2>4
<1> QED
  BY <1>4, <1>5, <1>6, <1>8, <1>10, <1>11 DEF WalkInv

\* The walk and who renames its files, together.
LEMMA WalkSteps == WalkInv /\ T!Next => WalkInv'
<1> SUFFICES ASSUME WalkInv, T!Next PROVE WalkInv'
  OBVIOUS
<1>1. T!Lstat \/ T!OpendirFails \/ T!Opendir \/ T!ReadName \/ T!EndOfDir \/ T!Others
  BY DEF T!Next, T!Walk
<1>2. T!Lstat => WalkInv'
  BY LstatSteps
<1>3. T!OpendirFails => WalkInv'
  BY OpendirFailsSteps
<1>4. T!Opendir => WalkInv'
  BY OpendirSteps
<1>5. T!ReadName => WalkInv'
  BY ReadNameSteps
<1>6. T!EndOfDir => WalkInv'
  BY EndOfDirSteps
<1>7. T!Others => WalkInv'
  BY TreeSteps
<1> QED
  BY <1>1, <1>2, <1>3, <1>4, <1>5, <1>6, <1>7

\* The invariant of myftw.c says what the run checks.
LEMMA WalkHolds == WalkInv => T!TypeOK /\ T!PathsKept /\ T!EachCountedOnce
<1> SUFFICES ASSUME WalkInv PROVE T!TypeOK /\ T!PathsKept /\ T!EachCountedOnce
  OBVIOUS
<1>p. WalkPlaces /\ WalkTypes /\ WalkPath /\ WalkFrames /\ WalkLeast /\ WalkMost
  BY DEF WalkInv
<1> DEFINE k == Len(frames)
<1>s. fullpath \in Seq(Parts) /\ frames \in Seq(Activations) /\ k \in Nat /\ Len(fullpath) \in Nat
  BY <1>p, WalkFrameTypes DEF WalkTypes
<1>g. \A i \in 1..k : /\ frames[i].ptr = i /\ Len(frames[i].path) = i /\ i <= Len(fullpath)
                      /\ \A j \in 1..i : frames[i].path[j] = fullpath[j]
                      /\ frames[i].path \in Seq(T!Entries)
  BY <1>p, WalkFrameTypes DEF WalkFrames
<1>1. T!TypeOK
  <2> DEFINE Wide == [dir : T!Dirs, ptr : Nat, given : SUBSET (T!Entries \cup {".."}),
                      path : Seq(T!Entries \cup {".."}), first : SUBSET T!Entries]
  <2>1. Seq(T!Entries) \subseteq Seq(T!Entries \cup {".."})
    <3> DEFINE A == T!Entries
               B == T!Entries \cup {".."}
    <3>1. A \subseteq B
      OBVIOUS
    <3> HIDE DEF A, B
    <3>2. Seq(A) \subseteq Seq(B)
      BY <3>1
    <3> QED
      BY <3>2 DEF A, B
  <2>2. Activations \subseteq Wide
    BY <2>1 DEF Activations
  <2>3. frames \in Seq(Wide)
    <3> HIDE DEF Wide
    <3> QED
      BY <2>2, <1>s
  <2>4. touched \subseteq T!Entries
    BY <1>p DEF WalkPlaces
  <2> QED
    BY <1>p, <2>3, <2>4 DEF T!TypeOK, WalkPlaces, WalkTypes
<1>2. ASSUME NEW i \in 1..k PROVE SubSeq(fullpath, 1, frames[i].ptr) = frames[i].path
  <2>1. i \in 0..Len(fullpath) /\ frames[i].ptr = i
    <3>1. i <= Len(fullpath) /\ frames[i].ptr = i
      BY <1>g
    <3> HIDE DEF k
    <3> QED
      BY <3>1, <1>s
  <2>2. /\ SubSeq(fullpath, 1, i) \in Seq(Parts) /\ Len(SubSeq(fullpath, 1, i)) = i
        /\ \A j \in 1..i : SubSeq(fullpath, 1, i)[j] = fullpath[j]
    BY <1>s, <2>1, Shortened
  <2> DEFINE a == SubSeq(fullpath, 1, i)
             b == frames[i].path
  <2>3. a \in Seq(Parts) /\ b \in Seq(T!Entries) /\ Len(a) = Len(b) /\ \A j \in 1..Len(a) : a[j] = b[j]
    BY <1>g, <2>2
  <2> HIDE DEF a, b
  <2>4. a = b
    BY <2>3, SameSequence
  <2> QED
    BY <2>1, <2>4 DEF a, b
<1>3. ASSUME NEW i \in 2..k
      PROVE  /\ Len(frames[i].path) = Len(frames[i - 1].path) + 1
             /\ SubSeq(frames[i].path, 1, Len(frames[i].path) - 1) = frames[i - 1].path
  <2>1. i \in 1..k /\ i - 1 \in 1..k /\ (i - 1) + 1 = i /\ i - 1 \in 0..i /\ \A j \in 1..(i - 1) : j \in 1..i
    <3> HIDE DEF k
    <3> QED
      BY <1>s
  <2>2. /\ Len(frames[i].path) = i /\ Len(frames[i - 1].path) = i - 1
        /\ frames[i].path \in Seq(T!Entries) /\ frames[i - 1].path \in Seq(T!Entries)
    BY <1>g, <2>1
  <2> DEFINE a == SubSeq(frames[i].path, 1, i - 1)
             b == frames[i - 1].path
  <2>3. a \in Seq(T!Entries) /\ Len(a) = i - 1 /\ \A j \in 1..(i - 1) : a[j] = frames[i].path[j]
    <3> DEFINE q == frames[i].path
    <3>1. q \in Seq(T!Entries) /\ i - 1 \in 0..Len(q)
      BY <2>1, <2>2
    <3> HIDE DEF q
    <3>2. /\ SubSeq(q, 1, i - 1) \in Seq(T!Entries) /\ Len(SubSeq(q, 1, i - 1)) = i - 1
          /\ \A j \in 1..(i - 1) : SubSeq(q, 1, i - 1)[j] = q[j]
      BY <3>1, Shortened
    <3> QED
      BY <3>2 DEF q
  <2>4. \A j \in 1..(i - 1) : frames[i].path[j] = fullpath[j] /\ b[j] = fullpath[j]
    BY <1>g, <2>1
  <2>5. b \in Seq(T!Entries) /\ Len(b) = i - 1
    BY <2>2
  <2> HIDE DEF a, b
  <2>6. a = b
    BY <2>3, <2>4, <2>5, SameSequence
  <2> QED
    BY <2>1, <2>2, <2>6 DEF a, b
<1>4. walk = "done" => fullpath \in {<<"top">>, <<"top", "">>}
  <2>1. SUFFICES ASSUME walk = "done" PROVE fullpath = <<"top">> \/ fullpath = <<"top", "">>
    OBVIOUS
  <2>2. fullpath[1] = "top" /\ (Len(fullpath) = 1 \/ (Len(fullpath) = 2 /\ fullpath[2] = ""))
    BY <1>p, <2>1 DEF WalkPath
  <2>3. PICK t, e : t = "top" /\ e = ""
    OBVIOUS
  <2>4. CASE Len(fullpath) = 1
    <3>1. fullpath = <<t>>
      <4>1. fullpath[1] = t
        BY <2>2, <2>3
      <4>2. \A i \in 1..Len(fullpath) : fullpath[i] = <<t>>[i]
        BY <2>4, <4>1
      <4>3. <<t>> \in Seq({t}) /\ Len(<<t>>) = 1
        OBVIOUS
      <4> QED
        BY <1>s, <2>4, <4>2, <4>3, SameSequence
    <3> QED
      BY <3>1, <2>3
  <2>5. CASE Len(fullpath) = 2 /\ fullpath[2] = ""
    <3>1. fullpath[1] = t /\ fullpath[2] = e
      BY <2>2, <2>3, <2>5
    <3>2. fullpath = <<t, e>>
      <4>1. \A i \in 1..Len(fullpath) : fullpath[i] = <<t, e>>[i]
        <5>1. <<t, e>>[1] = t /\ <<t, e>>[2] = e /\ \A i \in 1..2 : i = 1 \/ i = 2
          OBVIOUS
        <5> QED
          BY <2>5, <3>1, <5>1
      <4>2. <<t, e>> \in Seq({t, e}) /\ Len(<<t, e>>) = 2
        OBVIOUS
      <4> QED
        BY <1>s, <2>5, <4>1, <4>2, SameSequence
    <3> QED
      BY <3>2, <2>3
  <2> QED
    BY <2>2, <2>4, <2>5
<1>5. T!PathsKept
  BY <1>2, <1>3, <1>4 DEF T!PathsKept
<1>6. T!EachCountedOnce
  <2>1. ASSUME walk = "done", NEW x \in T!Undisturbed PROVE ~Expected(x)
    <3>1. Len(frames) = 0
      BY <1>p, <2>1 DEF WalkPath
    <3>2. ~(Len(frames) >= 1) /\ ~(Len(frames) >= 2)
      BY <3>1
    <3>3. PICK m : m = place[x][2]
      OBVIOUS
    <3>4. ~Coming(m) /\ ~Coming("d") /\ ~ComingBelow(m)
      BY <2>1, <3>1, <3>2 DEF Coming, ComingBelow
    <3> QED
      BY <2>1, <3>3, <3>4 DEF Expected
  <2> QED
    BY <1>p, <2>1 DEF T!EachCountedOnce, WalkLeast, WalkMost
<1> QED
  BY <1>1, <1>5, <1>6
------------------------------------------------------------------------------
(* The program that runs *)

Programs == {"system", "waitpid", "copro", "msg", "sharing", "turns", "atomic", "myftw",
             "pipe", "pager", "fifo", "forkexec"}

\* The invariant of the program that runs.
IInv ==
  /\ prog \in Programs
  /\ prog = "system" => SystemInv
  /\ prog = "waitpid" => DoubleInv
  /\ prog = "copro" => CoproInv
  /\ prog = "msg" => QueueInv
  /\ prog = "fifo" => FifoInv
  /\ prog \in {"sharing", "turns"} => SharingInv
  /\ prog = "atomic" => AtomicInv
  /\ prog = "forkexec" => ExecInv
  /\ prog = "myftw" => WalkInv
  /\ prog \in {"pipe", "pager"} => CopyInv

LEMMA InvStarts == Init => IInv /\ (prog = "atomic" => WA!Log!Init)
<1> SUFFICES ASSUME Init PROVE IInv /\ (prog = "atomic" => WA!Log!Init)
  OBVIOUS
<1>1. prog \in Programs /\ C!CoproInit /\ P!FifoInit
  BY DEF Init, Programs
<1>2. /\ prog = "system" => S!SystemInit
      /\ prog = "waitpid" => S!DoubleInit
      /\ prog = "msg" => P!QueueInit
      /\ prog \in {"sharing", "turns", "atomic"} => W!Init
  BY DEF Init
<1>3. /\ prog = "forkexec" => X!ForkExecInit
      /\ prog = "myftw" => T!Init
      /\ prog \in {"pipe", "pager"} => P!CopyInit
  BY DEF Init
<1> QED
  BY <1>1, <1>2, <1>3, SystemStarts, DoubleStarts, CoproStarts, QueueStarts, FifoStarts,
     SharingStarts, AtomicStarts, ExecStarts, WalkStarts, CopyStarts DEF IInv

LEMMA CopyRuns == ASSUME P!CopyNext PROVE prog' = prog
BY DEF P!CopyNext, P!CopyParent, P!CopyChild, P!CopyFork, P!CloseRead, P!CopyWrite, P!CloseWrite,
       P!Waitpid, P!FgetsFails, P!ChildCloseWrite, P!CopyExec, P!Read, P!Quit

\* The step of a program is that of the program that runs.
LEMMA WhoseStep ==
  ASSUME Next
  PROVE  /\ prog' = prog
         /\ \/ prog = "system" /\ S!SystemNext
            \/ prog = "waitpid" /\ S!DoubleNext
            \/ prog = "copro" /\ C!CoproNext
            \/ prog = "msg" /\ P!QueueNext
            \/ prog = "fifo" /\ P!FifoNext
            \/ prog = "sharing" /\ W!Next
            \/ prog = "turns" /\ W1!Next
            \/ prog = "atomic" /\ WA!Next
            \/ prog = "forkexec" /\ X!ForkExecNext
            \/ prog = "myftw" /\ T!Next
            \/ prog \in {"pipe", "pager"} /\ P!CopyNext
BY CopyRuns DEF Next, InSystem, InFork, InCopro, InQueue, InFile, InWalk, InPipe, InFifo, InExec

LEMMA ExecStutters == ASSUME ExecInv, UNCHANGED execVars PROVE ExecInv'
<1> USE DEF execVars
<1>e. ExecTypes => ExecTypes'
  BY DEF ExecTypes, Mains
<1>k. ExecKids /\ ExecReaped => ExecKids' /\ ExecReaped'
  BY DEF ExecKids, ExecReaped
<1>g. ExecClock /\ ExecGlobs => ExecClock' /\ ExecGlobs'
  BY DEF ExecClock, ExecGlobs, Killed1
<1>1. ExecControl => ExecControl'
  BY <1>e, <1>k, <1>g DEF ExecControl
<1>s. Stages' = Stages /\ AllTexts' = AllTexts /\ (Killed1' <=> Killed1)
  BY DEF Stages, AllTexts, Elems, Killed1
<1>n. \A t : Numbered(t)' <=> Numbered(t)
  BY <1>s DEF Numbered
<1>m. \A t : Known(t)' <=> Known(t)
  BY <1>n DEF Known
<1>p. \A t : Proper(t)' <=> Proper(t)
  BY <1>m, <1>s DEF Proper, Shown, Valued, Listed
<1>2. ExecTexts => ExecTexts'
  BY <1>s, <1>p DEF ExecTexts
<1>3. ExecHeld => ExecHeld'
  BY DEF ExecHeld, Elems
<1>4. ExecOnce => ExecOnce'
  BY DEF ExecOnce, Copied, AllOnce, Once, Elems
<1> QED
  BY <1>1, <1>2, <1>3, <1>4 DEF ExecInv

LEMMA WalkStutters == ASSUME WalkInv, UNCHANGED walkVars PROVE WalkInv'
<1> USE DEF walkVars
<1>1. WalkPlaces => WalkPlaces'
  BY DEF WalkPlaces
<1>2. WalkTypes => WalkTypes'
  BY DEF WalkTypes
<1>3. WalkPath => WalkPath'
  BY DEF WalkPath
<1>4. WalkFrames => WalkFrames'
  BY DEF WalkFrames
<1>5. T!Undisturbed' = T!Undisturbed /\ \A x : T!Above(x)' = T!Above(x)
  BY DEF T!Undisturbed, T!Above
<1>6. \A x : Expected(x)' <=> Expected(x)
  BY DEF Expected, Coming, ComingBelow
<1>7. WalkLeast => WalkLeast'
  BY <1>5, <1>6 DEF WalkLeast
<1>8. WalkMost => WalkMost'
  BY <1>5, <1>6 DEF WalkMost
<1> QED
  BY <1>1, <1>2, <1>3, <1>4, <1>7, <1>8 DEF WalkInv

LEMMA FifoStutters == ASSUME FifoInv, UNCHANGED fifoVars PROVE FifoInv'
<1> USE DEF fifoVars
<1>1. FifoTypes => FifoTypes'
  BY DEF FifoTypes
<1>2. FifoStages /\ FifoMet => FifoStages' /\ FifoMet'
  BY DEF FifoStages, FifoMet
<1>3. FifoOrder /\ FifoAhead => FifoOrder' /\ FifoAhead'
  BY DEF FifoOrder, FifoAhead
<1>4. FifoGiven => FifoGiven'
  BY DEF FifoGiven
<1>5. FifoLate => FifoLate'
  BY DEF FifoLate
<1>r. \A r, m : (Reads(r, m)' <=> Reads(r, m)) /\ (Holds(r, m)' <=> Holds(r, m))
  BY DEF Reads, Holds
<1>6. FifoCarried => FifoCarried'
  BY <1>r DEF FifoCarried
<1> QED
  BY <1>1, <1>2, <1>3, <1>4, <1>5, <1>6 DEF FifoInv

\* Nothing changes.
LEMMA InvStutters == ASSUME IInv, UNCHANGED vars PROVE IInv'
<1> USE DEF vars, systemVars, forkVars, coproVars, queueVars, fileVars, pipeVars
<1>1. SystemInv => SystemInv'
  BY DEF SystemInv, S!SystemTypeOK, S!NoChildLeft
<1>2. DoubleInv => DoubleInv'
  BY DEF DoubleInv, S!DoubleTypeOK, DoubleKin, DoubleWait
<1>3. CoproInv => CoproInv'
  BY DEF CoproInv, C!CoproTypeOK, CoproHolds, CoproTalk, NothingUnderWay, UnderWay, C!Line
<1>p. \A m : PlacesOf(m)' = PlacesOf(m) /\ TakenBy(m)' = TakenBy(m)
  BY DEF PlacesOf, TakenBy
<1>q. \A m : (InOnePlace(m)' <=> InOnePlace(m)) /\ (Nowhere(m)' <=> Nowhere(m))
  BY <1>p DEF InOnePlace, Nowhere
<1>o. QueueOnce => QueueOnce'
  BY <1>q DEF QueueOnce
<1>4. QueueInv => QueueInv'
  BY <1>o DEF QueueInv, QueueTypes, QueueGot, QueueEarlier
<1>5. FileTypes(SharingSize) => FileTypes(SharingSize)'
  BY DEF FileTypes
<1>6. InPlace(SharingSize) => InPlace(SharingSize)'
  BY DEF InPlace, Aligned, ByteOk, Past
<1>7. FileTypes(AtomicSize) => FileTypes(AtomicSize)'
  BY DEF FileTypes
<1>8. Kept(AtomicSize) => Kept(AtomicSize)'
  BY DEF Kept
<1>9. CopyInv => CopyInv'
  BY DEF CopyInv, CopyTypes, CopyHolds, CopyLines
<1>10. prog' = prog /\ UNCHANGED execVars /\ UNCHANGED walkVars /\ UNCHANGED fifoVars
  OBVIOUS
<1> QED
  BY <1>1, <1>2, <1>3, <1>4, <1>5, <1>6, <1>7, <1>8, <1>9, <1>10, ExecStutters, WalkStutters, FifoStutters
     DEF IInv, SharingInv, AtomicInv

LEMMA InvSteps == ASSUME IInv, [Next]_vars PROVE IInv'
<1>1. CASE Next
  BY <1>1, WhoseStep, SystemSteps, DoubleSteps, CoproSteps, QueueSteps, FifoSteps, SharingStep,
     AtomicStep, ExecSteps, WalkSteps, CopySteps DEF IInv
<1> QED
  BY <1>1, InvStutters

\* Each program keeps the types of what it has: the statuses, the ends of pipes, the
\* messages, the bytes and offsets of the file, the texts and the images of processes,
\* and the path and the directories of the walk, for any number of lines, commands,
\* messages, changes and descriptors, and any set of senders, readers and writers.
THEOREM TypeCorrect == Spec => []TypeOK
<1>1. IInv => TypeOK
  BY SystemHolds, DoubleHolds, CoproAnswers, QueueHolds, FifoHolds, SharingHolds, AtomicHolds,
     ExecTyped, WalkHolds, CopyHoldsTrue DEF IInv, Programs, TypeOK
<1>2. IInv /\ [Next]_vars => IInv'
  BY InvSteps
<1> QED
  BY InvStarts, <1>1, <1>2, PTL DEF Spec

\* System() returns with no child left, the trick of the second fork leaves no zombie
\* of ours and the program is told the truth, the parent of a pager ends before it only
\* when a call fails, and a parent that loops has the statuses of its children in order.
THEOREM ChildrenAlways == Spec => []ChildrenAccounted
<1>1. IInv => ChildrenAccounted
  BY SystemHolds, DoubleHolds, ExecAccounted, CopyHoldsTrue DEF IInv, ChildrenAccounted
<1>2. IInv /\ [Next]_vars => IInv'
  BY InvSteps
<1> QED
  BY InvStarts, <1>1, <1>2, PTL DEF Spec

\* Each line of copro.c gets its own answer, no message is lost or taken twice, bytes of
\* the shared file are where an own offset puts them and O_APPEND keeps all of them, the
\* walk counts what nobody disturbs once, pager and FIFO deliver the lines in order, and
\* what the programs that fork print is about the right child and memory.
THEOREM NothingLostEver == Spec => []NothingLost
<1>1. IInv => NothingLost
  BY CoproAnswers, QueueHolds, FifoHolds, SharingHolds, AtomicHolds, ExecTold, WalkHolds, CopyHoldsTrue
     DEF IInv, NothingLost
<1>2. IInv /\ [Next]_vars => IInv'
  BY InvSteps
<1> QED
  BY InvStarts, <1>1, <1>2, PTL DEF Spec

\* The status that System() returns is that of the command of this call, msgrcv() gives
\* the first message of its type, and an interrupt ends a command and nothing else.
THEOREM PromisesKept == Spec => CallsKeepPromises
<1> DEFINE Promise == /\ prog = "system" => S!StatusOfOwnChild
                      /\ prog = "msg" => P!OldestFirst
                      /\ prog = "forkexec" => X!InterruptEndsCommand
<1>1. IInv /\ [Next]_vars => [Promise]_vars
  <2> SUFFICES ASSUME IInv, Next PROVE Promise
    OBVIOUS
  <2> QED
    BY WhoseStep, SystemStatus, QueueOldest, ExecInterrupts DEF IInv
<1>2. IInv /\ [Next]_vars => IInv'
  BY InvSteps
<1> QED
  BY InvStarts, <1>1, <1>2, PTL DEF Spec, CallsKeepPromises

\* The file of 9-atomic is an append-only log: every change of it appends a record, or
\* the part of one that a short write has written, whichever of the two runs writes.
THEOREM AppendsOnly == Spec => ImplementsAppendLog
<1> DEFINE First  == prog = "atomic" => WA!Log!Init
           Append1 == prog = "atomic" => WA!Log!AppendRecord
<1>1. Init => First
  BY InvStarts
<1>2. IInv /\ [Next]_vars => [Append1]_content
  <2> SUFFICES ASSUME IInv, Next, content' # content, prog = "atomic" PROVE WA!Log!AppendRecord
    BY DEF vars, fileVars
  <2> QED
    BY WhoseStep, AtomicStep DEF IInv
<1>3. IInv /\ [Next]_vars => IInv'
  BY InvSteps
<1> QED
  BY InvStarts, <1>1, <1>2, <1>3, PTL DEF Spec, ImplementsAppendLog
=============================================================================
