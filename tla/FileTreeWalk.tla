---------------------------- MODULE FileTreeWalk ----------------------------
(***************************************************************************)
(* 4-filedir/26-myftw/myftw.c: dopath() walks a tree by path names, which  *)
(* all live in one buffer, while another process removes and renames files. *)
(***************************************************************************)
EXTENDS Naturals, Sequences

CONSTANTS MaxOpen,   \* descriptors that opendir() can have open at once
          MaxChanges \* bound on what the other process does

\* A directory, one below it, a file, and a symbolic link to the first.
Dirs == {"top", "d"}
Entries == Dirs \cup {"f", "link"}
None == "none"

VARIABLES place,    \* directory and name of each file, or <<>>
          closed,   \* directories that this user may not read
          walk,     \* the call that comes next
          fullpath, \* its components; the last is "" after a slash
          frames,   \* the activations of dopath() that read a directory
          counted,  \* how often each file was counted
          unread,   \* directories reported as FTW_DNR
          followed, \* opendir() or lstat() went through a link
          touched,  \* files that were renamed, replaced or removed
          changes

walker == <<walk, fullpath, frames, counted, unread, followed>>
tree   == <<place, closed, touched, changes>>
vars   == <<walker, tree>>

Init ==
  /\ place \in {p \in [Entries -> {<<>>} \cup (Dirs \X Entries)] :
                  /\ p["top"] = <<>> /\ p["d"] = <<"top", "d">>
                  /\ \A x \in {"f", "link"} : p[x] \in Dirs \X {x}}
  /\ closed \in {{}, {"d"}}
  /\ walk = "lstat" /\ fullpath = <<"top">> /\ frames = <<>>
  /\ counted = [x \in Entries |-> 0] /\ unread = {} /\ followed = FALSE
  /\ touched = {} /\ changes = 0

------------------------------------------------------------------------------
(* The file system *)

Names(d) == {place[x][2] : x \in {y \in Entries : place[y] # <<>> /\ place[y][1] = d}}

Target(x) == IF x = "link" THEN "top" ELSE x

\* One component of a path; the directory above "top" is not followed up.
Below(x, name) ==
  LET d == Target(x)
  IN IF d \notin Dirs THEN None
     ELSE CASE name \in {"", "."} -> d
            [] name = ".." -> IF place[d] = <<>> THEN None ELSE place[d][1]
            [] OTHER -> IF name \in Names(d) THEN CHOOSE y \in Entries : place[y] = <<d, name>> ELSE None

\* What each part of a path from "top" leads to.
Trail(path) ==
  LET on[i \in 1..Len(path)] == IF i = 1 THEN "top" ELSE Below(on[i - 1], path[i])
  IN  on

File(path) == Trail(path)[Len(path)]

Links(path) == \E i \in 1..(Len(path) - 1) : Trail(path)[i] = "link"

\* Another process renames a file, perhaps over another one, or removes it.
Within(d, x) == x = d \/ (place[x] # <<>> /\ place[x][1] = d)
Empty(x) == x \in Dirs => Names(x) = {}

Rename(x, d, name) ==
  LET over == {y \in Entries \ {x} : place[y] = <<d, name>>}
  IN /\ changes < MaxChanges /\ place[x] # <<>> /\ place[x] # <<d, name>>
     /\ ~Within(x, d) /\ (place[d] # <<>> \/ d = "top")
     /\ \A y \in over : Empty(y) /\ (y \in Dirs <=> x \in Dirs)
     /\ place' = [y \in Entries |-> IF y = x THEN <<d, name>>
                                   ELSE IF y \in over THEN <<>> ELSE place[y]]
     /\ touched' = touched \cup over \cup {x} /\ changes' = changes + 1
     /\ UNCHANGED <<closed, walker>>

Unlink(x) ==
  /\ changes < MaxChanges /\ place[x] # <<>> /\ Empty(x)
  /\ place' = [place EXCEPT ![x] = <<>>] /\ touched' = touched \cup {x}
  /\ changes' = changes + 1 /\ UNCHANGED <<closed, walker>>

Others == \/ \E x \in Entries, d \in Dirs, name \in {"d", "f"} : Rename(x, d, name)
          \/ \E x \in Entries : Unlink(x)

------------------------------------------------------------------------------
(* dopath() *)

\* A return from dopath(): to the loop of its caller.
Returned == walk' = IF frames = <<>> THEN "done" ELSE "readdir"

\* Lines 99-112: a file that lstat() does not find is reported and not counted.
Lstat ==
  /\ walk = "lstat"
  /\ LET x == File(fullpath)
     IN /\ counted' = (IF x = None THEN counted ELSE [counted EXCEPT ![x] = @ + 1])
        /\ IF x \in Dirs THEN walk' = "opendir" /\ fullpath' = Append(fullpath, "")
                         ELSE Returned /\ UNCHANGED fullpath
  /\ followed' = (followed \/ Links(fullpath))
  /\ UNCHANGED <<frames, unread, tree>>

\* The path without its slash.
Directory == SubSeq(fullpath, 1, Len(fullpath) - 1)

\* Lines 114-115: fullpath keeps its slash.
OpendirFails ==
  /\ walk = "opendir"
  /\ LET d == Target(File(fullpath))
     IN /\ d \in closed \/ d \notin Dirs \/ Len(frames) = MaxOpen
        /\ unread' = unread \cup {File(Directory)}
  /\ Returned /\ UNCHANGED <<fullpath, frames, counted, followed, tree>>

\* Line 114; this call follows a link that has taken the place of the directory.
Opendir ==
  /\ walk = "opendir" /\ walk' = "readdir"
  /\ LET d == Target(File(fullpath))
     IN /\ d \in Dirs \ closed /\ Len(frames) < MaxOpen
        /\ frames' = Append(frames, [dir |-> d, ptr |-> Len(fullpath) - 1, given |-> {},
                                     path |-> Directory, first |-> Names(d)])
  /\ followed' = (followed \/ Links(fullpath))
  /\ UNCHANGED <<fullpath, counted, unread, tree>>

\* readdir() gives what was there all the time, and may give what was there for
\* part of it.
Frame == frames[Len(frames)]
MayGive  == (Frame.first \cup Names(Frame.dir) \cup {".", ".."}) \ Frame.given
MustGive == {place[x][2] : x \in {y \in Entries \ touched :
                                    place[y] # <<>> /\ place[y][1] = Frame.dir}}
            \ Frame.given

Given(name) == [frames EXCEPT ![Len(frames)].given = @ \cup {name}]

\* Mutant: ".." is walked like other names.
Skipped_Dot == {"."}

\* Lines 118-120.
Skipped == {".", ".."}

\* Mutant: the name is put behind what is there (strcat).
ReadName_Appended == walk = "readdir" /\ \E name \in MayGive \ Skipped :
  /\ walk' = "lstat" /\ frames' = Given(name)
  /\ fullpath' = Append(fullpath, name)
  /\ UNCHANGED <<counted, unread, followed, tree>>

\* Lines 122-124.
ReadName == walk = "readdir" /\ \E name \in MayGive \ Skipped :
  /\ walk' = "lstat" /\ frames' = Given(name)
  /\ fullpath' = Append(SubSeq(fullpath, 1, Frame.ptr), name)
  /\ UNCHANGED <<counted, unread, followed, tree>>

\* Lines 117 and 127-132; func() has returned 0, so only the end of the
\* directory ends the loop.
EndOfDir ==
  /\ walk = "readdir" /\ MustGive = {}
  /\ fullpath' = SubSeq(fullpath, 1, Frame.ptr) /\ frames' = SubSeq(frames, 1, Len(frames) - 1)
  /\ walk' = (IF frames' = <<>> THEN "done" ELSE "readdir")
  /\ UNCHANGED <<counted, unread, followed, tree>>

Walk == Lstat \/ OpendirFails \/ Opendir \/ ReadName \/ EndOfDir

Next == Walk \/ Others

Spec == Init /\ [][Next]_vars

FairSpec == Spec /\ WF_vars(Walk)

------------------------------------------------------------------------------
(* What must hold *)

TypeOK ==
  /\ place \in [Entries -> {<<>>} \cup (Dirs \X Entries)] /\ place["top"] = <<>>
  /\ walk \in {"lstat", "opendir", "readdir", "done"}
  /\ frames \in Seq([dir : Dirs, ptr : Nat, given : SUBSET (Entries \cup {".."}),
                      path : Seq(Entries \cup {".."}), first : SUBSET Entries])
  /\ counted \in [Entries -> Nat] /\ unread \subseteq Entries \cup {None}
  /\ touched \subseteq Entries /\ changes \in 0..MaxChanges /\ Len(frames) <= MaxOpen

\* Lines 72 and 122-127: what deeper calls write into the one buffer leaves each
\* activation the path of its directory, and every path it makes is one name
\* longer.
PathsKept ==
  /\ \A i \in 1..Len(frames) : SubSeq(fullpath, 1, frames[i].ptr) = frames[i].path
  /\ \A i \in 2..Len(frames) : /\ Len(frames[i].path) = Len(frames[i - 1].path) + 1
                                /\ SubSeq(frames[i].path, 1, Len(frames[i].path) - 1) = frames[i - 1].path
  /\ walk = "done" => fullpath \in {<<"top">>, <<"top", "">>}

\* Lines 86-90: a file is counted if nobody has moved it or a directory above it
\* and the directories above it could be read, and only once unless a link has
\* taken the place of a directory between lstat() and opendir().
Above(x) == IF x = "top" THEN {} ELSE {"top", place[x][1]}
Undisturbed == {x \in Entries \ touched : Above(x) \cap touched = {}}
EachCountedOnce ==
  /\ walk = "done" => \A x \in Undisturbed : Above(x) \cap unread = {} => counted[x] >= 1
  /\ ~followed => \A x \in Undisturbed : counted[x] <= 1

\* The walk ends, also where links make a circle.
Ends == <>(walk = "done")
==============================================================================
