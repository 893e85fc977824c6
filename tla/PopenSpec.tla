------------------------------ MODULE PopenSpec ------------------------------
(***************************************************************************)
(* What popen_l() and pclose_l() of 15-ipc/4-popen/popen.c promise a       *)
(* caller, without descriptors or pipes: call c starts at most one command *)
(* and yields at most one stream on it, and a stream that is closed hands  *)
(* over the command's status only once the command has been waited for.    *)
(***************************************************************************)
CONSTANTS Calls   \* the calls of popen_l() the program makes

VARIABLES stream, \* what the caller holds for a call
          command \* the command started by a call

vars == <<stream, command>>

\* A stream is "none", "open", "closing", then "closed" (pclose_l() returned a
\* status), "unavailable" (it reported that the status was already taken) or
\* "lost" (the library dropped it without collecting the command: a failed
\* fdopen() or fclose()).  A command is "none", "running", "exited", "collected".
Init == /\ stream  = [c \in Calls |-> "none"]
        /\ command = [c \in Calls |-> "none"]

Start(c) == /\ stream[c] = "none" /\ command[c] = "none"
            /\ command' = [command EXCEPT ![c] = "running"]
            /\ UNCHANGED stream

Open(c) == /\ stream[c] = "none" /\ command[c] # "none"
           /\ stream' = [stream EXCEPT ![c] = "open"]
           /\ UNCHANGED command

Lose(c) == /\ stream[c] \in {"none", "closing"} /\ command[c] # "none"
           /\ stream' = [stream EXCEPT ![c] = "lost"]
           /\ UNCHANGED command

Exit(c) == /\ command[c] = "running"
           /\ command' = [command EXCEPT ![c] = "exited"]
           /\ UNCHANGED stream

\* The application itself waits for the command.
Steal(c) == /\ command[c] = "exited"
            /\ command' = [command EXCEPT ![c] = "collected"]
            /\ UNCHANGED stream

Close(c) == /\ stream[c] = "open"
            /\ stream' = [stream EXCEPT ![c] = "closing"]
            /\ UNCHANGED command

\* pclose_l() returns the status it collected itself.
Collect(c) == /\ stream[c] = "closing" /\ command[c] = "exited"
              /\ stream'  = [stream EXCEPT ![c] = "closed"]
              /\ command' = [command EXCEPT ![c] = "collected"]

Unavailable(c) == /\ stream[c] = "closing" /\ command[c] = "collected"
                  /\ stream' = [stream EXCEPT ![c] = "unavailable"]
                  /\ UNCHANGED command

Next == \E c \in Calls : \/ Start(c) \/ Open(c) \/ Lose(c) \/ Exit(c) \/ Steal(c)
                         \/ Close(c) \/ Collect(c) \/ Unavailable(c)

Spec == Init /\ [][Next]_vars
==============================================================================
