-------------------------- MODULE CommandLifecycle --------------------------
(***************************************************************************)
(* What a remote run command promises to the operator who queued it: it is *)
(* handed out at most once, its shell command is started at most once, and *)
(* a final status is the outcome of that one execution.                    *)
(* RunCommands implements this specification.                              *)
(***************************************************************************)
CONSTANT Cmds         \* identifiers of commands

VARIABLES status,     \* status column of the command
          outcome     \* how its execution ended, "none" before that

vars == <<status, outcome>>

Init == /\ status = [c \in Cmds |-> "none"]
        /\ outcome = [c \in Cmds |-> "none"]

Queue(c) == /\ status[c] = "none"
            /\ status' = [status EXCEPT ![c] = "pending"]
            /\ UNCHANGED outcome

\* A claim hands out a set of commands, possibly none.
Dispatch(S) == /\ \A c \in S : status[c] = "pending"
               /\ status' = [c \in Cmds |-> IF c \in S THEN "dispatched" ELSE status[c]]
               /\ UNCHANGED outcome

Execute(c, o) == /\ status[c] = "dispatched"
                 /\ outcome[c] = "none"
                 /\ outcome' = [outcome EXCEPT ![c] = o]
                 /\ UNCHANGED status

Settle(c) == /\ status[c] = "dispatched"
             /\ outcome[c] # "none"
             /\ status' = [status EXCEPT ![c] = outcome[c]]
             /\ UNCHANGED outcome

Next == \/ \E c \in Cmds : Queue(c) \/ Settle(c)
        \/ \E c \in Cmds, o \in {"success", "failed"} : Execute(c, o)
        \/ \E S \in SUBSET Cmds : Dispatch(S)

Spec == Init /\ [][Next]_vars
=============================================================================
