------------------------------- MODULE Daemon -------------------------------
(***************************************************************************)
(* Starting, inspecting and stopping the agent in the background.          *)
(*                                                                         *)
(* "run --daemon" and "daemon stop" are processes of their own that find   *)
(* the agent by the PID in a file.  Between the system calls of one, other *)
(* commands run, the agent opens its state file, whose lock only one agent *)
(* can hold, or ends, and PIDs are used again.                             *)
(***************************************************************************)
EXTENDS Naturals, FiniteSets

CONSTANTS Commands,    \* command line processes that can run at the same time
          Pids,
          MaxCommands, \* bound on the number of commands
          MaxOthers,   \* bound on other processes that get a PID
          None

ASSUME DaemonAssumption ==
    /\ MaxCommands \in Nat
    /\ MaxOthers \in Nat
    /\ None \notin Pids

VARIABLES proc,      \* what has a PID: nothing, another process of the same or
                     \* of a foreign user, or an agent that opens its state file
                     \* or runs its main loop
          detached,  \* agents that run --daemon started
          signalled, \* agents that were sent SIGTERM
          lock,      \* the agent that holds the lock of the state file
          pidFile,   \* the PID in the file, None when there is no file
          pc,        \* where each command is
          target,    \* the PID it has started or read
          commands,  \* number of commands so far
          others,    \* number of other processes so far
          mixed,     \* history: agents whose start met another command or was
                     \* broken off
          disturbed, \* history: commands overlapped, or one failed half-way
          stale,     \* history: another process got the PID in the file
          hit        \* history: stop signalled another process

file == <<pidFile, disturbed, stale, hit>>
cli  == <<pc, target, commands>>
vars == <<proc, detached, signalled, lock, file, cli, others, mixed>>

Agents == {p \in Pids : proc[p] \in {"opening", "running"}}
Used   == {p \in Pids : proc[p] # "free"}

Init ==
    /\ proc = [p \in Pids |-> "free"]
    /\ detached = {}
    /\ signalled = {}
    /\ lock = None
    /\ pidFile = None
    /\ pc = [c \in Commands |-> "idle"]
    /\ target = [c \in Commands |-> None]
    /\ commands = 0
    /\ others = 0
    /\ mixed = {}
    /\ disturbed = FALSE
    /\ stale = FALSE
    /\ hit = FALSE

-----------------------------------------------------------------------------
(* Commands *)

Begin(c) ==
    /\ pc[c] = "idle"
    /\ commands < MaxCommands
    /\ commands' = commands + 1
    /\ disturbed' = (disturbed \/ \E d \in Commands : pc[d] # "idle")

Goto(c, place, p) ==
    /\ pc' = [pc EXCEPT ![c] = place]
    /\ target' = [target EXCEPT ![c] = p]

\* The children of the starts that have not written the PID yet: those meet a
\* command that looks at the file now.
Unnamed == {target[c] : c \in {x \in Commands : pc[x] = "write"}}
Meet == mixed' = mixed \cup (detached \cap Unnamed)

\* kill(pid, 0) finds any process of the user with the PID in the file; any error
\* of it, as for a process of another user, is taken for no process.
daemonRunning == pidFile # None /\ proc[pidFile] \notin {"free", "foreign"}

\* startDetached, up to the child.
StartRefused(c) ==
    /\ Begin(c)
    /\ daemonRunning
    /\ UNCHANGED <<proc, detached, signalled, lock, pidFile, stale, hit, pc,
                   target, others, mixed>>

\* Mutant: the PID file is not looked at.
StartCheckedAlways(c) ==
    /\ Begin(c)
    /\ Goto(c, "spawn", None)
    /\ Meet
    /\ UNCHANGED <<proc, detached, signalled, lock, pidFile, stale, hit, others>>

StartChecked(c) ==
    /\ Begin(c)
    /\ ~daemonRunning
    /\ Goto(c, "spawn", None)
    /\ Meet
    /\ UNCHANGED <<proc, detached, signalled, lock, pidFile, stale, hit, others>>

StartSpawn(c, p) ==
    /\ pc[c] = "spawn"
    /\ proc[p] = "free"
    /\ proc' = [proc EXCEPT ![p] = "opening"]
    /\ detached' = detached \cup {p}
    /\ mixed' = IF \E d \in Commands \ {c} : pc[d] # "idle" THEN mixed \cup {p} ELSE mixed
    /\ Goto(c, "write", p)
    /\ UNCHANGED <<signalled, lock, file, commands, others>>

\* Mutant: the command writes its own PID.
StartWriteSelf(c) ==
    /\ pc[c] = "write"
    /\ pidFile' = c
    /\ Goto(c, "idle", None)
    /\ UNCHANGED <<proc, detached, signalled, lock, disturbed, stale, hit,
                   commands, others, mixed>>

\* The file names the child, which may have ended by now.
StartWrite(c) ==
    /\ pc[c] = "write"
    /\ pidFile' = target[c]
    /\ stale' = (stale \/ proc[target[c]] = "other")
    /\ Goto(c, "idle", None)
    /\ UNCHANGED <<proc, detached, signalled, lock, disturbed, hit, commands,
                   others, mixed>>

\* stopDaemon.  Without a file it ends here.
StopRead(c) ==
    /\ Begin(c)
    /\ pidFile # None
    /\ Goto(c, "kill", pidFile)
    /\ Meet
    /\ UNCHANGED <<proc, detached, signalled, lock, pidFile, stale, hit, others>>

\* The signal ends another process and, before its handler is installed, a new
\* agent; an agent that is further on notes it.  That there is no process is
\* ignored.
StopKill(c) ==
    LET p == target[c] IN
    /\ pc[c] = "kill"
    /\ Goto(c, "remove", p)
    /\ hit' = (hit \/ proc[p] = "other")
    /\ \/ /\ proc[p] \in {"other", "opening"}
          /\ proc' = [proc EXCEPT ![p] = "free"]
          /\ detached' = detached \ {p}
          /\ signalled' = signalled \ {p}
          /\ mixed' = mixed \ {p}
       \/ /\ proc[p] \in {"opening", "running"}
          /\ signalled' = signalled \cup {p}
          /\ UNCHANGED <<proc, detached, mixed>>
       \/ /\ proc[p] = "free"
          /\ UNCHANGED <<proc, detached, signalled, mixed>>
    /\ UNCHANGED <<lock, pidFile, disturbed, stale, commands, others>>

\* Another user's process cannot be signalled; the file stays.
StopDenied(c) ==
    /\ pc[c] = "kill"
    /\ proc[target[c]] = "foreign"
    /\ Goto(c, "idle", None)
    /\ UNCHANGED <<proc, detached, signalled, lock, file, commands, others, mixed>>

\* Mutant: the PID is signalled once more when the file is gone.
StopRemoveAgain(c) ==
    /\ pc[c] = "remove"
    /\ pidFile' = None
    /\ Goto(c, "kill", target[c])
    /\ UNCHANGED <<proc, detached, signalled, lock, disturbed, stale, hit,
                   commands, others, mixed>>

\* The file is removed, whatever is in it by now; that it cannot be is ignored.
StopRemove(c) ==
    /\ pc[c] = "remove"
    /\ pidFile' \in {pidFile, None}
    /\ Goto(c, "idle", None)
    /\ UNCHANGED <<proc, detached, signalled, lock, disturbed, stale, hit,
                   commands, others, mixed>>

\* The command is interrupted, or the start of the child or WriteFile fails.
Abort(c) ==
    /\ pc[c] # "idle"
    /\ Goto(c, "idle", None)
    /\ disturbed' = (disturbed \/ pc[c] = "write")
    /\ mixed' = IF pc[c] = "write" THEN mixed \cup (detached \cap {target[c]}) ELSE mixed
    /\ UNCHANGED <<proc, detached, signalled, lock, pidFile, stale, hit,
                   commands, others>>

-----------------------------------------------------------------------------
(* Processes *)

\* An agent in the foreground, as a service manager runs it, has no PID file.
RunForeground(p) ==
    /\ proc[p] = "free"
    /\ proc' = [proc EXCEPT ![p] = "opening"]
    /\ UNCHANGED <<detached, signalled, lock, file, cli, others, mixed>>

OpenState(p) ==
    /\ proc[p] = "opening"
    /\ lock = None
    /\ proc' = [proc EXCEPT ![p] = "running"]
    /\ lock' = p
    /\ UNCHANGED <<detached, signalled, file, cli, others, mixed>>

\* An agent ends when it has been signalled or killed, when an error ends it,
\* or when it cannot get the lock in two seconds; other processes just end.
End(p) ==
    /\ proc[p] # "free"
    /\ proc' = [proc EXCEPT ![p] = "free"]
    /\ detached' = detached \ {p}
    /\ signalled' = signalled \ {p}
    /\ mixed' = mixed \ {p}
    /\ lock' = IF lock = p THEN None ELSE lock
    /\ UNCHANGED <<file, cli, others>>

OtherProcess(p, kind) ==
    /\ proc[p] = "free"
    /\ others < MaxOthers
    /\ others' = others + 1
    /\ proc' = [proc EXCEPT ![p] = kind]
    /\ stale' = (stale \/ (kind = "other" /\ p = pidFile))
    /\ UNCHANGED <<detached, signalled, lock, pidFile, disturbed, hit, cli, mixed>>

Next ==
    \/ \E c \in Commands :
          \/ StartRefused(c) \/ StartChecked(c) \/ StartWrite(c)
          \/ \E p \in Pids : StartSpawn(c, p)
          \/ StopRead(c) \/ StopKill(c) \/ StopDenied(c) \/ StopRemove(c)
          \/ Abort(c)
    \/ \E p \in Pids :
          \/ RunForeground(p) \/ OpenState(p) \/ End(p)
          \/ \E kind \in {"other", "foreign"} : OtherProcess(p, kind)

Spec == Init /\ [][Next]_vars

-----------------------------------------------------------------------------
Phases == {"free", "other", "foreign", "opening", "running"}
Places == {"idle", "spawn", "write", "kill", "remove"}

\* The type of the process table, the PID file and the commands.
TypeOK ==
    /\ proc \in [Pids -> Phases]
    /\ detached \subseteq Agents
    /\ signalled \subseteq Agents
    /\ mixed \subseteq detached
    /\ lock \in Pids \cup {None}
    /\ pidFile \in Pids \cup {None}
    /\ pc \in [Commands -> Places]
    /\ target \in [Commands -> Pids \cup {None}]
    /\ commands \in 0 .. MaxCommands
    /\ others \in 0 .. MaxOthers
    /\ {disturbed, stale, hit} \subseteq BOOLEAN

Kept == detached \ (signalled \cup mixed)

\* Every agent in the background that was not told to stop can be: the file
\* names it, or its start is about to write it.  So there is only one.
\* Exceptions are the agents whose own start met another command, or broke off
\* before it wrote the PID; no other agent is ever lost by what those leave
\* behind, or by the PID of another process in the file.
Controllable ==
    /\ \A p \in Kept : pidFile = p \/ p \in Unnamed
    /\ \A p, q \in Kept : p = q

\* As long as commands do not overlap and none is broken off between starting
\* the child and writing its PID, stop signals a process that is no agent only
\* when the agent ended by itself and its PID was used again.
StopHitsAgent == hit => disturbed \/ stale
=============================================================================
