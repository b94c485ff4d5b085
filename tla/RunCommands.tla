---------------------------- MODULE RunCommands -----------------------------
(***************************************************************************)
(* Remote run commands, from the dashboard through the server to the agent *)
(* and back.                                                               *)
(*                                                                         *)
(* EnqueueRuns inserts one pending command per requested job, one insert   *)
(* after the other, and stops at the first error.  requested_at is the     *)
(* NOW() of the insert's start, and the row is visible from its commit on, *)
(* so rows of two requests can appear against the order of their times.    *)
(* The agent polls with a                                                  *)
(* GET that claims up to Limit pending commands of its host, oldest first; *)
(* the claim is one UPDATE over rows picked FOR UPDATE SKIP LOCKED, so     *)
(* concurrent claims of one host hold disjoint sets of rows until they     *)
(* commit or roll back.  The agent starts one goroutine per claimed        *)
(* command, and the goroutine reports completion with a single POST.       *)
(***************************************************************************)
EXTENDS Integers, FiniteSets, Sequences

CONSTANTS Cmds,         \* command identifiers
          Hosts,        \* hosts, one agent each
          Jobs,         \* jobs
          JobHost,      \* the host each job belongs to, None for any other host
          Triggers,     \* POSTs of the dashboard that queue runs
          Request,      \* for each of them the host and the job_ids it names
          Polls,        \* claims being handled by the server at once
          Limit,        \* commands per claim, 10 in pollCommands
          FaultKinds,   \* failures the run allows
          MaxFaults,    \* bound on the number of failures of the run
          None          \* no host

ASSUME RunCommandsAssumption ==
    /\ JobHost \in [Jobs -> Hosts \cup {None}]
    /\ Request \in [Triggers -> [host : Hosts, jobs : Seq(Jobs)]]
    /\ Limit \in Nat \ {0}
    /\ MaxFaults \in Nat
    /\ None \notin Hosts
    /\ IsFiniteSet(Cmds)

VARIABLES status,       \* agent_commands.status, "none" before the insert
          host,         \* agent_commands.host_id
          requestedAt,  \* agent_commands.requested_at
          trigger,      \* where each dashboard request is in EnqueueRuns
          queued,       \* how many of its jobs it has queued
          clock,        \* database time, one tick per insert
          inserting,    \* the row of its Insert under way, stamped but not visible
          at,           \* where each claim is
          forHost,      \* the host the claim is for
          waiting,      \* whether the agent still waits for its answer
          picked,       \* the rows it has locked, then claimed
          run,          \* where the goroutine of each command is
          outcome,      \* what the shell command returned
          execs,        \* history: how often the shell command was started
          local,        \* the agent's local record of the execution
          buffered,     \* whether BufferExecution saved the execution event
          passed,       \* history: commands that a claim of their host could not see
          lost,         \* history: commands whose status cannot change any more
          faults        \* number of failures so far

enqueue == <<host, requestedAt, trigger, queued, clock, inserting>>
claim   == <<at, forHost, waiting, picked, passed>>
work    == <<run, outcome, execs, local, buffered>>
vars    == <<status, enqueue, claim, work, lost, faults>>

Fault(kind) == /\ kind \in FaultKinds
               /\ faults < MaxFaults
               /\ faults' = faults + 1

Init ==
    /\ status = [c \in Cmds |-> "none"]
    /\ host = [c \in Cmds |-> None]
    /\ requestedAt = [c \in Cmds |-> 0]
    /\ trigger = [t \in Triggers |-> "running"]
    /\ queued = [t \in Triggers |-> 0]
    /\ clock = 0
    /\ inserting = [t \in Triggers |-> {}]
    /\ at = [p \in Polls |-> "free"]
    /\ forHost = [p \in Polls |-> None]
    /\ waiting = [p \in Polls |-> FALSE]
    /\ picked = [p \in Polls |-> {}]
    /\ passed = {}
    /\ run = [c \in Cmds |-> "none"]
    /\ outcome = [c \in Cmds |-> "none"]
    /\ execs = [c \in Cmds |-> 0]
    /\ local = [c \in Cmds |-> "none"]
    /\ buffered = [c \in Cmds |-> "no"]
    /\ lost = {}
    /\ faults = 0

-----------------------------------------------------------------------------
(* EnqueueRuns.                                                            *)

\* GetByID and the host check for the next job of the request, and the start of
\* its Insert: the row has its time, and no other statement sees it.
InsertBegins(t, c) ==
    /\ trigger[t] = "running"
    /\ queued[t] < Len(Request[t].jobs)
    /\ JobHost[Request[t].jobs[queued[t] + 1]] = Request[t].host
    /\ inserting[t] = {}
    /\ status[c] = "none"
    /\ \A u \in Triggers : c \notin inserting[u]
    /\ inserting' = [inserting EXCEPT ![t] = {c}]
    /\ host' = [host EXCEPT ![c] = Request[t].host]
    /\ clock' = clock + 1
    /\ requestedAt' = [requestedAt EXCEPT ![c] = clock + 1]
    /\ UNCHANGED <<status, trigger, queued, claim, work, lost, faults>>

InsertCommits(t, c) ==
    /\ inserting[t] = {c}
    /\ inserting' = [inserting EXCEPT ![t] = {}]
    /\ status' = [status EXCEPT ![c] = "pending"]
    /\ queued' = [queued EXCEPT ![t] = @ + 1]
    /\ UNCHANGED <<host, requestedAt, trigger, clock, claim, work, lost, faults>>

\* The job is of another host, or the database fails: 400, and the commands
\* queued so far stay.
EnqueueError(t) ==
    /\ trigger[t] = "running"
    /\ queued[t] < Len(Request[t].jobs)
    /\ \/ /\ JobHost[Request[t].jobs[queued[t] + 1]] # Request[t].host
          /\ UNCHANGED faults
       \/ Fault("database")
    /\ trigger' = [trigger EXCEPT ![t] = "rejected"]
    /\ inserting' = [inserting EXCEPT ![t] = {}]
    /\ UNCHANGED <<status, host, requestedAt, queued, clock, claim, work, lost>>

EnqueueDone(t) ==
    /\ trigger[t] = "running"
    /\ queued[t] = Len(Request[t].jobs)
    /\ trigger' = [trigger EXCEPT ![t] = "accepted"]
    /\ UNCHANGED <<status, host, requestedAt, queued, clock, inserting, claim, work,
                   lost, faults>>

-----------------------------------------------------------------------------
(* Claiming.                                                               *)

\* pollCommands: the main loop of a host has one poll under way at most.
ClaimRunCommands(h, p) ==
    /\ at[p] = "free"
    /\ \A q \in Polls : waiting[q] => forHost[q] # h
    /\ at' = [at EXCEPT ![p] = "sent"]
    /\ forHost' = [forHost EXCEPT ![p] = h]
    /\ waiting' = [waiting EXCEPT ![p] = TRUE]
    /\ UNCHANGED <<status, enqueue, picked, passed, work, lost, faults>>

\* Mutant: a claim also takes commands that are dispatched already.
Claimable_Dispatched(p) ==
    {c \in Cmds : /\ status[c] \in {"pending", "dispatched"}
                  /\ host[c] = forHost[p]
                  /\ \A q \in Polls : at[q] = "locked" => c \notin picked[q]}

\* The pending rows of the host that no other claim has locked.
Claimable(p) ==
    {c \in Cmds : /\ status[c] = "pending"
                  /\ host[c] = forHost[p]
                  /\ \A q \in Polls : at[q] = "locked" => c \notin picked[q]}

\* Mutant: no ORDER BY.
Oldest_Any(S, T) == /\ S \subseteq T
                    /\ Cardinality(S) <= Limit
                    /\ S # T => Cardinality(S) = Limit

\* ORDER BY requested_at LIMIT.
Oldest(S, T) == /\ S \subseteq T
                /\ \A c \in S, d \in T \ S : requestedAt[c] < requestedAt[d]
                /\ Cardinality(S) <= Limit
                /\ S # T => Cardinality(S) = Limit

\* What the claim cannot see or skips: rows that are not committed, and rows
\* that another claim has locked.
Overlooked(p) ==
    {c \in Cmds : /\ host[c] = forHost[p]
                  /\ \/ \E t \in Triggers : c \in inserting[t]
                     \/ \E q \in Polls : at[q] = "locked" /\ c \in picked[q]}

PickPending(p, S) ==
    /\ at[p] = "sent"
    /\ Oldest(S, Claimable(p))
    /\ at' = [at EXCEPT ![p] = "locked"]
    /\ picked' = [picked EXCEPT ![p] = S]
    /\ passed' = passed \cup Overlooked(p)
    /\ UNCHANGED <<status, enqueue, forHost, waiting, work, lost, faults>>

Release(p) == /\ at' = [at EXCEPT ![p] = "free"]
              /\ forHost' = [forHost EXCEPT ![p] = None]
              /\ waiting' = [waiting EXCEPT ![p] = FALSE]
              /\ picked' = [picked EXCEPT ![p] = {}]

\* The UPDATE commits.  If nobody waits for the answer the commands are gone.
ClaimPending(p) ==
    /\ at[p] = "locked"
    /\ status' = [c \in Cmds |-> IF c \in picked[p] THEN "dispatched" ELSE status[c]]
    /\ \/ /\ waiting[p]
          /\ at' = [at EXCEPT ![p] = "replied"]
          /\ UNCHANGED <<forHost, waiting, picked, lost>>
       \/ /\ ~waiting[p]
          /\ lost' = lost \cup picked[p]
          /\ Release(p)
    /\ UNCHANGED <<enqueue, passed, work, faults>>

\* The statement fails, or the context of a client that is gone cancels it:
\* the rows are unlocked and stay pending.
ClaimRollback(p) ==
    /\ at[p] \in {"sent", "locked"}
    /\ \/ Fault("database")
       \/ ~waiting[p] /\ UNCHANGED faults
    /\ Release(p)
    /\ UNCHANGED <<status, enqueue, passed, work, lost>>

\* Mutant: an answer that is not delivered puts its commands back.
PollLost_Requeues(p) ==
    /\ waiting[p] /\ at[p] = "replied"
    /\ Fault("timeout")
    /\ status' = [c \in Cmds |-> IF c \in picked[p] THEN "pending" ELSE status[c]]
    /\ Release(p)
    /\ UNCHANGED <<enqueue, passed, work, lost>>

\* Mutant: a request without a timeout blocks the main loop of its host.
PollLost_Blocks(p) ==
    /\ waiting[p] /\ at[p] = "replied"
    /\ Fault("timeout")
    /\ lost' = lost \cup picked[p]
    /\ at' = [at EXCEPT ![p] = "free"]
    /\ picked' = [picked EXCEPT ![p] = {}]
    /\ UNCHANGED <<status, enqueue, forHost, waiting, passed, work>>

\* The agent gives up on the request, or the answer does not reach it.
PollLost(p) ==
    /\ waiting[p]
    /\ Fault("timeout")
    /\ \/ /\ at[p] = "replied"
          /\ lost' = lost \cup picked[p]
          /\ Release(p)
       \/ /\ at[p] # "replied"
          /\ waiting' = [waiting EXCEPT ![p] = FALSE]
          /\ UNCHANGED <<at, forHost, picked, lost>>
    /\ UNCHANGED <<status, enqueue, passed, work>>

\* Mutant: commands that arrive while another one runs are dropped.
PollOK_Busy(p) ==
    /\ at[p] = "replied"
    /\ run' = [c \in Cmds |-> IF /\ c \in picked[p]
                               /\ \A d \in Cmds : run[d] \in {"none", "done", "dead"}
                            THEN "start" ELSE run[c]]
    /\ Release(p)
    /\ UNCHANGED <<status, enqueue, passed, outcome, execs, local, buffered, lost,
                   faults>>

\* One goroutine per command.
PollOK(p) ==
    /\ at[p] = "replied"
    /\ run' = [c \in Cmds |-> IF c \in picked[p] THEN "start" ELSE run[c]]
    /\ Release(p)
    /\ UNCHANGED <<status, enqueue, passed, outcome, execs, local, buffered, lost,
                   faults>>

-----------------------------------------------------------------------------
(* executeRunCommand.                                                      *)

\* An error of the bbolt file is logged, and the goroutine goes on.
WriteLocal(c, s) == \/ local' = [local EXCEPT ![c] = s] /\ UNCHANGED faults
                    \/ Fault("store") /\ UNCHANGED local

\* The local record is written, then the shell command is started.
StartCommand(c) ==
    /\ run[c] = "start"
    /\ WriteLocal(c, "running")
    /\ execs' = [execs EXCEPT ![c] = @ + 1]
    /\ run' = [run EXCEPT ![c] = "exec"]
    /\ UNCHANGED <<status, enqueue, claim, outcome, buffered, lost>>

FinishCommand(c, o) ==
    /\ run[c] = "exec"
    /\ outcome' = [outcome EXCEPT ![c] = o]
    /\ run' = [run EXCEPT ![c] = "save"]
    /\ UNCHANGED <<status, enqueue, claim, execs, local, buffered, lost, faults>>

\* Mutant: completion is reported before the event is buffered.
SaveLocalExecution_Completes(c) ==
    /\ run[c] = "save"
    /\ WriteLocal(c, outcome[c])
    /\ run' = [run EXCEPT ![c] = "complete"]
    /\ UNCHANGED <<status, enqueue, claim, outcome, execs, buffered, lost>>

SaveLocalExecution(c) ==
    /\ run[c] = "save"
    /\ WriteLocal(c, outcome[c])
    /\ run' = [run EXCEPT ![c] = "buffer"]
    /\ UNCHANGED <<status, enqueue, claim, outcome, execs, buffered, lost>>

\* BufferExecution, and the flush that follows (module Delivery).
BufferOutcome(c) ==
    /\ run[c] = "buffer"
    /\ \/ buffered' = [buffered EXCEPT ![c] = "yes"] /\ UNCHANGED faults
       \/ buffered' = [buffered EXCEPT ![c] = "refused"] /\ Fault("store")
    /\ run' = [run EXCEPT ![c] = "complete"]
    /\ UNCHANGED <<status, enqueue, claim, outcome, execs, local, lost>>

\* Mutant: the status of the first local record is reported.
Complete_Running(c) ==
    /\ run[c] = "complete"
    /\ status' = [status EXCEPT ![c] = "running"]
    /\ run' = [run EXCEPT ![c] = "done"]
    /\ UNCHANGED <<enqueue, claim, outcome, execs, local, buffered, lost, faults>>

\* CompleteRunCommand: the UPDATE is applied whether or not the agent learns.
Complete(c) ==
    /\ run[c] = "complete"
    /\ status' = [status EXCEPT ![c] = outcome[c]]
    /\ run' = [run EXCEPT ![c] = "done"]
    /\ UNCHANGED <<enqueue, claim, outcome, execs, local, buffered, lost, faults>>

\* The one attempt fails before the server acts: a warning, and no retry.
CompleteLost(c) ==
    /\ run[c] = "complete"
    /\ Fault("timeout")
    /\ lost' = lost \cup {c}
    /\ run' = [run EXCEPT ![c] = "done"]
    /\ UNCHANGED <<status, enqueue, claim, outcome, execs, local, buffered>>

\* The agent process of a host dies with its goroutines and is restarted.
Busy(h) == {c \in Cmds : host[c] = h /\ run[c] \notin {"none", "done", "dead"}}
Answers(h) == {p \in Polls : waiting[p] /\ forHost[p] = h /\ at[p] = "replied"}
Restart(h) ==
    /\ Fault("crash")
    /\ run' = [c \in Cmds |-> IF c \in Busy(h) THEN "dead" ELSE run[c]]
    /\ lost' = lost \cup Busy(h) \cup UNION {picked[p] : p \in Answers(h)}
    /\ waiting' = [p \in Polls |-> waiting[p] /\ forHost[p] # h]
    /\ at' = [p \in Polls |-> IF p \in Answers(h) THEN "free" ELSE at[p]]
    /\ forHost' = [p \in Polls |-> IF p \in Answers(h) THEN None ELSE forHost[p]]
    /\ picked' = [p \in Polls |-> IF p \in Answers(h) THEN {} ELSE picked[p]]
    /\ UNCHANGED <<status, enqueue, passed, outcome, execs, local, buffered>>

-----------------------------------------------------------------------------
TriggerStep(t) ==
    \/ \E c \in Cmds : InsertBegins(t, c) \/ InsertCommits(t, c)
    \/ EnqueueError(t) \/ EnqueueDone(t)

ClaimStep(p) ==
    \/ \E h \in Hosts : ClaimRunCommands(h, p)
    \/ \E S \in SUBSET Cmds : PickPending(p, S)
    \/ ClaimPending(p) \/ ClaimRollback(p) \/ PollLost(p) \/ PollOK(p)

RunStep(c) ==
    \/ StartCommand(c)
    \/ \E o \in {"success", "failed"} : FinishCommand(c, o)
    \/ SaveLocalExecution(c) \/ BufferOutcome(c) \/ Complete(c) \/ CompleteLost(c)

Next == \/ \E t \in Triggers : TriggerStep(t)
        \/ \E p \in Polls : ClaimStep(p)
        \/ \E c \in Cmds : RunStep(c)
        \/ \E h \in Hosts : Restart(h)

Spec == Init /\ [][Next]_vars

\* The poll tick comes again and again, the server finishes the statements it
\* has begun, goroutines run, and the shell commands of jobs terminate.
Fairness ==
    /\ \A h \in Hosts : SF_vars(\E p \in Polls : ClaimRunCommands(h, p))
    /\ \A p \in Polls :
         /\ WF_vars(\E S \in SUBSET Cmds : PickPending(p, S))
         /\ WF_vars(ClaimPending(p))
         /\ WF_vars(PollOK(p))
    /\ \A c \in Cmds :
         WF_vars(\/ StartCommand(c) \/ SaveLocalExecution(c) \/ BufferOutcome(c)
                 \/ Complete(c) \/ \E o \in {"success", "failed"} : FinishCommand(c, o))

FairSpec == Spec /\ Fairness

-----------------------------------------------------------------------------
(* Properties.                                                             *)

Final == {"success", "failed"}

TypeOK ==
    /\ status \in [Cmds -> {"none", "pending", "dispatched"} \cup Final]
    /\ host \in [Cmds -> Hosts \cup {None}]
    /\ requestedAt \in [Cmds -> Nat]
    /\ trigger \in [Triggers -> {"running", "accepted", "rejected"}]
    /\ queued \in [Triggers -> Nat]
    /\ clock \in Nat
    /\ inserting \in [Triggers -> SUBSET Cmds]
    /\ at \in [Polls -> {"free", "sent", "locked", "replied"}]
    /\ forHost \in [Polls -> Hosts \cup {None}]
    /\ waiting \in [Polls -> BOOLEAN]
    /\ picked \in [Polls -> SUBSET Cmds]
    /\ passed \subseteq Cmds
    /\ run \in [Cmds -> {"none", "start", "exec", "save", "buffer", "complete",
                         "done", "dead"}]
    /\ outcome \in [Cmds -> {"none"} \cup Final]
    /\ execs \in [Cmds -> Nat]
    /\ local \in [Cmds -> {"none", "running"} \cup Final]
    /\ buffered \in [Cmds -> {"no", "yes", "refused"}]
    /\ lost \subseteq Cmds
    /\ faults \in 0..MaxFaults

\* A queued run is not repeated: whatever polls overlap, time out or are rolled
\* back, and whenever the agent restarts, the shell command of a command row
\* is started at most once.
ExecutedAtMostOnce == \A c \in Cmds : execs[c] <= 1

\* A final status that the dashboard shows is the outcome of an execution that
\* took place, and by then the agent has saved the execution event or found
\* that its store refuses it: a command never looks finished while a crash of
\* the agent can still take the event away.
FinalStatusTruthful ==
    \A c \in Cmds : status[c] \in Final =>
      /\ execs[c] = 1
      /\ outcome[c] = status[c]
      /\ buffered[c] # "no"

\* No command is in the hands of two claims, or of a claim and a goroutine.
ClaimsDisjoint ==
    \A p, q \in Polls : p # q => picked[p] \cap picked[q] = {}

\* Commands of a host are handed out in the order of requested_at, whatever
\* claims overlap, time out or are rolled back: a later command gets ahead of
\* one that waits only if a claim could not see the earlier one, because its
\* insert had not committed or another claim had locked it.
RequestOrder ==
    \A c, d \in Cmds :
      /\ status[c] = "pending" /\ c \notin passed
      /\ \A p \in Polls : c \notin picked[p]
      /\ host[c] = host[d]
      /\ status[d] \in {"dispatched"} \cup Final
      => requestedAt[d] < requestedAt[c]

\* A command that is not finished and is not lost is still on its way: it can
\* be claimed, it is in a claim's answer, or its goroutine is running.  So the
\* commands that hang in status dispatched are exactly the lost ones.
NeverStranded ==
    \A c \in Cmds : status[c] = "dispatched" /\ c \notin lost =>
      \/ run[c] \notin {"none", "done", "dead"}
      \/ \E p \in Polls : at[p] = "replied" /\ waiting[p] /\ c \in picked[p]

\* Every queued command gets its outcome, unless its claim's answer, its
\* goroutine or its completion report was lost.
EventuallySettled ==
    \A c \in Cmds : status[c] = "pending" ~> status[c] \in Final \/ c \in lost

\* The whole path implements the life cycle of CommandLifecycle.
L == INSTANCE CommandLifecycle
Lifecycle == L!Spec

-----------------------------------------------------------------------------
(* The inductive invariant behind ExecutedAtMostOnce, FinalStatusTruthful  *)
(* and Lifecycle.                                                          *)

\* Rows that a claim has locked are pending and in no other claim; rows of an
\* answer are dispatched and their goroutines have not been started.
ClaimsConsistent ==
    /\ ClaimsDisjoint
    /\ \A p \in Polls :
         /\ at[p] \in {"free", "sent"} => picked[p] = {}
         /\ at[p] = "locked" => \A c \in picked[p] : status[c] = "pending"
         /\ at[p] = "replied" =>
              \A c \in picked[p] : status[c] = "dispatched" /\ run[c] = "none"

\* How far a goroutine has come, in terms of the command's row, its execution
\* and the agent's buffer.
RunsConsistent ==
    \A c \in Cmds :
      /\ status[c] \in {"none", "pending"} => run[c] = "none"
      /\ run[c] \in {"start", "exec", "save", "buffer", "complete"} =>
           status[c] = "dispatched"
      /\ run[c] \in {"none", "start"} => execs[c] = 0
      /\ run[c] \in {"none", "start", "exec"} => outcome[c] = "none"
      /\ run[c] \in {"save", "buffer", "complete"} => outcome[c] \in Final
      /\ run[c] \in {"exec", "save", "buffer", "complete"} => execs[c] = 1
      /\ run[c] = "complete" => buffered[c] # "no"
      /\ status[c] \in Final => run[c] = "done"
      /\ execs[c] <= 1

RunInv == TypeOK /\ ClaimsConsistent /\ RunsConsistent /\ FinalStatusTruthful

\* Behind RequestOrder: inserts under way are of different rows that are not
\* visible, no time is ahead of the clock, and of two commands of a host of which
\* the later one is handed out or locked, the earlier one waits only if it was
\* overlooked or is locked by the same claim.
InsertsConsistent ==
    \A t \in Triggers : \A c \in inserting[t] :
      /\ status[c] = "none"
      /\ \A u \in Triggers : c \in inserting[u] => u = t

Stamped == \A c \in Cmds : requestedAt[c] <= clock

Waits(c) == status[c] = "pending" \/ \E t \in Triggers : c \in inserting[t]
Taken(d) == \/ status[d] \in {"dispatched"} \cup Final
            \/ \E p \in Polls : at[p] = "locked" /\ d \in picked[p]

OlderFirst ==
    \A c, d \in Cmds :
      host[c] = host[d] /\ Waits(c) /\ Taken(d) =>
        \/ requestedAt[d] < requestedAt[c]
        \/ c \in passed
        \/ \E p \in Polls : at[p] = "locked" /\ {c, d} \subseteq picked[p]

OrderInv == InsertsConsistent /\ Stamped /\ OlderFirst
=============================================================================
