------------------------------ MODULE Delivery ------------------------------
(***************************************************************************)
(* The path of an execution event from the agent to the server.            *)
(*                                                                         *)
(* On the agent, BufferExecution saves an event under a random UUID in the *)
(* pending_executions bucket of the bbolt file.  FlushExecutions reads the *)
(* whole bucket, posts it as one batch, and deletes what it read when the  *)
(* server answers below 400.  It runs in the main loop on every report     *)
(* tick, and in the goroutine of every remote command once that goroutine  *)
(* has buffered its own event, so flushes of one agent overlap.            *)
(*                                                                         *)
(* On the server, BatchReport handles the events of a batch in order with  *)
(* one autocommit statement per database call: Insert, then, for an event  *)
(* linked to a job, CountRecentFailures and UpsertCurrentState.  A failed  *)
(* call is logged and skipped, and the batch is answered 200 all the same. *)
(***************************************************************************)
EXTENDS Integers, FiniteSets, Sequences

CONSTANTS Ids,          \* event UUIDs; their order is the bbolt key order
          Jobs,         \* jobs of the host
          Inferred,     \* statuses that the process scan and the mail scan report
          MainLoop,     \* the agent's main loop
          Workers,      \* goroutines that execute remote commands
          Slots,        \* requests being handled by the server at once
          FaultKinds,   \* failures the run allows
          MaxFaults,    \* bound on the number of failures of the run
          None          \* no job, no payload, no owner

VARIABLES pending,      \* bucket pending_executions, the set of its keys
          payload,      \* what BufferExecution stored under each key
          pc,           \* where each goroutine is in FlushExecutions
          held,         \* its local variable pending: the batch it read
          at,           \* where the handler of each request is in BatchReport
          owner,        \* the goroutine that waits for the answer
          batch,        \* the events of the request
          todo,         \* the ones the handler is not done with
          failed,       \* the ones whose Insert failed
          count,        \* the failure count the handler has read
          rows,         \* table executions
          jobs,         \* table jobs
          jobState,     \* table current_job_states
          refused,      \* history: events a 200 answer covered without a row
          born,         \* history: events in the order they were buffered
          faults        \* number of failures so far

agent   == <<pc, held>>
handler == <<at, owner, batch, todo, failed, count>>
db      == <<rows, jobs, jobState>>
vars    == <<pending, payload, agent, handler, db, refused, born, faults>>

Flushers == {MainLoop} \cup Workers
Failing  == {"failed", "unknown"}

\* The main loop reports what the process scan and the mail scan infer, with or
\* without a matching job; a worker reports the outcome of a command of a job.
Observed == [job : Jobs \cup {None}, status : Inferred]
Outcomes == [job : Jobs, status : {"success", "failed"}]
Payloads == Observed \cup Outcomes

\* A row of current_job_states.
JobStates == [status : {"running", "partial", "success", "failed"}, fails : Nat]

ASSUME DeliveryAssumption ==
    /\ Ids \subseteq Nat
    /\ MainLoop \notin Workers
    /\ IsFiniteSet(Workers)
    /\ Inferred \subseteq {"running", "partial"}
    /\ None \notin Jobs \cup Flushers \cup Payloads
    /\ None \notin JobStates
    /\ MaxFaults \in Nat

\* The event of a non-empty batch that comes first in bbolt's key order.
First(S) == CHOOSE e \in S : \A x \in S : e <= x
Current(r) == First(todo[r])

\* A row of executions: the event it was made from, a number that tells the
\* rows of one event apart (the generated primary key) and whether job_id is set.
Row == [event : Ids, n : Nat, linked : BOOLEAN]
RowsOf(e) == {x \in rows : x.event = e}

\* SELECT COUNT(*) over the linked rows of a job with a failing status.
\* All rows are recent: the 24 hour window does not close during a run.
FailingRows(j) == {x \in rows : /\ x.linked
                                /\ payload[x.event].job = j
                                /\ payload[x.event].status \in Failing}
\* Mutant: the count leaves out the failure that is being reported.
CountRecentFailures_Earlier(j) == Cardinality(FailingRows(j)) - 1

CountRecentFailures(j) == Cardinality(FailingRows(j))

Fault(kind) == /\ kind \in FaultKinds
               /\ faults < MaxFaults
               /\ faults' = faults + 1

Init ==
    /\ pending = {}
    /\ payload = [e \in Ids |-> None]
    /\ pc = [f \in Flushers |-> "idle"]
    /\ held = [f \in Flushers |-> {}]
    /\ at = [r \in Slots |-> "free"]
    /\ owner = [r \in Slots |-> None]
    /\ batch = [r \in Slots |-> {}]
    /\ todo = [r \in Slots |-> {}]
    /\ failed = [r \in Slots |-> {}]
    /\ count = [r \in Slots |-> 0]
    /\ rows = {}
    /\ jobs = {}
    /\ jobState = [j \in Jobs |-> None]
    /\ refused = {}
    /\ born = <<>>
    /\ faults = 0

-----------------------------------------------------------------------------
(* The agent.                                                              *)

\* A fresh UUID falls anywhere in the key order.  A worker goes on to flush.
BufferExecution(f, e, p) ==
    /\ pc[f] = "idle"
    /\ payload[e] = None
    /\ p \in IF f = MainLoop THEN Observed ELSE Outcomes
    /\ f # MainLoop => p.job \in jobs
    /\ payload' = [payload EXCEPT ![e] = p]
    /\ pending' = pending \cup {e}
    /\ born' = Append(born, e)
    /\ pc' = [pc EXCEPT ![f] = IF f = MainLoop THEN "idle" ELSE "flush"]
    /\ UNCHANGED <<held, handler, db, refused, faults>>

\* The bbolt file refuses the event: an error is logged, and a worker goes on.
BufferFails(f) ==
    /\ f # MainLoop
    /\ pc[f] = "idle"
    /\ Fault("store")
    /\ pc' = [pc EXCEPT ![f] = "flush"]
    /\ UNCHANGED <<pending, payload, held, handler, db, refused, born>>

\* PendingExecutions and the POST: the batch is a snapshot of the bucket.
FlushExecutions(f, r) ==
    /\ pc[f] = IF f = MainLoop THEN "idle" ELSE "flush"
    /\ pending # {}
    /\ at[r] = "free"
    /\ pc' = [pc EXCEPT ![f] = "wait"]
    /\ held' = [held EXCEPT ![f] = pending]
    /\ at' = [at EXCEPT ![r] = "insert"]
    /\ owner' = [owner EXCEPT ![r] = f]
    /\ batch' = [batch EXCEPT ![r] = pending]
    /\ todo' = [todo EXCEPT ![r] = pending]
    /\ failed' = [failed EXCEPT ![r] = {}]
    /\ UNCHANGED <<pending, payload, count, db, refused, born, faults>>

\* A worker whose event another flush has already deleted, or that cannot read
\* the bucket, returns early.
FlushNothing(f) ==
    /\ f # MainLoop
    /\ pc[f] = "flush"
    /\ \/ pending = {} /\ UNCHANGED faults
       \/ Fault("store")
    /\ pc' = [pc EXCEPT ![f] = "idle"]
    /\ UNCHANGED <<pending, payload, held, handler, db, refused, born>>

\* The slot of a request that is over.
Release(r) == /\ at' = [at EXCEPT ![r] = "free"]
              /\ owner' = [owner EXCEPT ![r] = None]
              /\ batch' = [batch EXCEPT ![r] = {}]
              /\ todo' = [todo EXCEPT ![r] = {}]
              /\ failed' = [failed EXCEPT ![r] = {}]
              /\ count' = [count EXCEPT ![r] = 0]

\* A status below 400: the number of accepted events in it is not looked at.
ReceiveOK(f, r) ==
    /\ at[r] = "replied"
    /\ owner[r] = f
    /\ pc' = [pc EXCEPT ![f] = "delete"]
    /\ Release(r)
    /\ UNCHANGED <<pending, payload, held, db, refused, born, faults>>

\* Mutant: FlushExecutions deletes without looking at the error.
GiveUp_Deletes(f, r) ==
    /\ at[r] # "free" /\ owner[r] = f /\ Fault("timeout")
    /\ pc' = [pc EXCEPT ![f] = "delete"]
    /\ owner' = [owner EXCEPT ![r] = None]
    /\ UNCHANGED <<pending, payload, held, at, batch, todo, failed, count, db,
                   refused, born>>

\* Mutant: a request without a timeout; its goroutine waits for ever.
GiveUp_Hangs(f, r) ==
    /\ at[r] # "free" /\ owner[r] = f /\ Fault("timeout")
    /\ owner' = [owner EXCEPT ![r] = None]
    /\ UNCHANGED <<pending, payload, pc, held, at, batch, todo, failed, count, db,
                   refused, born>>

\* The 30 second timeout, a broken connection, a status of 400 or more or a
\* lost answer.  The handler, if there is one, does not notice at once.
GiveUp(f, r) ==
    /\ at[r] # "free"
    /\ owner[r] = f
    /\ Fault("timeout")
    /\ pc' = [pc EXCEPT ![f] = "idle"]
    /\ held' = [held EXCEPT ![f] = {}]
    /\ owner' = [owner EXCEPT ![r] = None]
    /\ UNCHANGED <<pending, payload, at, batch, todo, failed, count, db,
                   refused, born>>

\* Mutant: the sent events stay in the bucket.
DeleteExecution_Keeps(f) ==
    /\ pc[f] = "delete"
    /\ held' = [held EXCEPT ![f] = {}]
    /\ pc' = [pc EXCEPT ![f] = "idle"]
    /\ UNCHANGED <<pending, payload, handler, db, refused, born, faults>>

\* The deletions after an answer, one transaction each, errors ignored.
DeleteExecution(f) ==
    /\ pc[f] = "delete"
    /\ LET e    == First(held[f])
           rest == held[f] \ {e}
       IN /\ \/ pending' = pending \ {e} /\ UNCHANGED faults
             \/ Fault("store") /\ UNCHANGED pending
          /\ held' = [held EXCEPT ![f] = rest]
          /\ pc' = [pc EXCEPT ![f] = IF rest = {} THEN "idle" ELSE "delete"]
    /\ UNCHANGED <<payload, handler, db, refused, born>>

\* The process dies and is started again: only the bbolt file survives.
Restart ==
    /\ \E f \in Flushers : pc[f] # "idle"
    /\ Fault("crash")
    /\ pc' = [f \in Flushers |-> "idle"]
    /\ held' = [f \in Flushers |-> {}]
    /\ owner' = [r \in Slots |-> None]
    /\ UNCHANGED <<pending, payload, at, batch, todo, failed, count, db, refused,
                   born>>

-----------------------------------------------------------------------------
(* The server.                                                             *)

\* ProcessDiscovery upserts a job of the host.
UpsertJob(j) ==
    /\ j \notin jobs
    /\ jobs' = jobs \cup {j}
    /\ UNCHANGED <<pending, payload, agent, handler, rows, jobState, refused,
                   born, faults>>

\* The loop of BatchReport goes on to the next event.
NextEvent(r) == /\ at' = [at EXCEPT ![r] = "insert"]
                /\ todo' = [todo EXCEPT ![r] = @ \ {Current(r)}]
                /\ count' = [count EXCEPT ![r] = 0]

\* The row gets the job that the event names, if the job is known by now.
Insert(r) ==
    /\ at[r] = "insert"
    /\ todo[r] # {}
    /\ LET e    == Current(r)
           link == payload[e].job \in jobs
       IN /\ rows' = rows \cup {[event |-> e, n |-> Cardinality(RowsOf(e)),
                                 linked |-> link]}
          /\ \/ link /\ at' = [at EXCEPT ![r] = "count"] /\ UNCHANGED <<todo, count>>
             \/ ~link /\ NextEvent(r)
    /\ UNCHANGED <<pending, payload, agent, owner, batch, failed, jobs,
                   jobState, refused, born, faults>>

\* The lookup of an observed event's job fails: the row is inserted without it.
InsertUnlinked(r) ==
    /\ at[r] = "insert"
    /\ todo[r] # {}
    /\ payload[Current(r)] \in Observed
    /\ Fault("lookup")
    /\ rows' = rows \cup {[event |-> Current(r), n |-> Cardinality(RowsOf(Current(r))),
                           linked |-> FALSE]}
    /\ NextEvent(r)
    /\ UNCHANGED <<pending, payload, agent, owner, batch, failed, jobs,
                   jobState, refused, born>>

\* The database rejects the row: a warning, and on to the next event.
InsertFails(r) ==
    /\ at[r] = "insert"
    /\ todo[r] # {}
    /\ Fault("insert")
    /\ failed' = [failed EXCEPT ![r] = @ \cup {Current(r)}]
    /\ NextEvent(r)
    /\ UNCHANGED <<pending, payload, agent, owner, batch, db, refused, born>>

\* updateJobState, first statement.
CountFailures(r) ==
    /\ at[r] = "count"
    /\ count' = [count EXCEPT ![r] = CountRecentFailures(payload[Current(r)].job)]
    /\ at' = [at EXCEPT ![r] = "upsert"]
    /\ UNCHANGED <<pending, payload, agent, owner, batch, todo, failed, db,
                   refused, born, faults>>

\* Mutant: consecutive_fail is incremented, not counted.
UpsertCurrentState_Increments(r) ==
    /\ at[r] = "upsert"
    /\ LET p   == payload[Current(r)]
           old == IF jobState[p.job] = None THEN 0 ELSE jobState[p.job].fails
       IN jobState' = [jobState EXCEPT ![p.job] = [status |-> p.status, fails |-> old + 1]]
    /\ NextEvent(r)
    /\ UNCHANGED <<pending, payload, agent, owner, batch, failed, rows,
                   jobs, refused, born, faults>>

\* updateJobState, second statement: the last upsert wins.
UpsertCurrentState(r) ==
    /\ at[r] = "upsert"
    /\ LET p == payload[Current(r)]
       IN jobState' = [jobState EXCEPT
                         ![p.job] = [status |-> p.status, fails |-> count[r]]]
    /\ NextEvent(r)
    /\ UNCHANGED <<pending, payload, agent, owner, batch, failed, rows,
                   jobs, refused, born, faults>>

\* updateJobState returns an error at either statement: a warning.
UpdateFails(r) ==
    /\ at[r] \in {"count", "upsert"}
    /\ Fault("update")
    /\ NextEvent(r)
    /\ UNCHANGED <<pending, payload, agent, owner, batch, failed, db,
                   refused, born>>

\* Mutant: the batch is answered before it is worked off.
Reply_Early(r) ==
    /\ at[r] = "insert" /\ owner[r] # None
    /\ at' = [at EXCEPT ![r] = "replied"]
    /\ refused' = refused \cup failed[r]
    /\ UNCHANGED <<pending, payload, agent, owner, batch, todo, failed, count, db,
                   born, faults>>

\* BatchReport never returns an error: the answer is 200.
Reply(r) ==
    /\ at[r] = "insert"
    /\ todo[r] = {}
    /\ owner[r] # None
    /\ at' = [at EXCEPT ![r] = "replied"]
    /\ refused' = refused \cup failed[r]
    /\ UNCHANGED <<pending, payload, agent, owner, batch, todo, failed, count, db,
                   born, faults>>

\* A handler whose client is gone ends where the cancelled context stops it.
Abandon(r) ==
    /\ at[r] # "free"
    /\ owner[r] = None
    /\ Release(r)
    /\ UNCHANGED <<pending, payload, agent, db, refused, born, faults>>

-----------------------------------------------------------------------------
AgentStep(f) ==
    \/ \E e \in Ids, p \in Payloads : BufferExecution(f, e, p)
    \/ \E r \in Slots : FlushExecutions(f, r) \/ ReceiveOK(f, r) \/ GiveUp(f, r)
    \/ BufferFails(f)
    \/ FlushNothing(f)
    \/ DeleteExecution(f)

ServerStep(r) ==
    \/ Insert(r) \/ InsertUnlinked(r) \/ InsertFails(r)
    \/ CountFailures(r) \/ UpsertCurrentState(r) \/ UpdateFails(r)
    \/ Reply(r) \/ Abandon(r)

Next == \/ \E f \in Flushers : AgentStep(f)
        \/ \E r \in Slots : ServerStep(r)
        \/ \E j \in Jobs : UpsertJob(j)
        \/ Restart

Spec == Init /\ [][Next]_vars

\* The report tick comes again and again, a goroutine that can run does run,
\* and the server works off the requests it has accepted; commands, failures
\* and discoveries need not happen.
Fairness ==
    /\ \A r \in Slots :
         /\ WF_vars(FlushExecutions(MainLoop, r))
         /\ WF_vars(\E f \in Flushers : ReceiveOK(f, r))
         /\ WF_vars(Insert(r) \/ CountFailures(r) \/ UpsertCurrentState(r) \/ Reply(r))
         /\ WF_vars(Abandon(r))
    /\ \A f \in Flushers : WF_vars(DeleteExecution(f))

FairSpec == Spec /\ Fairness

-----------------------------------------------------------------------------
(* Properties.                                                             *)

TypeOK ==
    /\ pending \subseteq Ids
    /\ payload \in [Ids -> Payloads \cup {None}]
    /\ pc \in [Flushers -> {"idle", "flush", "wait", "delete"}]
    /\ held \in [Flushers -> SUBSET Ids]
    /\ at \in [Slots -> {"free", "insert", "count", "upsert", "replied"}]
    /\ owner \in [Slots -> Flushers \cup {None}]
    /\ batch \in [Slots -> SUBSET Ids]
    /\ todo \in [Slots -> SUBSET Ids]
    /\ failed \in [Slots -> SUBSET Ids]
    /\ count \in [Slots -> Nat]
    /\ rows \subseteq Row
    /\ jobs \subseteq Jobs
    /\ jobState \in [Jobs -> JobStates \cup {None}]
    /\ refused \subseteq Ids
    /\ born \in Seq(Ids)
    /\ faults \in 0..MaxFaults

Stored == {x.event : x \in rows}
Saved == {e \in Ids : payload[e] # None}

\* docs/agent.md: events accumulate locally and are flushed later.  An event
\* that BufferExecution saved is in the buffer or on the server, whatever
\* flushes overlap, time out or die, unless the server answered 200 for it
\* although its Insert had failed.
NoSilentLoss ==
    \A e \in Saved : e \in pending \/ e \in Stored \/ e \in refused

\* The same without the exception.
NothingLost == \A e \in Saved : e \in pending \/ e \in Stored

\* A goroutine that has sent an event deletes it before it reads the bucket
\* again, so each goroutine causes at most one row of an event per failure:
\* duplicates come from overlapping flushes and from failures only.
BoundedDuplication ==
    \A e \in Ids : Cardinality(RowsOf(e)) <= Cardinality(Flushers) * (1 + faults)

\* consecutive_fail of a job never exceeds the failing rows the job has, in
\* whatever order the handlers of overlapping batches count and write.
FailCountBounded ==
    \A j \in Jobs : jobState[j] # None => jobState[j].fails <= CountRecentFailures(j)

\* With one handler at a time and no failed statement, consecutive_fail is the
\* number of all failing rows of the job in the window, the ones before its last
\* success included, whenever no handler is between its Insert and its upsert.
Updating(r) == at[r] \in {"count", "upsert"}
Serial == faults = 0 /\ \A r, q \in Slots : r = q
FailsOfWindow ==
    (Serial /\ \A r \in Slots : ~Updating(r))
      => \A j \in Jobs : CountRecentFailures(j) =
           IF jobState[j] = None THEN 0 ELSE jobState[j].fails

\* Every saved event leaves the buffer in the end, which by NoSilentLoss means
\* that the server has it or answered for it: no overlapping flush, no failed
\* one and no abandoned handler keeps the buffer from draining for ever.
EventuallyDrained == \A e \in Ids : e \in pending ~> e \notin pending

\* domain/models.go: current_job_states is "a materialized view of a job's
\* latest observed state".  When everything the agent saw has been delivered
\* without a failure and linked to its job, a job's last_status is that of its latest event.
JobEvents(j) == {i \in DOMAIN born : payload[born[i]].job = j}
Quiet == pending = {} /\ \A r \in Slots : at[r] = "free"
LatestState ==
    \A j \in Jobs : Quiet /\ faults = 0 /\ jobState[j] # None /\ (\A x \in rows : x.linked)
      => \E i \in JobEvents(j) : /\ \A k \in JobEvents(j) : k <= i
                                 /\ payload[born[i]].status = jobState[j].status

\* service/execution.go calls it the "consecutive failure count": when everything
\* has been delivered once, without a failure and linked to its job, consecutive_fail
\* of a job is the number of its failures since its last success.
FailuresInARow(j) ==
    {i \in JobEvents(j) :
        /\ payload[born[i]].status \in Failing
        /\ \A k \in JobEvents(j) : k > i => payload[born[k]].status # "success"}
DeliveredOnce == \A e \in Ids : Cardinality(RowsOf(e)) <= 1
ConsecutiveFailures ==
    \A j \in Jobs :
      /\ Quiet /\ faults = 0 /\ DeliveredOnce
      /\ jobState[j] # None
      /\ \A x \in rows : x.linked
      => jobState[j].fails = Cardinality(FailuresInARow(j))

-----------------------------------------------------------------------------
(* The inductive invariant behind NoSilentLoss, FailCountBounded and       *)
(* Outbox.                                                                 *)

\* A request answers for every event it is done with: the event has a row or
\* is in the request's failed set, which a reply publishes.  The owner of a
\* request waits for it and for no other.
RequestsConsistent ==
    \A r \in Slots :
      /\ at[r] = "free" => batch[r] = {} /\ owner[r] = None
      /\ todo[r] \subseteq batch[r]
      /\ batch[r] \subseteq Saved
      /\ batch[r] \ todo[r] \subseteq Stored \cup failed[r]
      /\ at[r] \in {"count", "upsert"} => todo[r] # {} /\ Current(r) \in Stored
      /\ at[r] = "replied" => todo[r] = {} /\ failed[r] \subseteq refused
      /\ owner[r] # None =>
           /\ pc[owner[r]] = "wait"
           /\ held[owner[r]] = batch[r]
           /\ batch[r] # {}
           /\ \A q \in Slots : owner[q] = owner[r] => q = r

\* A goroutine deletes only what an answer covers.
DeletesCovered ==
    \A f \in Flushers : pc[f] = "delete" =>
      /\ held[f] # {}
      /\ held[f] \subseteq Stored \cup refused

\* Rows come from saved events, and there are finitely many of them.
RowsConsistent == IsFiniteSet(rows) /\ Stored \subseteq Saved

DeliveryInv ==
    /\ TypeOK
    /\ pending \subseteq Saved
    /\ RequestsConsistent
    /\ DeletesCovered
    /\ RowsConsistent
    /\ NoSilentLoss

\* A count that a handler still holds is not above the current one.
CountsConsistent ==
    \A r \in Slots : at[r] = "upsert" =>
      count[r] <= CountRecentFailures(payload[Current(r)].job)

\* The reporter implements the outbox: an event leaves the buffer only when
\* the server has a row of it or answered for it.
O == INSTANCE Outbox WITH stored <- Stored
Outbox == O!Spec
=============================================================================
