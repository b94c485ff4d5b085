------------------------------ MODULE Alerting ------------------------------
(***************************************************************************)
(* Host health and the alert evaluator.                                    *)
(*                                                                         *)
(* Heartbeats update hosts.last_heartbeat_at and hosts.status while the    *)
(* evaluator, one goroutine of the server, makes a pass over all hosts and *)
(* all jobs every minute.  A pass marks silent hosts as stale, lists the   *)
(* hosts, and then works on that list: it fires an alert for a stale host  *)
(* that has no active one and resolves the alert of any other host.  Then  *)
(* it counts the failures of each job and does the same.  Each database    *)
(* call is a statement of its own, so heartbeats, failing executions and   *)
(* the passing of time come between any two of them.                       *)
(***************************************************************************)
EXTENDS Integers, FiniteSets

CONSTANTS Hosts, Jobs,   \* targets of the two rules
          Threshold,     \* 5 minutes, in ticks of the clock
          MaxFails,      \* bound on the failing rows of a job
          FaultKinds,    \* failures the run allows
          MaxFaults,     \* bound on the number of failures of the run
          None           \* NULL

FailThreshold == 3
Targets == Hosts \cup Jobs

ASSUME AlertingAssumption ==
    /\ Threshold \in Nat
    /\ MaxFails \in Nat
    /\ MaxFaults \in Nat
    /\ None \notin Nat \cup Targets
    /\ Hosts \cap Jobs = {}

VARIABLES status,     \* hosts.status, "none" before the host registers
          age,        \* time since hosts.last_heartbeat_at, None for NULL
          hostState,  \* current_host_states.status
          fails,      \* failing rows of each job in the last 24 hours
          active,     \* number of active alerts of each target
          pc,         \* where the evaluator is
          todo,       \* targets its loop has not reached
          seenStatus, \* the part of its host list in todo: status ...
          seenAge,    \* ... and time since the heartbeat it shows
          cur,        \* the target the loop is at
          bad,        \* whether its rule applies
          touched,    \* history: targets whose alert need not be exact
          faults      \* number of failures so far

world == <<status, age, hostState, fails>>
seen  == <<seenStatus, seenAge>>
vars  == <<world, active, pc, todo, seen, cur, bad, touched, faults>>

Fault(kind) == /\ kind \in FaultKinds
               /\ faults < MaxFaults
               /\ faults' = faults + 1

Init ==
    /\ status = [h \in Hosts |-> "none"]
    /\ age = [h \in Hosts |-> None]
    /\ hostState = [h \in Hosts |-> None]
    /\ fails = [j \in Jobs |-> 0]
    /\ active = [t \in Targets |-> 0]
    /\ pc = "idle"
    /\ todo = {}
    /\ seenStatus = [h \in Hosts |-> "none"]
    /\ seenAge = [h \in Hosts |-> None]
    /\ cur = None
    /\ bad = FALSE
    /\ touched = {}
    /\ faults = 0

\* More than Threshold since the heartbeat; ages beyond that are not told apart.
Over(a) == a # None /\ a > Threshold
Older(a) == IF a = None \/ Over(a) THEN a ELSE a + 1

-----------------------------------------------------------------------------
(* What the evaluator watches.                                             *)

\* The second statement of Register and Heartbeat; a failure is reported only.
UpsertCurrentState(h) ==
    \/ hostState' = [hostState EXCEPT ![h] = "active"] /\ UNCHANGED faults
    \/ Fault("state") /\ UNCHANGED hostState

\* The row of a new host says unknown; that of a known one is left as it is.
Register(h) ==
    /\ status' = [status EXCEPT ![h] = IF @ = "none" THEN "unknown" ELSE @]
    /\ UpsertCurrentState(h)
    /\ UNCHANGED <<age, fails, active, pc, todo, seen, cur, bad, touched>>

\* Mutant: a heartbeat does not bring a stale host back.
Heartbeat_KeepsStatus(h) ==
    /\ status[h] # "none"
    /\ status' = [status EXCEPT ![h] = IF @ = "stale" THEN @ ELSE "active"]
    /\ age' = [age EXCEPT ![h] = 0]
    /\ UpsertCurrentState(h)
    /\ touched' = IF Over(age[h]) \/ h \in todo THEN touched \cup {h} ELSE touched
    /\ UNCHANGED <<fails, active, pc, todo, seen, cur, bad>>

Heartbeat(h) ==
    /\ status[h] # "none"
    /\ status' = [status EXCEPT ![h] = "active"]
    /\ age' = [age EXCEPT ![h] = 0]
    /\ UpsertCurrentState(h)
    /\ touched' = IF Over(age[h]) \/ h \in todo THEN touched \cup {h} ELSE touched
    /\ UNCHANGED <<fails, active, pc, todo, seen, cur, bad>>

\* One unit of time, for the rows and for the list the evaluator holds.
Tick ==
    /\ age' = [h \in Hosts |-> Older(age[h])]
    /\ seenAge' = [h \in Hosts |-> Older(seenAge[h])]
    /\ touched' = touched \cup {h \in Hosts : age[h] = Threshold}
    /\ UNCHANGED <<status, hostState, fails, active, pc, todo, seenStatus, cur,
                   bad, faults>>

\* A failing execution is inserted.
FailingRow(j) ==
    /\ fails[j] < MaxFails
    /\ fails' = [fails EXCEPT ![j] = @ + 1]
    /\ touched' = IF fails[j] + 1 = FailThreshold THEN touched \cup {j} ELSE touched
    /\ UNCHANGED <<status, age, hostState, active, pc, todo, seen, cur, bad, faults>>

\* A failing execution becomes older than 24 hours.
Expire(j) ==
    /\ fails[j] > 0
    /\ fails' = [fails EXCEPT ![j] = @ - 1]
    /\ touched' = IF fails[j] = FailThreshold THEN touched \cup {j} ELSE touched
    /\ UNCHANGED <<status, age, hostState, active, pc, todo, seen, cur, bad, faults>>

-----------------------------------------------------------------------------
(* RunAll.                                                                 *)

StartPass ==
    /\ pc = "idle"
    /\ pc' = "mark"
    /\ UNCHANGED <<world, active, todo, seen, cur, bad, touched, faults>>

\* Mutant: the hosts are marked with the other status that nothing handles.
MarkStaleHosts_Offline ==
    /\ pc = "mark"
    /\ status' = [h \in Hosts |-> IF status[h] = "active" /\ Over(age[h])
                                 THEN "offline" ELSE status[h]]
    /\ pc' = "list"
    /\ UNCHANGED <<age, hostState, fails, active, todo, seen, cur, bad, touched, faults>>

\* Mutant: every active host is marked.
MarkStaleHosts_All ==
    /\ pc = "mark"
    /\ status' = [h \in Hosts |-> IF status[h] = "active" THEN "stale" ELSE status[h]]
    /\ pc' = "list"
    /\ UNCHANGED <<age, hostState, fails, active, todo, seen, cur, bad, touched, faults>>

\* One UPDATE.  If it fails, the pass goes on with the jobs.
MarkStaleHosts ==
    /\ pc = "mark"
    /\ \/ /\ status' = [h \in Hosts |-> IF /\ status[h] = "active"
                                           /\ age[h] = None \/ Over(age[h])
                                        THEN "stale" ELSE status[h]]
          /\ pc' = "list"
          /\ UNCHANGED faults
       \/ Fault("database") /\ pc' = "listJobs" /\ UNCHANGED status
    /\ UNCHANGED <<age, hostState, fails, active, todo, seen, cur, bad, touched>>

ListHosts ==
    /\ pc = "list"
    /\ \/ /\ todo' = {h \in Hosts : status[h] # "none"}
          /\ seenStatus' = status
          /\ seenAge' = age
          /\ touched' = touched \ Hosts
          /\ pc' = "host"
          /\ UNCHANGED faults
       \/ Fault("database") /\ pc' = "listJobs" /\ UNCHANGED <<todo, seen, touched>>
    /\ UNCHANGED <<world, active, cur, bad>>

\* time.Since is evaluated now, on the heartbeat of the list.
IsStale(h) == seenStatus[h] = "stale" \/ Over(seenAge[h])

CheckHost(h) ==
    /\ pc = "host"
    /\ h \in todo
    /\ todo' = todo \ {h}
    /\ cur' = h
    /\ bad' = IsStale(h)
    /\ seenStatus' = [seenStatus EXCEPT ![h] = "none"]
    /\ seenAge' = [seenAge EXCEPT ![h] = None]
    /\ pc' = "check"
    /\ UNCHANGED <<world, active, touched, faults>>

\* Mutant: the pass ends with the hosts.
HostsDone_Ends ==
    /\ pc = "host"
    /\ todo = {}
    /\ pc' = "idle"
    /\ UNCHANGED <<world, active, todo, seen, cur, bad, touched, faults>>

HostsDone ==
    /\ pc = "host"
    /\ todo = {}
    /\ pc' = "listJobs"
    /\ UNCHANGED <<world, active, todo, seen, cur, bad, touched, faults>>

ListJobs ==
    /\ pc = "listJobs"
    /\ \/ todo' = Jobs /\ pc' = "job" /\ UNCHANGED faults
       \/ Fault("database") /\ pc' = "idle" /\ UNCHANGED todo
    /\ UNCHANGED <<world, active, seen, cur, bad, touched>>

\* CountRecentFailures; if it fails the loop continues with the next job.
CheckJob(j) ==
    /\ pc = "job"
    /\ j \in todo
    /\ todo' = todo \ {j}
    /\ \/ /\ cur' = j
          /\ bad' = (fails[j] >= FailThreshold)
          /\ touched' = touched \ {j}
          /\ pc' = "check"
          /\ UNCHANGED faults
       \/ Fault("database") /\ touched' = touched \cup {j} /\ UNCHANGED <<cur, bad, pc>>
    /\ UNCHANGED <<world, active, seen>>

JobsDone ==
    /\ pc = "job"
    /\ todo = {}
    /\ pc' = "idle"
    /\ UNCHANGED <<world, active, todo, seen, cur, bad, touched, faults>>

\* The loop the evaluator is in goes on.
Continue == /\ pc' = IF cur \in Hosts THEN "host" ELSE "job"
            /\ cur' = None
            /\ bad' = FALSE

\* A failed call on an alert is logged, if at all, and the loop goes on.
Skip == /\ Fault("database")
        /\ touched' = touched \cup {cur}
        /\ Continue

\* Mutant: fireOrUpdate fires without looking for an active alert.
GetActiveByTarget_Blind ==
    /\ pc = "check"
    /\ bad
    /\ pc' = "insert"
    /\ UNCHANGED <<world, active, todo, seen, cur, bad, touched, faults>>

\* fireOrUpdate, first statement.
GetActiveByTarget ==
    /\ pc = "check"
    /\ bad
    /\ \/ active[cur] > 0 /\ Continue /\ UNCHANGED <<touched, faults>>
       \/ active[cur] = 0 /\ pc' = "insert" /\ UNCHANGED <<cur, bad, touched, faults>>
       \/ Skip
    /\ UNCHANGED <<world, active, todo, seen>>

\* fireOrUpdate, second statement.
Insert ==
    /\ pc = "insert"
    /\ \/ /\ active' = [active EXCEPT ![cur] = @ + 1]
          /\ Continue
          /\ UNCHANGED <<touched, faults>>
       \/ Skip /\ UNCHANGED active
    /\ UNCHANGED <<world, todo, seen>>

\* Mutant: only alerts of jobs are resolved.
Resolve_JobsOnly ==
    /\ pc = "check"
    /\ ~bad
    /\ active' = IF cur \in Jobs THEN [active EXCEPT ![cur] = 0] ELSE active
    /\ Continue
    /\ UNCHANGED <<world, todo, seen, touched, faults>>

Resolve ==
    /\ pc = "check"
    /\ ~bad
    /\ \/ /\ active' = [active EXCEPT ![cur] = 0]
          /\ Continue
          /\ UNCHANGED <<touched, faults>>
       \/ Skip /\ UNCHANGED active
    /\ UNCHANGED <<world, todo, seen>>

\* The server dies in the middle of a pass and is started again.
Restart ==
    /\ pc # "idle"
    /\ Fault("crash")
    /\ pc' = "idle"
    /\ todo' = {}
    /\ cur' = None
    /\ bad' = FALSE
    /\ seenStatus' = [h \in Hosts |-> "none"]
    /\ seenAge' = [h \in Hosts |-> None]
    /\ touched' = touched \cup todo \cup ({cur} \cap Targets)
    /\ UNCHANGED <<world, active>>

-----------------------------------------------------------------------------
Evaluate ==
    \/ StartPass \/ MarkStaleHosts \/ ListHosts \/ HostsDone \/ ListJobs \/ JobsDone
    \/ \E h \in Hosts : CheckHost(h)
    \/ \E j \in Jobs : CheckJob(j)
    \/ GetActiveByTarget \/ Insert \/ Resolve

Next ==
    \/ \E h \in Hosts : Register(h) \/ Heartbeat(h)
    \/ Tick
    \/ \E j \in Jobs : FailingRow(j) \/ Expire(j)
    \/ Evaluate
    \/ Restart

Spec == Init /\ [][Next]_vars

\* The evaluator's ticker fires again and again and its goroutine runs.
FairSpec == Spec /\ WF_vars(Evaluate) /\ WF_vars(Tick)

-----------------------------------------------------------------------------
(* Properties.                                                             *)

TypeOK ==
    /\ status \in [Hosts -> {"none", "unknown", "active", "stale"}]
    /\ age \in [Hosts -> Nat \cup {None}]
    /\ hostState \in [Hosts -> {None, "active"}]
    /\ fails \in [Jobs -> Nat]
    /\ active \in [Targets -> Nat]
    /\ pc \in {"idle", "mark", "list", "host", "listJobs", "job", "check", "insert"}
    /\ todo \subseteq Targets
    /\ seenStatus \in [Hosts -> {"none", "unknown", "active", "stale"}]
    /\ seenAge \in [Hosts -> Nat \cup {None}]
    /\ cur \in Targets \cup {None}
    /\ bad \in BOOLEAN
    /\ touched \subseteq Targets
    /\ faults \in 0..MaxFaults

\* The condition of the rule of a target.
Unhealthy(t) == IF t \in Hosts THEN Over(age[t]) ELSE fails[t] >= FailThreshold

\* A target never has two active alerts, although finding none and inserting
\* one are two statements.
OneActiveAlert == \A t \in Targets : active[t] <= 1

\* A host that hosts.status calls stale has not sent a heartbeat for longer
\* than the threshold: a heartbeat that overlaps MarkStaleHosts is never lost.
StaleIsOld == \A h \in Hosts : status[h] = "stale" => Over(age[h])

\* Alerts are exact: a target has an active alert if and only if its rule
\* applies, except for targets the pass has yet to reach and targets whose
\* condition changed, or whose statement failed, after the last look at them.
\* A heartbeat after the listing counts as a change, because the list grows old
\* while the pass is on its way: it may reach the threshold and fire.
AlertsExact ==
    \A t \in Targets \ (touched \cup todo \cup {cur}) :
      active[t] = 1 <=> Unhealthy(t)

\* A target whose rule applies gets its alert, unless it recovers first,
\* whatever statements fail and whenever the server restarts.
AlertRaised ==
    \A t \in Targets : Unhealthy(t) ~> active[t] = 1 \/ ~Unhealthy(t)

\* A target that recovers for good loses its alert for good, provided that no
\* pass takes so long that a heartbeat of its list reaches the threshold.
Well(t) == ~Unhealthy(t) /\ (t \in todo \cap Hosts => ~Over(seenAge[t]))
AlertCleared ==
    \A t \in Targets : <>[]Well(t) => <>[](active[t] = 0)

-----------------------------------------------------------------------------
(* The inductive invariant behind the safety properties.                   *)

\* What the evaluator's variables mean in each part of a pass.
PassConsistent ==
    /\ pc \in {"idle", "mark", "list", "listJobs"} => todo = {}
    /\ pc = "host" => todo \subseteq Hosts
    /\ pc = "job" => todo \subseteq Jobs
    /\ cur # None <=> pc \in {"check", "insert"}
    /\ cur \in Hosts => todo \subseteq Hosts
    /\ cur \in Jobs => todo \subseteq Jobs
    /\ cur \notin todo
    /\ pc = "insert" => bad /\ active[cur] = 0

\* A host that has not registered has no heartbeat, no alert and no place in a
\* pass; an active one has sent a heartbeat.
HostsConsistent ==
    \A h \in Hosts :
      /\ status[h] = "none" => /\ age[h] = None
                               /\ active[h] = 0
                               /\ h \notin todo
                               /\ h # cur
      /\ status[h] = "active" => age[h] # None

\* The list is right about a host that is not touched, and so is the verdict
\* on the target the loop is at.
ListAccurate ==
    \A h \in (todo \cap Hosts) \ touched :
      /\ seenAge[h] = age[h]
      /\ seenStatus[h] = "stale" => Over(age[h])
VerdictAccurate ==
    cur \in Targets \ touched => (bad <=> Unhealthy(cur))

AlertInv ==
    /\ TypeOK
    /\ PassConsistent
    /\ HostsConsistent
    /\ ListAccurate
    /\ VerdictAccurate
    /\ OneActiveAlert
    /\ StaleIsOld
    /\ AlertsExact
=============================================================================
