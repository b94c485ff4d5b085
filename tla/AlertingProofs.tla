--------------------------- MODULE AlertingProofs ---------------------------
(***************************************************************************)
(* Proofs about Alerting: the evaluator's pass keeps alerts exact although *)
(* heartbeats, failing executions and time interleave with its statements, *)
(* for any number of hosts, jobs and failures.                             *)
(***************************************************************************)
EXTENDS Alerting, TLAPS

\* One unit of time moves no heartbeat over the threshold but those that have
\* just reached it.
LEMMA OlderFacts ==
    ASSUME NEW a \in Nat \cup {None}
    PROVE  /\ Older(a) \in Nat \cup {None}
           /\ Older(a) = None <=> a = None
           /\ Over(a) => Over(Older(a))
           /\ a # Threshold => (Over(Older(a)) <=> Over(a))
  BY AlertingAssumption DEF Older, Over

LEMMA InitEstablishes == Init => AlertInv
<1> SUFFICES ASSUME Init
             PROVE  AlertInv
  OBVIOUS
<1> USE AlertingAssumption DEF Init
<1>1. TypeOK
  <2>1. faults \in 0..MaxFaults
    OBVIOUS
  <2>4. bad \in BOOLEAN
    BY Zenon
  <2>2. /\ status \in [Hosts -> {"none", "unknown", "active", "stale"}]
        /\ age \in [Hosts -> Nat \cup {None}]
        /\ hostState \in [Hosts -> {None, "active"}]
        /\ seenStatus \in [Hosts -> {"none", "unknown", "active", "stale"}]
        /\ seenAge \in [Hosts -> Nat \cup {None}]
    OBVIOUS
  <2>3. fails \in [Jobs -> Nat] /\ active \in [Targets -> Nat]
    OBVIOUS
  <2> QED
    BY <2>1, <2>2, <2>3, <2>4 DEF TypeOK
<1>2. PassConsistent /\ HostsConsistent /\ ListAccurate /\ VerdictAccurate
  BY DEF PassConsistent, HostsConsistent, ListAccurate, VerdictAccurate, Targets
<1>3. OneActiveAlert /\ StaleIsOld
  BY DEF OneActiveAlert, StaleIsOld
<1>4. AlertsExact
  BY DEF AlertsExact, Unhealthy, Over, FailThreshold, Targets
<1> QED
  BY <1>1, <1>2, <1>3, <1>4 DEF AlertInv

LEMMA RegisterPreserves ==
    ASSUME AlertInv, NEW h \in Hosts, Register(h)
    PROVE  AlertInv'
<1> USE AlertingAssumption DEF AlertInv, Register, UpsertCurrentState, Fault, seen
<1>1. TypeOK'
  BY DEF TypeOK, Targets
<1>2. PassConsistent'
  BY DEF PassConsistent, TypeOK, Targets
<1>3. HostsConsistent'
  BY DEF HostsConsistent, PassConsistent, TypeOK, Targets
<1>4. ListAccurate'
  BY DEF ListAccurate, PassConsistent, StaleIsOld, TypeOK, Targets
<1>5. VerdictAccurate'
  BY DEF VerdictAccurate, ListAccurate, PassConsistent, Unhealthy, TypeOK, Targets
<1>6. OneActiveAlert' /\ StaleIsOld'
  BY DEF OneActiveAlert, StaleIsOld, HostsConsistent, PassConsistent, TypeOK, Targets
<1>7. AlertsExact'
  BY DEF AlertsExact, VerdictAccurate, OneActiveAlert, HostsConsistent,
         PassConsistent, Unhealthy, TypeOK, Targets
<1> QED
  BY <1>1, <1>2, <1>3, <1>4, <1>5, <1>6, <1>7

LEMMA HeartbeatPreserves ==
    ASSUME AlertInv, NEW h \in Hosts, Heartbeat(h)
    PROVE  AlertInv'
<1> USE AlertingAssumption DEF AlertInv, Heartbeat, UpsertCurrentState, Fault, seen
<1>1. TypeOK'
  BY DEF TypeOK, Targets
<1>2. PassConsistent'
  BY DEF PassConsistent, TypeOK, Targets
<1>3. HostsConsistent'
  BY DEF HostsConsistent, PassConsistent, TypeOK, Targets
<1>4. ListAccurate'
  BY DEF ListAccurate, PassConsistent, StaleIsOld, TypeOK, Targets
<1>5. VerdictAccurate'
  <2>1. \A t \in Targets : t \notin touched' => (Unhealthy(t)' <=> Unhealthy(t))
    BY DEF Unhealthy, Over, TypeOK, Targets
  <2>2. cur' = cur /\ bad' = bad /\ touched \subseteq touched'
    OBVIOUS
  <2> QED
    BY <2>1, <2>2 DEF VerdictAccurate
<1>6. OneActiveAlert' /\ StaleIsOld'
  BY DEF OneActiveAlert, StaleIsOld, HostsConsistent, PassConsistent, TypeOK, Targets
<1>7. AlertsExact'
  <2>1. \A t \in Targets : t \notin touched' => (Unhealthy(t)' <=> Unhealthy(t))
    BY DEF Unhealthy, Over, TypeOK, Targets
  <2>2. cur' = cur /\ todo' = todo /\ active' = active /\ touched \subseteq touched'
    OBVIOUS
  <2> QED
    BY <2>1, <2>2 DEF AlertsExact
<1> QED
  BY <1>1, <1>2, <1>3, <1>4, <1>5, <1>6, <1>7

LEMMA TickPreserves ==
    ASSUME AlertInv, Tick
    PROVE  AlertInv'
<1> USE AlertingAssumption, OlderFacts DEF AlertInv, Tick
<1>1. TypeOK'
  BY DEF TypeOK, Targets
<1>2. PassConsistent'
  BY DEF PassConsistent, TypeOK, Targets
<1>3. HostsConsistent'
  BY DEF HostsConsistent, PassConsistent, TypeOK, Targets
<1>4. ListAccurate'
  BY DEF ListAccurate, PassConsistent, StaleIsOld, TypeOK, Targets
<1>5. VerdictAccurate'
  BY DEF VerdictAccurate, ListAccurate, PassConsistent, Unhealthy, TypeOK, Targets
<1>6. OneActiveAlert' /\ StaleIsOld'
  BY DEF OneActiveAlert, StaleIsOld, HostsConsistent, PassConsistent, TypeOK, Targets
<1>7. AlertsExact'
  BY DEF AlertsExact, VerdictAccurate, OneActiveAlert, HostsConsistent,
         PassConsistent, Unhealthy, TypeOK, Targets
<1> QED
  BY <1>1, <1>2, <1>3, <1>4, <1>5, <1>6, <1>7

LEMMA FailingRowPreserves ==
    ASSUME AlertInv, NEW j \in Jobs, FailingRow(j)
    PROVE  AlertInv'
<1> USE AlertingAssumption DEF AlertInv, FailingRow, seen
<1>1. TypeOK'
  BY DEF TypeOK, Targets
<1>2. PassConsistent'
  BY DEF PassConsistent, TypeOK, Targets
<1>3. HostsConsistent'
  BY DEF HostsConsistent, PassConsistent, TypeOK, Targets
<1>4. ListAccurate'
  BY DEF ListAccurate, PassConsistent, StaleIsOld, TypeOK, Targets
<1>5. VerdictAccurate'
  <2>1. \A t \in Targets : t \notin touched' => (Unhealthy(t)' <=> Unhealthy(t))
    BY DEF Unhealthy, FailThreshold, TypeOK, Targets
  <2>2. cur' = cur /\ bad' = bad /\ touched \subseteq touched'
    OBVIOUS
  <2> QED
    BY <2>1, <2>2 DEF VerdictAccurate
<1>6. OneActiveAlert' /\ StaleIsOld'
  BY DEF OneActiveAlert, StaleIsOld, HostsConsistent, PassConsistent, TypeOK, Targets
<1>7. AlertsExact'
  <2>1. \A t \in Targets : t \notin touched' => (Unhealthy(t)' <=> Unhealthy(t))
    BY DEF Unhealthy, FailThreshold, TypeOK, Targets
  <2>2. cur' = cur /\ todo' = todo /\ active' = active /\ touched \subseteq touched'
    OBVIOUS
  <2> QED
    BY <2>1, <2>2 DEF AlertsExact
<1> QED
  BY <1>1, <1>2, <1>3, <1>4, <1>5, <1>6, <1>7

LEMMA ExpirePreserves ==
    ASSUME AlertInv, NEW j \in Jobs, Expire(j)
    PROVE  AlertInv'
<1> USE AlertingAssumption DEF AlertInv, Expire, seen
<1>1. TypeOK'
  BY DEF TypeOK, Targets
<1>2. PassConsistent'
  BY DEF PassConsistent, TypeOK, Targets
<1>3. HostsConsistent'
  BY DEF HostsConsistent, PassConsistent, TypeOK, Targets
<1>4. ListAccurate'
  BY DEF ListAccurate, PassConsistent, StaleIsOld, TypeOK, Targets
<1>5. VerdictAccurate'
  <2>1. \A t \in Targets : t \notin touched' => (Unhealthy(t)' <=> Unhealthy(t))
    BY DEF Unhealthy, FailThreshold, TypeOK, Targets
  <2>2. cur' = cur /\ bad' = bad /\ touched \subseteq touched'
    OBVIOUS
  <2> QED
    BY <2>1, <2>2 DEF VerdictAccurate
<1>6. OneActiveAlert' /\ StaleIsOld'
  BY DEF OneActiveAlert, StaleIsOld, HostsConsistent, PassConsistent, TypeOK, Targets
<1>7. AlertsExact'
  <2>1. \A t \in Targets : t \notin touched' => (Unhealthy(t)' <=> Unhealthy(t))
    BY DEF Unhealthy, FailThreshold, TypeOK, Targets
  <2>2. cur' = cur /\ todo' = todo /\ active' = active /\ touched \subseteq touched'
    OBVIOUS
  <2> QED
    BY <2>1, <2>2 DEF AlertsExact
<1> QED
  BY <1>1, <1>2, <1>3, <1>4, <1>5, <1>6, <1>7

LEMMA StartPassPreserves ==
    ASSUME AlertInv, StartPass
    PROVE  AlertInv'
<1> USE AlertingAssumption DEF AlertInv, StartPass, world, seen
<1>1. TypeOK'
  BY DEF TypeOK, Targets
<1>2. PassConsistent'
  BY DEF PassConsistent, TypeOK, Targets
<1>3. HostsConsistent'
  BY DEF HostsConsistent, PassConsistent, TypeOK, Targets
<1>4. ListAccurate'
  BY DEF ListAccurate, PassConsistent, StaleIsOld, TypeOK, Targets
<1>5. VerdictAccurate'
  BY DEF VerdictAccurate, ListAccurate, PassConsistent, Unhealthy, TypeOK, Targets
<1>6. OneActiveAlert' /\ StaleIsOld'
  BY DEF OneActiveAlert, StaleIsOld, HostsConsistent, PassConsistent, TypeOK, Targets
<1>7. AlertsExact'
  BY DEF AlertsExact, VerdictAccurate, OneActiveAlert, HostsConsistent,
         PassConsistent, Unhealthy, TypeOK, Targets
<1> QED
  BY <1>1, <1>2, <1>3, <1>4, <1>5, <1>6, <1>7

LEMMA MarkStalePreserves ==
    ASSUME AlertInv, MarkStaleHosts
    PROVE  AlertInv'
<1> USE AlertingAssumption DEF AlertInv, MarkStaleHosts, Fault, seen
<1>1. TypeOK'
  BY DEF TypeOK, Targets
<1>2. PassConsistent'
  BY DEF PassConsistent, TypeOK, Targets
<1>3. HostsConsistent'
  BY DEF HostsConsistent, PassConsistent, TypeOK, Targets
<1>4. ListAccurate'
  BY DEF ListAccurate, PassConsistent, StaleIsOld, TypeOK, Targets
<1>5. VerdictAccurate'
  BY DEF VerdictAccurate, ListAccurate, PassConsistent, Unhealthy, TypeOK, Targets
<1>6. OneActiveAlert' /\ StaleIsOld'
  <2>1. OneActiveAlert'
    BY DEF OneActiveAlert
  <2>2. \A h \in Hosts : status[h] = "active" => age[h] # None
    BY DEF HostsConsistent
  <2>3. StaleIsOld'
    BY <2>2 DEF StaleIsOld, TypeOK
  <2> QED
    BY <2>1, <2>3
<1>7. AlertsExact'
  BY DEF AlertsExact, VerdictAccurate, OneActiveAlert, HostsConsistent,
         PassConsistent, Unhealthy, TypeOK, Targets
<1> QED
  BY <1>1, <1>2, <1>3, <1>4, <1>5, <1>6, <1>7

LEMMA ListHostsPreserves ==
    ASSUME AlertInv, ListHosts
    PROVE  AlertInv'
<1> USE AlertingAssumption DEF AlertInv, ListHosts, Fault, world, seen
<1>1. TypeOK'
  BY DEF TypeOK, Targets
<1>2. PassConsistent'
  BY DEF PassConsistent, TypeOK, Targets
<1>3. HostsConsistent'
  BY DEF HostsConsistent, PassConsistent, TypeOK, Targets
<1>4. ListAccurate'
  BY DEF ListAccurate, PassConsistent, StaleIsOld, TypeOK, Targets
<1>5. VerdictAccurate'
  BY DEF VerdictAccurate, ListAccurate, PassConsistent, Unhealthy, TypeOK, Targets
<1>6. OneActiveAlert' /\ StaleIsOld'
  BY DEF OneActiveAlert, StaleIsOld, HostsConsistent, PassConsistent, TypeOK, Targets
<1>7. AlertsExact'
  <2>1. CASE todo' = todo /\ touched' = touched
    BY <2>1 DEF AlertsExact, Unhealthy
  <2>2. CASE /\ todo' = {h \in Hosts : status[h] # "none"}
             /\ touched' = touched \ Hosts
    <3>1. \A h \in Hosts : h \notin todo' => active[h] = 0 /\ ~Over(age[h])
      BY <2>2 DEF HostsConsistent, Over
    <3>2. todo = {}
      BY DEF PassConsistent
    <3> QED
      BY <2>2, <3>1, <3>2 DEF AlertsExact, Unhealthy, Targets
  <2> QED
    BY <2>1, <2>2
<1> QED
  BY <1>1, <1>2, <1>3, <1>4, <1>5, <1>6, <1>7

LEMMA CheckHostPreserves ==
    ASSUME AlertInv, NEW h \in Hosts, CheckHost(h)
    PROVE  AlertInv'
<1> USE AlertingAssumption DEF AlertInv, CheckHost, IsStale, world
<1>1. TypeOK'
  BY DEF TypeOK, Targets
<1>2. PassConsistent'
  BY DEF PassConsistent, TypeOK, Targets
<1>3. HostsConsistent'
  BY DEF HostsConsistent, PassConsistent, TypeOK, Targets
<1>4. ListAccurate'
  BY DEF ListAccurate, PassConsistent, StaleIsOld, TypeOK, Targets
<1>5. VerdictAccurate'
  BY DEF VerdictAccurate, ListAccurate, PassConsistent, Unhealthy, TypeOK, Targets
<1>6. OneActiveAlert' /\ StaleIsOld'
  BY DEF OneActiveAlert, StaleIsOld, HostsConsistent, PassConsistent, TypeOK, Targets
<1>7. AlertsExact'
  BY DEF AlertsExact, VerdictAccurate, OneActiveAlert, HostsConsistent,
         PassConsistent, Unhealthy, TypeOK, Targets
<1> QED
  BY <1>1, <1>2, <1>3, <1>4, <1>5, <1>6, <1>7

LEMMA DonePreserves ==
    ASSUME AlertInv, HostsDone \/ JobsDone
    PROVE  AlertInv'
<1> USE AlertingAssumption DEF AlertInv, HostsDone, JobsDone, world, seen
<1>1. TypeOK'
  BY DEF TypeOK, Targets
<1>2. PassConsistent'
  BY DEF PassConsistent, TypeOK, Targets
<1>3. HostsConsistent'
  BY DEF HostsConsistent, PassConsistent, TypeOK, Targets
<1>4. ListAccurate'
  BY DEF ListAccurate, PassConsistent, StaleIsOld, TypeOK, Targets
<1>5. VerdictAccurate'
  BY DEF VerdictAccurate, ListAccurate, PassConsistent, Unhealthy, TypeOK, Targets
<1>6. OneActiveAlert' /\ StaleIsOld'
  BY DEF OneActiveAlert, StaleIsOld, HostsConsistent, PassConsistent, TypeOK, Targets
<1>7. AlertsExact'
  BY DEF AlertsExact, VerdictAccurate, OneActiveAlert, HostsConsistent,
         PassConsistent, Unhealthy, TypeOK, Targets
<1> QED
  BY <1>1, <1>2, <1>3, <1>4, <1>5, <1>6, <1>7

LEMMA ListJobsPreserves ==
    ASSUME AlertInv, ListJobs
    PROVE  AlertInv'
<1> USE AlertingAssumption DEF AlertInv, ListJobs, Fault, world, seen
<1>1. TypeOK'
  BY DEF TypeOK, Targets
<1>2. PassConsistent'
  BY DEF PassConsistent, TypeOK, Targets
<1>3. HostsConsistent'
  BY DEF HostsConsistent, PassConsistent, TypeOK, Targets
<1>4. ListAccurate'
  BY DEF ListAccurate, PassConsistent, StaleIsOld, TypeOK, Targets
<1>5. VerdictAccurate'
  BY DEF VerdictAccurate, ListAccurate, PassConsistent, Unhealthy, TypeOK, Targets
<1>6. OneActiveAlert' /\ StaleIsOld'
  BY DEF OneActiveAlert, StaleIsOld, HostsConsistent, PassConsistent, TypeOK, Targets
<1>7. AlertsExact'
  BY DEF AlertsExact, VerdictAccurate, OneActiveAlert, HostsConsistent,
         PassConsistent, Unhealthy, TypeOK, Targets
<1> QED
  BY <1>1, <1>2, <1>3, <1>4, <1>5, <1>6, <1>7

LEMMA CheckJobPreserves ==
    ASSUME AlertInv, NEW j \in Jobs, CheckJob(j)
    PROVE  AlertInv'
<1> USE AlertingAssumption DEF AlertInv, CheckJob, Fault, world, seen
<1>1. TypeOK'
  <2>1. faults' \in 0..MaxFaults
    BY DEF TypeOK
  <2>2. pc' \in {"idle", "mark", "list", "host", "listJobs", "job", "check", "insert"}
    BY DEF TypeOK
  <2>3. cur' \in Targets \cup {None} /\ touched' \subseteq Targets /\ todo' \subseteq Targets
    BY DEF TypeOK, PassConsistent, Targets
  <2>4. bad' \in BOOLEAN
    <3>1. bad' = (fails[j] >= FailThreshold) \/ bad' = bad
      BY Zenon DEF CheckJob
    <3>2. (fails[j] >= FailThreshold) \in BOOLEAN
      OBVIOUS
    <3> QED
      BY <3>1, <3>2, Zenon DEF TypeOK
  <2>5. active' \in [Targets -> Nat]
    BY DEF TypeOK, PassConsistent
  <2> QED
    BY <2>1, <2>2, <2>3, <2>4, <2>5 DEF TypeOK
<1>2. PassConsistent'
  BY DEF PassConsistent, TypeOK, Targets
<1>3. HostsConsistent'
  BY DEF HostsConsistent, PassConsistent, TypeOK, Targets
<1>4. ListAccurate'
  BY DEF ListAccurate, PassConsistent, StaleIsOld, TypeOK, Targets
<1>5. VerdictAccurate'
  BY DEF VerdictAccurate, ListAccurate, PassConsistent, Unhealthy, TypeOK, Targets
<1>6. OneActiveAlert' /\ StaleIsOld'
  BY DEF OneActiveAlert, StaleIsOld, HostsConsistent, PassConsistent, TypeOK, Targets
<1>7. AlertsExact'
  BY DEF AlertsExact, VerdictAccurate, OneActiveAlert, HostsConsistent,
         PassConsistent, Unhealthy, TypeOK, Targets
<1> QED
  BY <1>1, <1>2, <1>3, <1>4, <1>5, <1>6, <1>7

LEMMA GetActivePreserves ==
    ASSUME AlertInv, GetActiveByTarget
    PROVE  AlertInv'
<1> USE AlertingAssumption DEF AlertInv, GetActiveByTarget, Continue, Skip, Fault, world, seen
<1>1. TypeOK'
  <2>1. faults' \in 0..MaxFaults
    <3>1. faults' = faults \/ (faults < MaxFaults /\ faults' = faults + 1)
      BY Zenon DEF GetActiveByTarget, Skip, Fault
    <3> QED
      BY <3>1 DEF TypeOK
  <2>2. pc' \in {"idle", "mark", "list", "host", "listJobs", "job", "check", "insert"}
    BY DEF TypeOK
  <2>3. cur' \in Targets \cup {None} /\ touched' \subseteq Targets /\ todo' \subseteq Targets
    BY DEF TypeOK, PassConsistent, Targets
  <2>4. bad' \in BOOLEAN
    BY DEF TypeOK
  <2>5. active' \in [Targets -> Nat]
    BY DEF TypeOK, PassConsistent
  <2> QED
    BY <2>1, <2>2, <2>3, <2>4, <2>5 DEF TypeOK
<1>2. PassConsistent'
  BY DEF PassConsistent, TypeOK, Targets
<1>3. HostsConsistent'
  BY DEF HostsConsistent, PassConsistent, TypeOK, Targets
<1>4. ListAccurate'
  BY DEF ListAccurate, PassConsistent, StaleIsOld, TypeOK, Targets
<1>5. VerdictAccurate'
  BY DEF VerdictAccurate, ListAccurate, PassConsistent, Unhealthy, TypeOK, Targets
<1>6. OneActiveAlert' /\ StaleIsOld'
  BY DEF OneActiveAlert, StaleIsOld, HostsConsistent, PassConsistent, TypeOK, Targets
<1>7. AlertsExact'
  <2>1. \A t \in Targets : Unhealthy(t)' <=> Unhealthy(t)
    BY DEF Unhealthy
  <2>2. CASE active[cur] > 0 /\ Continue /\ touched' = touched
    <3>1. cur \in Targets /\ active[cur] = 1
      BY <2>2 DEF PassConsistent, OneActiveAlert, TypeOK
    <3>2. cur \notin touched => Unhealthy(cur)
      BY <3>1 DEF VerdictAccurate
    <3> QED
      BY <2>1, <2>2, <3>1, <3>2 DEF AlertsExact
  <2>3. CASE cur' = cur /\ touched' = touched
    BY <2>1, <2>3 DEF AlertsExact
  <2>4. CASE Skip
    BY <2>1, <2>4 DEF AlertsExact
  <2> QED
    BY <2>2, <2>3, <2>4
<1> QED
  BY <1>1, <1>2, <1>3, <1>4, <1>5, <1>6, <1>7

LEMMA InsertPreserves ==
    ASSUME AlertInv, Insert
    PROVE  AlertInv'
<1> USE AlertingAssumption DEF AlertInv, Insert, Continue, Skip, Fault, world, seen
<1>1. TypeOK'
  <2>1. faults' \in 0..MaxFaults
    BY DEF TypeOK
  <2>2. pc' \in {"idle", "mark", "list", "host", "listJobs", "job", "check", "insert"}
    BY DEF TypeOK
  <2>3. cur' \in Targets \cup {None} /\ touched' \subseteq Targets /\ todo' \subseteq Targets
    BY DEF TypeOK, PassConsistent, Targets
  <2>4. bad' \in BOOLEAN
    BY DEF TypeOK
  <2>5. active' \in [Targets -> Nat]
    BY DEF TypeOK, PassConsistent
  <2> QED
    BY <2>1, <2>2, <2>3, <2>4, <2>5 DEF TypeOK
<1>2. PassConsistent'
  BY DEF PassConsistent, TypeOK, Targets
<1>3. HostsConsistent'
  BY DEF HostsConsistent, PassConsistent, TypeOK, Targets
<1>4. ListAccurate'
  BY DEF ListAccurate, PassConsistent, StaleIsOld, TypeOK, Targets
<1>5. VerdictAccurate'
  BY DEF VerdictAccurate, ListAccurate, PassConsistent, Unhealthy, TypeOK, Targets
<1>6. OneActiveAlert' /\ StaleIsOld'
  BY DEF OneActiveAlert, StaleIsOld, HostsConsistent, PassConsistent, TypeOK, Targets
<1>7. AlertsExact'
  BY DEF AlertsExact, VerdictAccurate, OneActiveAlert, HostsConsistent,
         PassConsistent, Unhealthy, TypeOK, Targets
<1> QED
  BY <1>1, <1>2, <1>3, <1>4, <1>5, <1>6, <1>7

LEMMA ResolvePreserves ==
    ASSUME AlertInv, Resolve
    PROVE  AlertInv'
<1> USE AlertingAssumption DEF AlertInv, Resolve, Continue, Skip, Fault, world, seen
<1>1. TypeOK'
  <2>1. faults' \in 0..MaxFaults
    BY DEF TypeOK
  <2>2. pc' \in {"idle", "mark", "list", "host", "listJobs", "job", "check", "insert"}
    BY DEF TypeOK
  <2>3. cur' \in Targets \cup {None} /\ touched' \subseteq Targets /\ todo' \subseteq Targets
    BY DEF TypeOK, PassConsistent, Targets
  <2>4. bad' \in BOOLEAN
    BY DEF TypeOK
  <2>5. active' \in [Targets -> Nat]
    BY DEF TypeOK, PassConsistent
  <2> QED
    BY <2>1, <2>2, <2>3, <2>4, <2>5 DEF TypeOK
<1>2. PassConsistent'
  BY DEF PassConsistent, TypeOK, Targets
<1>3. HostsConsistent'
  BY DEF HostsConsistent, PassConsistent, TypeOK, Targets
<1>4. ListAccurate'
  BY DEF ListAccurate, PassConsistent, StaleIsOld, TypeOK, Targets
<1>5. VerdictAccurate'
  BY DEF VerdictAccurate, ListAccurate, PassConsistent, Unhealthy, TypeOK, Targets
<1>6. OneActiveAlert' /\ StaleIsOld'
  BY DEF OneActiveAlert, StaleIsOld, HostsConsistent, PassConsistent, TypeOK, Targets
<1>7. AlertsExact'
  BY DEF AlertsExact, VerdictAccurate, OneActiveAlert, HostsConsistent,
         PassConsistent, Unhealthy, TypeOK, Targets
<1> QED
  BY <1>1, <1>2, <1>3, <1>4, <1>5, <1>6, <1>7

LEMMA RestartPreserves ==
    ASSUME AlertInv, Restart
    PROVE  AlertInv'
<1> USE AlertingAssumption DEF AlertInv, Restart, Fault, world
<1>1. TypeOK'
  <2>1. faults' \in 0..MaxFaults
    BY DEF TypeOK
  <2>2. pc' \in {"idle", "mark", "list", "host", "listJobs", "job", "check", "insert"}
    BY DEF TypeOK
  <2>3. cur' \in Targets \cup {None} /\ touched' \subseteq Targets /\ todo' \subseteq Targets
    BY DEF TypeOK, PassConsistent, Targets
  <2>4. bad' \in BOOLEAN
    BY DEF TypeOK
  <2>5. active' \in [Targets -> Nat]
    BY DEF TypeOK, PassConsistent
  <2> QED
    BY <2>1, <2>2, <2>3, <2>4, <2>5 DEF TypeOK
<1>2. PassConsistent'
  BY DEF PassConsistent, TypeOK, Targets
<1>3. HostsConsistent'
  BY DEF HostsConsistent, PassConsistent, TypeOK, Targets
<1>4. ListAccurate'
  BY DEF ListAccurate, PassConsistent, StaleIsOld, TypeOK, Targets
<1>5. VerdictAccurate'
  BY DEF VerdictAccurate, ListAccurate, PassConsistent, Unhealthy, TypeOK, Targets
<1>6. OneActiveAlert' /\ StaleIsOld'
  BY DEF OneActiveAlert, StaleIsOld, HostsConsistent, PassConsistent, TypeOK, Targets
<1>7. AlertsExact'
  BY DEF AlertsExact, VerdictAccurate, OneActiveAlert, HostsConsistent,
         PassConsistent, Unhealthy, TypeOK, Targets
<1> QED
  BY <1>1, <1>2, <1>3, <1>4, <1>5, <1>6, <1>7

LEMMA StepPreserves ==
    ASSUME AlertInv, [Next]_vars
    PROVE  AlertInv'
<1>1. ASSUME Evaluate
      PROVE  AlertInv'
  BY <1>1, StartPassPreserves, MarkStalePreserves, ListHostsPreserves,
     CheckHostPreserves, DonePreserves, ListJobsPreserves, CheckJobPreserves,
     GetActivePreserves, InsertPreserves, ResolvePreserves DEF Evaluate
<1>2. ASSUME UNCHANGED vars
      PROVE  AlertInv'
  BY <1>2 DEF vars, world, seen, AlertInv, TypeOK, PassConsistent,
     HostsConsistent, ListAccurate, VerdictAccurate, OneActiveAlert,
     StaleIsOld, AlertsExact, Unhealthy
<1> QED
  BY <1>1, <1>2, RegisterPreserves, HeartbeatPreserves, TickPreserves,
     FailingRowPreserves, ExpirePreserves, RestartPreserves DEF Next

\* The inductive invariant holds in every reachable state.
THEOREM AlertInvariant == Spec => []AlertInv
<1>1. Init => AlertInv
  BY InitEstablishes
<1>2. AlertInv /\ [Next]_vars => AlertInv'
  BY StepPreserves
<1> QED
  BY <1>1, <1>2, PTL DEF Spec

\* Hosts, alerts and the evaluator's pass keep their types for any number of
\* hosts.
THEOREM TypeTheorem == Spec => []TypeOK
<1>1. AlertInv => TypeOK
  BY DEF AlertInv
<1> QED
  BY <1>1, AlertInvariant, PTL

\* No interleaving of passes, failures and restarts gives a target two active
\* alerts.
THEOREM OneActiveAlertTheorem == Spec => []OneActiveAlert
<1>1. AlertInv => OneActiveAlert
  BY DEF AlertInv
<1> QED
  BY <1>1, AlertInvariant, PTL

\* A stale status is never newer than a heartbeat that contradicts it.
THEOREM StaleIsOldTheorem == Spec => []StaleIsOld
<1>1. AlertInv => StaleIsOld
  BY DEF AlertInv
<1> QED
  BY <1>1, AlertInvariant, PTL

\* Alerts are exact for every target whose condition did not change after the
\* evaluator last looked at it.
THEOREM AlertsExactTheorem == Spec => []AlertsExact
<1>1. AlertInv => AlertsExact
  BY DEF AlertInv
<1> QED
  BY <1>1, AlertInvariant, PTL
=============================================================================
