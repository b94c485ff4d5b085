# TLA+ models of the cron observability platform

The repository is a monitoring platform for cron jobs. Agents (Go, one per host)
discover cron jobs, watch their executions, buffer what they see in a bbolt file
and push it over HTTP to a server (Go, chi, Postgres). The server keeps jobs,
executions, host and job states, evaluates alert rules every minute, and queues
run commands that an operator asks for in a React dashboard; agents poll for
them.

This directory holds the specifications of the parts with state, concurrency and
failure, the TLC configurations that check them on small instances, and TLAPS
proofs of the properties that matter most.

## 1. Inventory

| component | state | operations | neighbours | what is hard | what makes it correct |
|---|---|---|---|---|---|
| agent buffer and reporter (`reporter.go`, `store.go`) | bbolt buckets of pending events, keyed by random UUID | `BufferExecution`, `FlushExecutions`, `DeleteExecution` (and the same for metrics) | main loop, command goroutines, HTTP client | flushes overlap; timeouts; crash between answer and delete | nothing leaves the buffer unanswered; bounded duplication; it drains |
| agent main loop (`app.go`) | known jobs, active executions, PIDs, mail offset | six tickers, one select loop; `go executeRunCommand` per command | everything on the agent | goroutines share the store and the client with the loop | each command runs once, its outcome is buffered before it is reported |
| agent HTTP client (`client.go`) | none | POST and GET with a 30 s timeout, no retries | server API | an answer can be lost after the server acted | callers treat an error as "unknown" |
| execution ingestion (`service/execution.go`, `repository/execution.go`, `repository/job.go`) | tables `executions`, `current_job_states` | `BatchReport`, `updateJobState` | agents, evaluator, dashboard | several autocommit statements per event; concurrent handlers | no event is dropped silently; job state follows the rows |
| command queue (`service/command.go`, `repository/command.go`) | table `agent_commands` | `EnqueueRuns`, `ClaimPending`, `Complete` | dashboard, agents | overlapping claims, lost answers, partial enqueue | at most one execution; truthful status; request order |
| discovery (`cron.go`, `service/discovery.go`) | table `jobs` | scan crontabs, upsert by host and command hash | ingestion (links events to jobs) | events can arrive before their job | a command line has one job |
| process observation (`observer/process.go`, `app.go:176-271`) | map PID -> active execution | scan, match, infer start and end | buffer | PID reuse, restart, two scans between start and end | every start has its end, its entry or a restart; an end is true |
| mail observation (`observer/mailspool.go`, `app.go:378-441`) | offset in the meta bucket | read new bytes, split into messages | buffer | partial message at the end, deleted messages, crash after the offset is saved | a passed message is reported, or was cut, skipped or lost in a known way; how often it can be repeated |
| probes and metrics | bucket of pending metrics, table `metrics` | run probes, flush | buffer | as for executions | as for executions |
| enrollment and credentials (`service/agent.go`, `enrollment_token.go`, `credential.go`, agent `init`) | tables `enrollment_tokens`, `hosts`, `agent_credentials`; credential file, config file, `host_id` | create token, enroll, register, validate | every authenticated request | check-then-act on tokens; crash between the files of `init` | a token admits one host; an installed agent is accepted |
| host health and alerting (`evaluator.go`, `alert.go`, `host.go`) | `hosts.status`, `last_heartbeat_at`, table `alerts` | heartbeat, `MarkStaleHosts`, fire, resolve | agents, ingestion, dashboard | a pass works on a snapshot while heartbeats arrive | one active alert per target and rule; alerts follow the condition |
| dashboard sessions (`api/auth.go`) | sessions, failure counters, lockouts in memory | login, logout, middleware, clean-up loop | dashboard | lock dropped between check and update; expiry | a lockout lasts; few extra attempts slip through; entries go away |
| daemon control (agent `daemon start/stop/status`) | PID file, detached process | start, stop, status | operator | stale PID, two starts at once | every background agent can be stopped; stop hits no stranger |
| statistics (`stats.go`) | none | SQL aggregates, recovery statistics | dashboard | empty windows, division, pairing of failure and recovery | agree with their definition |
| dashboard, seed, migrations, configuration, infra | none of their own | | | | not modelled |

The hazards, each at its line, are in `PROJECT.json`.

## 2. Modules

* `Outbox` - abstract: an event leaves the buffer only after the server stored it
  or answered for it.
* `Delivery` - the execution path, agent and server. Goroutines of the agent
  (`pc`, `held` are their program counter and the local variable `pending` of
  `FlushExecutions`), the bbolt bucket (`pending`, `payload`), requests at the
  server (`at`, `batch`, `todo`, `failed`, `count`: where `BatchReport` is in its
  loop) and the tables (`rows`, `jobs`, `jobState`). Each database call is an
  action of its own, because each is an autocommit statement. `refused` and
  `born` are history.
* `DeliveryProofs` - theorems about `Delivery`.
* `CommandLifecycle` - abstract: queued, dispatched once, executed once, settled
  with the outcome.
* `RunCommands` - trigger requests, the rows of `agent_commands`, claims in flight
  with their row locks (`picked` while `at` is `"locked"`), and the goroutine of
  each command on the agent. An insert is two steps: `InsertBegins` stamps
  `requested_at` (`DEFAULT NOW()` is the time the statement begins) and
  `InsertCommits` makes the row visible; `inserting` holds the row between them.
  `lost` and `passed` are history: the commands whose answer, goroutine or report
  was lost, and those a claim passed over because they were not committed or were
  locked by another claim.
* `RunCommandsProofs` - theorems about `RunCommands`.
* `Alerting` - hosts with their heartbeat, jobs with the number of failing rows in
  the last 24 hours, and the evaluator as one process: `pc` is where `RunAll` is,
  `todo` what its loop has not reached, `seenStatus` and `seenAge` the list of hosts
  it works on, `cur` and `bad` the target at hand and the verdict on it. Every
  statement is an action. `touched` is history: the targets whose condition changed,
  or whose statement failed, since the evaluator last looked.
* `AlertingProofs` - theorems about `Alerting`.
* `Enrollment` - the token table, the enroll handler of each attempt (`at`), and
  the `init` of each attempt (`phase`) on its machine (`by`), and every machine with the
  exit of its last `init` (`ended`), its three files (`credFile`, `cfgFile`, `hostMeta`)
  and its agent (`running`, which holds the lock of the state file). Any number of `init`s
  may run on a machine at once, and an operator may type in a token that is made, used,
  expired, static or none of these (`Unknown`). An attempt is one run of `init` and also stands for the
  credential made for it and, on a machine without `/etc/machine-id`, for the host.
  `late`, `orphans` and `mixed` are history: requests sent with a token that was not valid,
  attempts whose credential never reached a file, and `init`s that ran while another one
  ran on the machine.
* `EnrollmentProofs` - theorems about `Enrollment`.
* `CronScan`, `ProcessScan`, `MailSpool` - the three observers of the agent with the
  part of the host each one watches: crontab lines and `knownJobs` with the jobs the
  server gets; processes, `activeJobs` (`activeRun`, `activeHash`, one function per
  field) and the starts and ends that were buffered; the spool as a sequence of pieces
  of messages, the saved offsets and the events made of messages.
* `Observation` - composes them as the main loop does: one goroutine, `pc` is the
  handler it is in, the world changes between any two steps of a handler, and `Crash`
  takes the agent down anywhere. `slack`, `misread`, `unswept`, `reused`, `excused`,
  `stale`, `orphans`, `rereads` and `disturbed` are history.
* `ObservationProofs` - theorems about the process scans, the mail reader, the crontab
  parser and the job rows of `Observation`.
* `AuthManager` - logins, lockouts, sessions and the clean-up loop. `Login` holds
  `attemptsMu` twice and is two steps with a third for the session; the clean-up loop
  is a tick, a pass over the sessions and a pass over the attempts with the time it
  read at the tick.
* `AuthManagerProofs` - theorems about `AuthManager`.
* `Daemon` - `run --daemon` and `daemon stop` as processes that read, signal, write
  and remove one after the other, agents that open the state file or run, and other
  processes, of the same or of another user, that get their PIDs. `mixed`, `disturbed`,
  `stale` and `hit` are history; `mixed` are the agents whose own start met another command
  or broke off before it wrote the PID.
* `DaemonProofs` - theorems about `Daemon`.
* `Statistics` - the query and the loop of `GetJobRecoveryStats` and the counts of
  `GetWindowStats` as operators over a history of statuses, with what they promise.
* `StatisticsProofs` - these promises for every history.
* `MC...` - instances for TLC that need symmetry, a view or structured constants.
  `MCDelivery` also evaluates the promises of `Statistics` on all histories of up to
  five rows, as assumptions.

Operators under a comment that begins with `Mutant:` (`GiveUp_Deletes`, `StartWriteSelf`)
are the definition next to them with a plausible bug. They are used by no
specification; substituting one must make TLC report the property it is listed
with in `PROJECT.json`.

### Abstractions

Payloads are reduced to job and status, the parts the server acts on. UUIDs are
numbers whose order is the key order; a new event takes any unused one. `Inferred` is
the set of statuses the scans report in an instance (`running`, `partial`). The 24
hour window of `CountRecentFailures` does not close during a behaviour. Failures
are actions guarded by `Fault(kind)`, which counts them against `MaxFaults`;
`FaultKinds` chooses which ones a run allows: `timeout` (client timeout, broken
connection, status of 400 or more, lost answer), `crash` (the agent dies and is
restarted), `store` (bbolt error), `insert`, `lookup`, `update`, `database`
(failed statement), `state` (the second statement of a heartbeat). In `Alerting`
time is an age per host in ticks, not told apart beyond the threshold, the order
of the two loops is left open, and a target stands for a target with its one rule:
hosts and jobs have different rules. `file` (a file cannot be
opened, or is truncated and not written). A failed statement has no effect. In
`Enrollment` the host row is its id, `current_host_states` is left to `Alerting`,
and the branch of `Consume` for a token that vanished after `Found` saw it is left
out, because nothing deletes tokens. A handler whose client is
gone may stop anywhere or go on. When two `init`s write a file of one machine at the same
time, the contents have the same length and the last one stands.

In `AuthManager` times are ages that stop growing where no comparison can tell them
apart, the zero `lockedAt` has the greatest age, and a pass of the clean-up loop lasts
at most `MaxLag` ticks. Credentials are right or wrong by choice.

In `Observation` a job line is its command as written, its schedule and the time zone
above it; `NormOf` and `ExeOf` stand for `normalizeCommand` and the executable
`matchesCommand` looks for, and several commands may share one. A process scan reads all
processes at once, except those it leaves out because they ended or could not be read
(`misread`). A message is a number of pieces: its From line, its headers with the cron
subject, its body; a read may end after any of them. Offsets are per path. A mail reader deletes any
neighbouring whole messages in one rewrite of the file, while no message is being
written. A file that cannot be read (`CannotRead` for the spool), an offset that cannot be
looked up (it is taken for 0) or saved, an upload that fails and a write the store refuses
are choices of the action; they and all events of the host count against `MaxWorld`, and
`Failing` says whether an instance has such failures at all. The events end in the
buffer, whose further way is `Delivery`.

In `Daemon` writing the PID file is one step: a reader that meets the truncated file
behaves as one that meets none. The child's lock of the state file is bbolt's. The commands
and the agents are of one user: `kill(pid, 0)` fails for a process of another user, and
`daemonRunning` takes any such error for "not running" (`main.go:502-503`).

In `Statistics` positions stand for `created_at`. Two rows of a job in the same
microsecond are left out: the two `ROW_NUMBER`s could then order them differently, and an
episode would fall apart. The query takes running rows along, which the other statistics
leave out, so an execution that starts between two failures separates their episodes;
`FailingUntilSuccess` shows that the verdict on the job does not depend on it.

## 3. Runs

| run | specification | properties | shows |
|---|---|---|---|
| `delivery` | `FairSpec`, two events, main loop and one goroutine, two requests, one failure of any kind | `TypeOK`, `NoSilentLoss`, `BoundedDuplication`, `FailCountBounded`, `Outbox`, `EventuallyDrained` | overlap, retry and crash lose nothing unanswered, duplicate boundedly and let the buffer drain |
| `delivery_consecutive` (violation) | `Spec`, two events of one goroutine, one request at a time, no failure | `ConsecutiveFailures` | a failure and then a success leave `consecutive_fail` at 1 |
| `delivery_lost` (violation) | one failed insert | `NothingLost` | a rejected row is answered 200 and its event deleted |
| `delivery_latest` (violation) | no failure at all | `LatestState` | events of one batch are applied in key order |
| `commands` | `FairSpec`, two triggers (one of them partly invalid), two claims in flight, limit 1, one failure | `TypeOK`, `ExecutedAtMostOnce`, `FinalStatusTruthful`, `RequestOrder`, `NeverStranded`, `Lifecycle`, `EventuallySettled` | no command runs twice or out of order, and exactly the lost ones hang |
| `alerting` | `FairSpec`, two hosts, one job, threshold one tick, one failure | `TypeOK`, `OneActiveAlert`, `StaleIsOld`, `AlertsExact`, `AlertRaised`, `AlertCleared` | alerts are exact, single, and follow the condition |
| `enrollment` | `Spec`, two machines (one without machine id), three runs of `init`, also at once on one machine, one token, the static one and an unknown one, two failures | `TypeOK`, `AdmissionSound`, `InstalledAccepted`, `TokenNotBurned` | only valid tokens admit; what `init` leaves on disk is accepted, or its credential was replaced by an interrupted or overlapping `init` |
| `enrollment_twice` (violation) | two machines, one token, no failure | `SingleUse` | two overlapping requests are admitted on one token |
| `auth` | `FairSpec`, two logins at a time, two addresses, one token, limit 2, lockout 2 ticks, session 1 tick, clean-up pass up to 1 tick | `TypeOK`, `OvershootBounded`, `LockHolds`, `AttemptsEvicted`, `SessionsEvicted` | the gap between check and count lets at most one extra attempt per overlapping login pass; nothing ends a lockout early; no entry stays for ever |
| `observation` | `FairSpec`, three crontabs of two files, two processes and one PID, a cron mail and another one, four events of the host or failures | `TypeOK`, `StartsAccounted`, `EndMeansGone`, `TrackedUnlessReused`, `MailAccounted`, `MailAttributed`, `ObservedReported`, `JobsReachServer` | what the agent reports is true and accounted for, and complete once the host is quiet |
| `mail_once` (violation) | `Spec`, two mails, three events of the host, no failure | `MailReportedOnce` | two mails are read, one is deleted, and the other one is reported again |
| `daemon` | `Spec`, two commands at a time, four in all, three PIDs, two other processes of either user | `TypeOK`, `Controllable`, `StopHitsAgent` | an agent whose own start met no other command stays under control, whatever other starts and stops do; a stranger is hit only through a reused PID |

Bounds. Two events are enough for a batch with an order, for an event that
arrives between a snapshot and its deletion, and for a batch that is partly
refused. Two requests give every overlap of two flushes; a third only repeats
one. One failure is enough for every recovery path, and the proofs remove all
of these bounds for the properties they cover. For commands, limit 1 with two
commands makes claims compete and makes the order visible; a poll that timed out
leaves its claim running next to the next poll of the same host, and a trigger whose
insert has not committed is passed over by both. `delivery` uses one status of the scans
(`partial`), since the server treats `running` alike, and a view without the order of
birth, which only `LatestState` and `ConsecutiveFailures` read.

For alerting, two hosts let a heartbeat reach a host that is
listed, at hand or already passed; three failing rows are the rule's threshold.
For enrollment, three runs of `init` let a machine repeat an interrupted one while
another machine competes for the token, or overlap it on the same machine, and a second
failure can hit the repetition.
For logins, two at a time make the check of one fall before and after every step of the
other, and two addresses show that one does not disturb the other. For observation, one
PID makes two processes reuse it, and four events are enough for a start, an end, a reuse
and a restart, and for a spool that gets shorter and grows to the old offset again; the two
mails differ in length and can be deleted one without the other. Three PIDs
let an agent, the agent of an overlapping start and a stranger exist at once.

Deadlock is checked for `Alerting`, `AuthManager`, `Observation` and `Daemon`. It is
not checked elsewhere: when all
events are delivered, all commands settled or all runs of `init` used up, the
models have nothing left to do, as the system waits for input.

Fairness. `delivery`: the report tick recurs (weak fairness of the main
loop's flush), goroutines that can run do run, and a handler finishes or is
abandoned. Workers, discoveries and failures need not happen. `commands`: the poll
of a host is strongly fair, because the number of claims in flight is a bound of
the model and the server always accepts another; goroutines proceed and shell
commands terminate (`executeRunCommand` uses a context without a deadline, so a
shell command that never ends leaves its command dispatched).

`alerting`: time passes and the evaluator's
goroutine runs; heartbeats, failing rows and failures need not happen.
`AlertCleared` excludes passes so slow that a heartbeat of their list reaches the
threshold on the way: such a pass does fire a false alert, which the next one
resolves (`AlertsExact` and `Well` say where).

`auth`: a request that began is finished, the clean-up ticker fires, time passes; nobody
has to log in or use a session. `observation`: the agent is started again after it went
down (a service manager restarts it), a handler that began goes on, and the select of the
main loop serves every ticker again and again, which is strong fairness of each turn of
`pc`, as the loop is only now and then idle. Edits, processes, mail and failures need not
happen; their number is bounded, so in the end the host is quiet and reads succeed.

Five runs record disagreements between code and documentation, with the quoted lines under
`findings` in `PROJECT.json`:

* `delivery_lost`: a rejected insert is answered 200 and its event deleted.
* `delivery_latest`: events of a batch are applied in the order of random keys.
* `delivery_consecutive`: the "consecutive failure count" is the number of all failing rows
  of the window; a success does not reset it. `FailsOfWindowTheorem` says what it is.
* `enrollment_twice`: a "single-use" token admits two overlapping requests.
* `mail_once`: `MessageHash` is there "for dedup" and is never used; a spool that got shorter
  is read from its start and its messages are reported again.

A sixth one shows in the code without a run: the rule that "fires when a host hasn't sent a
heartbeat in 5 minutes" (`evaluator.go:16`) never fires for a host that enrolled and has not
sent any. Its status is `unknown` and its `last_heartbeat_at` NULL, which neither
`MarkStaleHosts` (`repository/host.go:107`) nor `isStale` (`evaluator.go:67-68`) takes for
silent. `Alerting` follows the code: such a host has no age, and `AlertsExact` holds of it
without an alert.

## 4. Proofs

TLAPS proves for every number of events, goroutines, requests, commands, polls,
hosts, jobs and failures, from the assumptions on the constants in the modules
(`DeliveryAssumption`, `RunCommandsAssumption`, `AlertingAssumption`,
`EnrollmentAssumption`, `AuthAssumption`, `DaemonAssumption`, `ProcessAssumption`,
`MailAssumption`, `CronAssumption`, `ObservationAssumption`) only. Among
them: the agent has finitely many goroutines, a message has a From line, headers and a
body, and crontabs are finite sequences of files and lines of the five kinds that the
parser tells apart.

* `TypeCorrect`, `NoSilentLossTheorem`, `FailCountTheorem`, `OutboxRefinement`
  (`DeliveryProofs`). `NoSilentLoss` alone is not inductive: that a goroutine may
  delete what it holds depends on the answer it got, which depends on how far
  the handler of that very request came. `DeliveryInv` says so: the owner of a
  request waits with exactly the request's batch (`RequestsConsistent`), what a
  request is done with has a row or is in its failed set, a reply publishes the
  failed set, and a deleting goroutine holds only covered events
  (`DeletesCovered`). `FailCountTheorem` adds that a count a handler still holds
  is not above the current one (`CountsConsistent`), which needs that rows are
  only ever added and stay finite.
* `FailsOfWindowTheorem`, from `SerialInv`: while nothing has failed and there is one
  request at a time, the state of a job has the number of all its failing rows in the
  window, apart from the job of the event that is being ingested, and a count about to be
  written is exact.
* `BoundedDuplicationTheorem`, from `DuplicationInv`. The rows of an event are bounded by
  an amount that moves: every goroutine has a turn to send the event (`CanSend`), sending
  hands the turn to the request (`InFlight`), inserting hands it to the row, and only a
  failure, which raises the bound by the number of goroutines, gives turns back. The sum of
  the three never exceeds goroutines times one plus failures.
* `AtMostOnceTheorem`, `TruthfulTheorem`, `LifecycleRefinement`
  (`RunCommandsProofs`), from `RunInv`: claims hold disjoint rows, locked rows
  are pending, rows of an answer are dispatched and not started
  (`ClaimsConsistent`), and the place of a goroutine determines row status,
  number of executions and outcome (`RunsConsistent`). `NeverStrandedTheorem` is
  inductive next to `RunInv`. `RequestOrderTheorem` needs `OrderInv`, which holds under every
  failure and overlap: no row has a time ahead of the clock, so a new one is the latest
  (`Stamped`), a row that is not committed is in one insert only (`InsertsConsistent`), and
  what is handed out or locked is older than what waits, committed or not, unless the
  waiting row was passed over or is locked by the same claim (`OlderFirst`). A claim that
  takes rows next to locked or uncommitted ones puts those into `passed`, and a claim that is
  rolled back gives its rows back together, so both preserve it.
* `OneActiveAlertTheorem`, `StaleIsOldTheorem`, `AlertsExactTheorem`
  (`AlertingProofs`), from `AlertInv`: what the evaluator inserts depends on a
  verdict it reached on a list it read earlier, so the invariant says that the
  list agrees with the rows for hosts that are not touched (`ListAccurate`), that
  the verdict agrees with the condition (`VerdictAccurate`), that nothing is active
  when it is about to insert (`PassConsistent`) and that hosts without a row have
  neither heartbeat nor alert (`HostsConsistent`).
* `AdmissionSoundTheorem`, `InstalledAcceptedTheorem`, `TokenNotBurnedTheorem`
  (`EnrollmentProofs`), from `EnrollInv`: the client of a handler waits or is an
  orphan (`RequestsConsistent`), the place of an `init` determines how far its handler
  and its files are, and `init`s of one machine that run at once are all in `mixed`
  (`InitConsistent`), and the credential the server knows for a host is on its way to an
  `init` that still runs, in the file, or of an interrupted or overlapping `init`
  (`CredentialsConsistent`) - the last one is what makes `InstalledAccepted` inductive,
  since it has to hold while an `init` is under way too. `HostIdConsistent` says whose id the
  state file of a machine without machine id has.
* `TypeTheorem` of `RunCommandsProofs`, `AlertingProofs` and `EnrollmentProofs`.
* `TypeCorrect`, `OvershootIsBounded`, `LockIsHeld` (`AuthManagerProofs`). The bound
  counts the logins that have passed the check and are still to be counted, which makes
  it inductive; `LockHolds` needs in addition that an address below the limit has the
  zero `lockedAt` (`LockedAtSet`), so that the clean-up loop cannot take a running
  lockout for an old one.
* `TypeCorrect`, `StaysControllable`, `StopIsSafe` (`DaemonProofs`). `StaysControllable`
  speaks of the agents in `Kept`: started in the background, not signalled, and not in
  `mixed`. It holds while other starts and stops overlap and break off, because a command
  that looks at the PID file between the spawn and the write of another start puts that
  start's child into `mixed`: so when a start makes its child, or a stop has sent its signal,
  nothing is left in `Kept` (`NoneLeft`), and a start that is about to write a PID, or a stop
  that has read one, has that of the only agent in `Kept` (`OnlyChild`). `StopIsSafe` needs
  that commands run one at a time until they are seen to overlap (`OneCommand`), so that
  the file still has the PID stop has read when it signals (`StillNamed`, `StaleSeen`).
* `IslandsAreStreaks`, `LatestIsStreak`, `CurrentlyFailingExact`, `WindowColumnsAddUp`
  (`StatisticsProofs`): the difference of the two row numbers of a failure is the number
  of rows before it that are none (`IslandCountsGood`), so two failures share it exactly
  when there is none between them (`SameIsland`); the latest episode is the one with the
  last failure (`LatestHasLast`).
* `ScanInvariant`, `StartsAccountedTheorem`, `EndMeansGoneTheorem`, `TrackedTheorem`
  (`ObservationProofs`), from `ScanInv`. An end is reported for an entry whose PID the
  scan did not match, so `EndMeansGone` rests on an entry having the PID of its process
  and a job that `knownJobs` still has (`EntriesOK`, and `TodoOK` for the entries a scan
  has still to make): nothing is ever removed from `knownJobs`, so a process that is alive
  and readable is matched again (`GoneOK`). `TrackedUnlessReused` needs in addition that
  the PID of an entry, or one the last scan has matched, is in use or was since that scan
  (`Fresh`, `CurrentOK`), so that another process can have it only as a reused PID
  (`SpawnOK`).

* `TypeCorrect`, `MailAccountedTheorem` (`ObservationProofs`), from `MailInv`: what was
  written of a message is in the spool as a whole or was deleted as a whole (`SpoolOK`;
  `DeleteMoves` says where a deletion moves the pieces it keeps), an offset of the present file lies within it (`OffsetsOK`), a message that such an offset
  divides was cut by a read and is excused (`CutOK`), and one that it has passed is reported,
  pending or excused (`PassedOK`). How often a message is reported needs a count as above: a
  message is ahead of the offset, pending or reported, and only a read that was not from the
  offset (a shorter file, an offset that could not be looked up) or that could not save the
  new one puts it ahead again (`OnceOK`), which `rereads` counts for each path.
* `KnownJobsExact`. `parseCrontab` is a fold and `Scan` concatenates, so this is an
  induction over lines and over files. `SetInduction` provides it by a least
  counterexample; with it the recursive functions inside the library's `FoldLeft` and
  `FlattenSeq` are shown to exist (`ParseExists`, `FlatExists`) and to satisfy their
  equations (`ParseSteps`, `FlatSteps`). Then the parser finds the job lines of a file in
  their order, each with the time zone set above it (`ParserFindsJobs`), the scan finds
  those of all files in their order (`ScanFindsJobs`), and the last one of a hash is the one
  `Expected` asks for (`LastJobWins`). While the crontabs stay and can be read, `knownJobs`
  is what the first discovery found (`KnownOK`).
* `MailAttributedTheorem`, from `KnownJobsExact`: a mail is handled only after the first
  discovery of each start, and that discovery has missed no job line.
* `RowsComeFromLines`, `SubmissionRepairs`: what stands on the server. A row that
  `ProcessDiscovery` could not write lets an earlier line of the same command win, so the
  rows are not always those of the last lines; but while the crontabs stay and can be read,
  every row is what some line of its command says. `SubmissionRepairs` is about crontabs that
  are edited at any time, in three steps: a discovery that reads every file has the jobs of
  the crontabs as they are then; nothing changes what it submits while it waits; and a
  submission of the jobs of the present crontabs without a failure makes the rows of all
  their commands exact, whatever edits, unreadable files and failures left there. Together
  with the recurring discovery this is why `JobsReachServer` holds.

Only model-checked: liveness (`EventuallyDrained`, `EventuallySettled`,
`AlertRaised`, `AlertCleared`, `AttemptsEvicted`, `SessionsEvicted`, `ObservedReported`,
`JobsReachServer`), which needs fairness and `ENABLED`. Every invariant and every safety
action property of a passing run is a theorem. The inductive invariants were checked with
TLC on the instances of the runs (`MailInv` with two paths and no processes) before they
were proved.

## 5. Plan

1. The metric path as a second instance of the outbox.

## 6. Not modelled

* Probes and metrics: probes run external programs and read files; the buffer, the flush
  and the upload of metrics have the shape of the execution path without job state, so
  `Delivery` already asks the questions.
* Trend, job and host statistics: plain counts in groups; rates and averages are floating
  point. Read-only endpoints change nothing.
* `observer/journal.go` is never called.
* Web dashboard, seed program, migrations, configuration parsing and infrastructure files
  keep no state of their own.
* `daemon status` and the local `status` command only read.
