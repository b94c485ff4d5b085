----------------------------- MODULE ProcessScan -----------------------------
(***************************************************************************)
(* The processes of the host and what runProcessScan makes of them.        *)
(*                                                                         *)
(* A scan takes a snapshot of the processes, matches each to a known job   *)
(* by the executable, reports a start for every matched PID that has no    *)
(* entry in activeJobs, and then an end for every entry whose PID was not  *)
(* matched.  An entry is looked up by its PID alone.                       *)
(***************************************************************************)
EXTENDS CronScan

CONSTANTS Runs,        \* processes that cron can start, each once
          Pids,
          ExeOf        \* executable of the command with a given hash

ASSUME ProcessAssumption ==
    None \notin Runs /\ None \notin Pids /\ None \notin Hashes

Exes == {ExeOf[h] : h \in Hashes}

VARIABLES proc,        \* whether a process is "new", "alive" or "dead"
          pidOf,       \* its PID
          exe,         \* its executable
          activeRun,   \* activeJobs[pid]: the process whose start time it has
          activeHash,  \* activeJobs[pid].JobHash
          todo,        \* matches of the scan whose start is not reported yet
          current,     \* PIDs the scan has matched
          started,     \* start events buffered for a process under a hash
          ended,       \* end events
          slack,       \* history: starts forgotten in a restart or ends not
                       \* stored, less starts not stored
          misread,     \* history: processes a scan could not read
          unswept,     \* history: processes that ended since the last scan
          reused       \* history: processes with the PID of an unswept one

procVars == <<proc, pidOf, exe, activeRun, activeHash, todo, current, started,
              ended, slack, misread, unswept, reused>>
Keys     == Runs \X Hashes

ProcInit ==
    /\ proc = [r \in Runs |-> "new"]
    /\ pidOf = [r \in Runs |-> None]
    /\ exe = [r \in Runs |-> None]
    /\ activeRun = [q \in Pids |-> None]
    /\ activeHash = [q \in Pids |-> None]
    /\ todo = {}
    /\ current = {}
    /\ started = [k \in Keys |-> 0]
    /\ ended = [k \in Keys |-> 0]
    /\ slack = [k \in Keys |-> 0]
    /\ misread = {}
    /\ unswept = {}
    /\ reused = {}

-----------------------------------------------------------------------------
Spawn(r, q, e) ==
    /\ proc[r] = "new"
    /\ \A x \in Runs : proc[x] = "alive" => pidOf[x] # q
    /\ proc' = [proc EXCEPT ![r] = "alive"]
    /\ pidOf' = [pidOf EXCEPT ![r] = q]
    /\ exe' = [exe EXCEPT ![r] = e]
    /\ reused' = IF \E x \in unswept : pidOf[x] = q
                 THEN reused \cup {r} ELSE reused
    /\ UNCHANGED <<activeRun, activeHash, todo, current, started, ended, slack,
                   misread, unswept>>

Exit(r) ==
    /\ proc[r] = "alive"
    /\ proc' = [proc EXCEPT ![r] = "dead"]
    /\ unswept' = unswept \cup {r}
    /\ UNCHANGED <<pidOf, exe, activeRun, activeHash, todo, current, started,
                   ended, slack, misread, reused>>

-----------------------------------------------------------------------------
\* The known jobs whose executable occurs in the command line of the process.
matchesCommand(r) == {h \in Known : ExeOf[h] = exe[r]}

\* Mutant: a process that matches nothing is kept, with no hash.
MatchJobsAny(read) == [read -> Known \cup {None}]

\* The processes that are read, each with one of its jobs: the order of the
\* map decides which.
MatchJobs(read) ==
    {f \in [{r \in read : matchesCommand(r) # {}} -> Known] :
        \A r \in DOMAIN f : f[r] \in matchesCommand(r)}

Alive == {r \in Runs : proc[r] = "alive"}

\* A process that ends, or whose command line cannot be read, is left out.
Snapshot(unread) ==
    \E f \in MatchJobs(Alive \ unread) :
        /\ todo' = {<<r, f[r]>> :
                      r \in {x \in DOMAIN f : activeRun[pidOf[x]] = None}}
        /\ current' = {pidOf[r] : r \in DOMAIN f}
        /\ misread' = misread \cup unread
        /\ unswept' = {}
        /\ UNCHANGED <<proc, pidOf, exe, activeRun, activeHash, started, ended,
                       slack, reused>>

Count(f, k, n) == [f EXCEPT ![k] = @ + n]

\* The entry is made first; the event is lost when it cannot be stored.
ReportStart(m, stored) ==
    /\ m \in todo
    /\ todo' = todo \ {m}
    /\ activeRun' = [activeRun EXCEPT ![pidOf[m[1]]] = m[1]]
    /\ activeHash' = [activeHash EXCEPT ![pidOf[m[1]]] = m[2]]
    /\ IF stored THEN started' = Count(started, m, 1) /\ UNCHANGED slack
       ELSE slack' = Count(slack, m, -1) /\ UNCHANGED started
    /\ UNCHANGED <<proc, pidOf, exe, current, ended, misread, unswept, reused>>

\* Mutant: the set of matched PIDs is kept from scan to scan.
GoneUnseen == {q \in Pids : activeRun[q] # None /\ \A r \in Runs : pidOf[r] # q}

\* Entries whose PID was not matched.
Gone == {q \in Pids : activeRun[q] # None /\ q \notin current}

\* Mutant: the entry stays in the map.
ReportEndKeep(q, stored) ==
    LET k == <<activeRun[q], activeHash[q]>> IN
    /\ q \in Gone
    /\ current' = current \cup {q}
    /\ IF stored THEN ended' = Count(ended, k, 1) /\ UNCHANGED slack
       ELSE slack' = Count(slack, k, 1) /\ UNCHANGED ended
    /\ UNCHANGED <<proc, pidOf, exe, activeRun, activeHash, todo, started,
                   misread, unswept, reused>>

ReportEnd(q, stored) ==
    LET k == <<activeRun[q], activeHash[q]>> IN
    /\ q \in Gone
    /\ activeRun' = [activeRun EXCEPT ![q] = None]
    /\ activeHash' = [activeHash EXCEPT ![q] = None]
    /\ IF stored THEN ended' = Count(ended, k, 1) /\ UNCHANGED slack
       ELSE slack' = Count(slack, k, 1) /\ UNCHANGED ended
    /\ UNCHANGED <<proc, pidOf, exe, todo, current, started, misread, unswept,
                   reused>>

Entries == {<<activeRun[q], activeHash[q]>> :
               q \in {x \in Pids : activeRun[x] # None}}

\* activeJobs is kept in memory only.
ForgetRuns ==
    /\ slack' = [k \in Keys |-> slack[k] + (IF k \in Entries THEN 1 ELSE 0)]
    /\ activeRun' = [q \in Pids |-> None]
    /\ activeHash' = [q \in Pids |-> None]
    /\ todo' = {}
    /\ current' = {}
    /\ UNCHANGED <<proc, pidOf, exe, started, ended, misread, unswept, reused>>
=============================================================================
