--------------------------- MODULE ObservationProofs ---------------------------
(***************************************************************************)
(* The process scans, the mail reader and the crontab parser of            *)
(* Observation, for any processes, PIDs, mails and crontabs and any number *)
(* of events.                                                              *)
(***************************************************************************)
EXTENDS Observation, WellFoundedInduction, TLAPS

\* The part of TypeOK that is about processes.
ProcTypeOK ==
    /\ proc \in [Runs -> {"new", "alive", "dead"}]
    /\ pidOf \in [Runs -> Pids \cup {None}]
    /\ exe \in [Runs -> Exes \cup {None}]
    /\ activeRun \in [Pids -> Runs \cup {None}]
    /\ activeHash \in [Pids -> Hashes \cup {None}]
    /\ todo \subseteq Keys
    /\ current \subseteq Pids
    /\ started \in [Keys -> Nat]
    /\ ended \in [Keys -> Nat]
    /\ slack \in [Keys -> Int]
    /\ misread \subseteq Runs /\ unswept \subseteq Runs /\ reused \subseteq Runs

\* A PID belongs to one process at a time.
PidsOK ==
    /\ \A r \in Runs : proc[r] # "new" => pidOf[r] \in Pids
    /\ \A r, x \in Alive : pidOf[r] = pidOf[x] => r = x
    /\ \A x \in unswept : proc[x] = "dead"

\* An entry has the PID of its process, and the job it was matched with is
\* still known, so that a scan matches the process again.
EntriesOK ==
    \A q \in Pids : activeRun[q] # None =>
        /\ pidOf[activeRun[q]] = q
        /\ proc[activeRun[q]] # "new"
        /\ activeHash[q] \in Known
        /\ ExeOf[activeHash[q]] = exe[activeRun[q]]

\* So will the entries be that a scan has still to make, each for a PID of
\* its own that has none.
TodoOK ==
    /\ pc # "scan" => todo = {}
    /\ \A m \in todo :
          /\ proc[m[1]] = "alive" \/ m[1] \in unswept
          /\ pidOf[m[1]] \in current
          /\ activeRun[pidOf[m[1]]] = None
          /\ m[2] \in Known
          /\ ExeOf[m[2]] = exe[m[1]]
    /\ \A m, n \in todo : pidOf[m[1]] = pidOf[n[1]] => m = n

\* A scan ends entries of processes that it did not see.
GoneOK ==
    pc = "scan" =>
        \A q \in Gone : proc[activeRun[q]] = "dead" \/ activeRun[q] \in misread

\* A process with the PID of one that ended since the last scan is reused.
SpawnOK ==
    \A x \in unswept, r \in Alive : pidOf[x] = pidOf[r] => r \in reused

\* A PID that the last scan has matched is in use or was since.
CurrentOK ==
    \A q \in current : \E x \in Runs :
        pidOf[x] = q /\ (proc[x] = "alive" \/ x \in unswept)

\* So is the PID of an entry, by its own process or a reused one, or the scan
\* is about to end the entry.
Fresh ==
    \A q \in Pids : activeRun[q] # None =>
        \/ pc = "scan" /\ q \notin current
        \/ \E x \in Runs : /\ pidOf[x] = q
                           /\ x = activeRun[q] \/ x \in reused
                           /\ proc[x] = "alive" \/ x \in unswept

\* TrackedUnlessReused at any time.
Tracked ==
    \A r \in Alive : pidOf[r] \in current =>
        \/ activeRun[pidOf[r]] = r
        \/ r \in reused
        \/ \E m \in todo : m[1] = r

ScanInv ==
    /\ ProcTypeOK /\ PidsOK /\ EntriesOK /\ TodoOK /\ GoneOK /\ SpawnOK
    /\ CurrentOK /\ Fresh /\ Tracked /\ StartsAccounted /\ EndMeansGone

USE ProcessAssumption

LEMMA InitScanInv == Init => ScanInv
  <1> SUFFICES ASSUME Init PROVE ScanInv
    OBVIOUS
  <1> USE DEF Init, ProcInit
  <1>1. ProcTypeOK
    BY DEF ProcTypeOK, Keys
  <1>2. PidsOK /\ SpawnOK /\ CurrentOK /\ Tracked
    BY DEF PidsOK, SpawnOK, CurrentOK, Tracked, Alive
  <1>3. EntriesOK /\ TodoOK /\ GoneOK /\ Fresh
    BY DEF EntriesOK, TodoOK, GoneOK, Gone, Fresh
  <1>4. StartsAccounted /\ EndMeansGone
    BY DEF StartsAccounted, EndMeansGone, Entries
  <1> QED
    BY <1>1, <1>2, <1>3, <1>4 DEF ScanInv

\* Steps of the world and of the other handlers.
LEMMA QuietStep ==
    ASSUME ScanInv, UNCHANGED procVars, Known \subseteq Known', pc = "scan" <=> pc' = "scan"
    PROVE  ScanInv'
  <1> USE DEF ScanInv, procVars
  <1>1. ProcTypeOK'
    <2>1. proc' \in [Runs -> {"new", "alive", "dead"}]
      BY DEF ProcTypeOK, Keys
    <2>2. pidOf' \in [Runs -> Pids \cup {None}]
      BY DEF ProcTypeOK, Keys
    <2>3. exe' \in [Runs -> Exes \cup {None}]
      BY DEF ProcTypeOK, Keys
    <2>4. activeRun' \in [Pids -> Runs \cup {None}]
      BY DEF ProcTypeOK, Keys
    <2>5. activeHash' \in [Pids -> Hashes \cup {None}]
      BY DEF ProcTypeOK, Keys
    <2>6. todo' \subseteq Keys
      BY DEF ProcTypeOK, Keys
    <2>7. current' \subseteq Pids
      BY DEF ProcTypeOK, Keys
    <2>8. started' \in [Keys -> Nat]
      BY DEF ProcTypeOK, Keys
    <2>9. ended' \in [Keys -> Nat]
      BY DEF ProcTypeOK, Keys
    <2>10. slack' \in [Keys -> Int]
      BY DEF ProcTypeOK, Keys
    <2>11. misread' \subseteq Runs /\ unswept' \subseteq Runs /\ reused' \subseteq Runs
      BY DEF ProcTypeOK, Keys
    <2> QED
      BY <2>1, <2>2, <2>3, <2>4, <2>5, <2>6, <2>7, <2>8, <2>9, <2>10, <2>11 DEF ProcTypeOK, Exes
  <1>2. PidsOK'
    BY DEF ProcTypeOK, PidsOK, Alive
  <1>3. EntriesOK'
    BY DEF ProcTypeOK, EntriesOK, PidsOK
  <1>4. TodoOK'
    BY DEF ProcTypeOK, TodoOK, EntriesOK, PidsOK, Alive, Keys
  <1>5. GoneOK'
    BY DEF ProcTypeOK, GoneOK, Gone, EntriesOK, TodoOK
  <1>6. SpawnOK'
    BY DEF ProcTypeOK, SpawnOK, PidsOK, Alive
  <1>7. CurrentOK'
    BY DEF ProcTypeOK, CurrentOK, PidsOK
  <1>8. Fresh'
    BY DEF ProcTypeOK, Fresh, Gone, EntriesOK, TodoOK, PidsOK, SpawnOK, Alive
  <1>9. Tracked'
    BY DEF ProcTypeOK, Tracked, Fresh, EntriesOK, TodoOK, PidsOK, CurrentOK, SpawnOK, Alive, Keys
  <1>10. StartsAccounted'
    BY DEF ProcTypeOK, StartsAccounted, Entries, Keys
  <1>11. EndMeansGone'
    BY DEF ProcTypeOK, EndMeansGone, Keys, EntriesOK, PidsOK, GoneOK
  <1> QED
    BY <1>1, <1>2, <1>3, <1>4, <1>5, <1>6, <1>7, <1>8, <1>9, <1>10, <1>11

LEMMA SpawnStep ==
    ASSUME ScanInv, NEW r \in Runs, NEW q \in Pids, NEW e \in Exes, Spawn(r, q, e),
           UNCHANGED <<cronVars, pc>>
    PROVE  ScanInv'
  <1> USE DEF ScanInv, Spawn, cronVars, Known
  <1>1. ProcTypeOK'
    <2>1. proc' \in [Runs -> {"new", "alive", "dead"}]
      BY DEF ProcTypeOK, Keys
    <2>2. pidOf' \in [Runs -> Pids \cup {None}]
      BY DEF ProcTypeOK, Keys
    <2>3. exe' \in [Runs -> Exes \cup {None}]
      BY DEF ProcTypeOK, Keys
    <2>4. activeRun' \in [Pids -> Runs \cup {None}]
      BY DEF ProcTypeOK, Keys
    <2>5. activeHash' \in [Pids -> Hashes \cup {None}]
      BY DEF ProcTypeOK, Keys
    <2>6. todo' \subseteq Keys
      BY DEF ProcTypeOK, Keys
    <2>7. current' \subseteq Pids
      BY DEF ProcTypeOK, Keys
    <2>8. started' \in [Keys -> Nat]
      BY DEF ProcTypeOK, Keys
    <2>9. ended' \in [Keys -> Nat]
      BY DEF ProcTypeOK, Keys
    <2>10. slack' \in [Keys -> Int]
      BY DEF ProcTypeOK, Keys
    <2>11. misread' \subseteq Runs /\ unswept' \subseteq Runs /\ reused' \subseteq Runs
      BY DEF ProcTypeOK, Keys
    <2> QED
      BY <2>1, <2>2, <2>3, <2>4, <2>5, <2>6, <2>7, <2>8, <2>9, <2>10, <2>11 DEF ProcTypeOK, Exes
  <1>2. PidsOK'
    BY DEF ProcTypeOK, PidsOK, Alive
  <1>3. EntriesOK'
    BY DEF ProcTypeOK, EntriesOK, PidsOK
  <1>4. TodoOK'
    BY DEF ProcTypeOK, TodoOK, EntriesOK, PidsOK, Alive, Keys
  <1>5. GoneOK'
    BY DEF ProcTypeOK, GoneOK, Gone, EntriesOK, TodoOK
  <1>6. SpawnOK'
    BY DEF ProcTypeOK, SpawnOK, PidsOK, Alive
  <1>7. CurrentOK'
    BY DEF ProcTypeOK, CurrentOK, PidsOK
  <1>8. Fresh'
    BY DEF ProcTypeOK, Fresh, Gone, EntriesOK, TodoOK, PidsOK, SpawnOK, Alive
  <1>9. Tracked'
    BY DEF ProcTypeOK, Tracked, Fresh, EntriesOK, TodoOK, PidsOK, CurrentOK, SpawnOK, Alive, Keys
  <1>10. StartsAccounted'
    BY DEF ProcTypeOK, StartsAccounted, Entries, Keys
  <1>11. EndMeansGone'
    BY DEF ProcTypeOK, EndMeansGone, Keys, EntriesOK, PidsOK, GoneOK
  <1> QED
    BY <1>1, <1>2, <1>3, <1>4, <1>5, <1>6, <1>7, <1>8, <1>9, <1>10, <1>11

LEMMA ExitStep ==
    ASSUME ScanInv, NEW r \in Runs, Exit(r), UNCHANGED <<cronVars, pc>>
    PROVE  ScanInv'
  <1> USE DEF ScanInv, Exit, cronVars, Known
  <1>1. ProcTypeOK'
    <2>1. proc' \in [Runs -> {"new", "alive", "dead"}]
      BY DEF ProcTypeOK, Keys
    <2>2. pidOf' \in [Runs -> Pids \cup {None}]
      BY DEF ProcTypeOK, Keys
    <2>3. exe' \in [Runs -> Exes \cup {None}]
      BY DEF ProcTypeOK, Keys
    <2>4. activeRun' \in [Pids -> Runs \cup {None}]
      BY DEF ProcTypeOK, Keys
    <2>5. activeHash' \in [Pids -> Hashes \cup {None}]
      BY DEF ProcTypeOK, Keys
    <2>6. todo' \subseteq Keys
      BY DEF ProcTypeOK, Keys
    <2>7. current' \subseteq Pids
      BY DEF ProcTypeOK, Keys
    <2>8. started' \in [Keys -> Nat]
      BY DEF ProcTypeOK, Keys
    <2>9. ended' \in [Keys -> Nat]
      BY DEF ProcTypeOK, Keys
    <2>10. slack' \in [Keys -> Int]
      BY DEF ProcTypeOK, Keys
    <2>11. misread' \subseteq Runs /\ unswept' \subseteq Runs /\ reused' \subseteq Runs
      BY DEF ProcTypeOK, Keys
    <2> QED
      BY <2>1, <2>2, <2>3, <2>4, <2>5, <2>6, <2>7, <2>8, <2>9, <2>10, <2>11 DEF ProcTypeOK, Exes
  <1>2. PidsOK'
    BY DEF ProcTypeOK, PidsOK, Alive
  <1>3. EntriesOK'
    BY DEF ProcTypeOK, EntriesOK, PidsOK
  <1>4. TodoOK'
    BY DEF ProcTypeOK, TodoOK, EntriesOK, PidsOK, Alive, Keys
  <1>5. GoneOK'
    BY DEF ProcTypeOK, GoneOK, Gone, EntriesOK, TodoOK
  <1>6. SpawnOK'
    BY DEF ProcTypeOK, SpawnOK, PidsOK, Alive
  <1>7. CurrentOK'
    BY DEF ProcTypeOK, CurrentOK, PidsOK
  <1>8. Fresh'
    BY DEF ProcTypeOK, Fresh, Gone, EntriesOK, TodoOK, PidsOK, SpawnOK, Alive
  <1>9. Tracked'
    BY DEF ProcTypeOK, Tracked, Fresh, EntriesOK, TodoOK, PidsOK, CurrentOK, SpawnOK, Alive, Keys
  <1>10. StartsAccounted'
    BY DEF ProcTypeOK, StartsAccounted, Entries, Keys
  <1>11. EndMeansGone'
    BY DEF ProcTypeOK, EndMeansGone, Keys, EntriesOK, PidsOK, GoneOK
  <1> QED
    BY <1>1, <1>2, <1>3, <1>4, <1>5, <1>6, <1>7, <1>8, <1>9, <1>10, <1>11

LEMMA CrashStep ==
    ASSUME ScanInv, Crash
    PROVE  ScanInv'
  <1> USE DEF ScanInv, Crash, ForgetRuns
  <1>1. ProcTypeOK'
    <2>1. proc' \in [Runs -> {"new", "alive", "dead"}]
      BY DEF ProcTypeOK, Keys
    <2>2. pidOf' \in [Runs -> Pids \cup {None}]
      BY DEF ProcTypeOK, Keys
    <2>3. exe' \in [Runs -> Exes \cup {None}]
      BY DEF ProcTypeOK, Keys
    <2>4. activeRun' \in [Pids -> Runs \cup {None}]
      BY DEF ProcTypeOK, Keys
    <2>5. activeHash' \in [Pids -> Hashes \cup {None}]
      BY DEF ProcTypeOK, Keys
    <2>6. todo' \subseteq Keys
      BY DEF ProcTypeOK, Keys
    <2>7. current' \subseteq Pids
      BY DEF ProcTypeOK, Keys
    <2>8. started' \in [Keys -> Nat]
      BY DEF ProcTypeOK, Keys
    <2>9. ended' \in [Keys -> Nat]
      BY DEF ProcTypeOK, Keys
    <2>10. slack' \in [Keys -> Int]
      BY DEF ProcTypeOK, Keys
    <2>11. misread' \subseteq Runs /\ unswept' \subseteq Runs /\ reused' \subseteq Runs
      BY DEF ProcTypeOK, Keys
    <2> QED
      BY <2>1, <2>2, <2>3, <2>4, <2>5, <2>6, <2>7, <2>8, <2>9, <2>10, <2>11 DEF ProcTypeOK, Exes
  <1>2. PidsOK'
    BY DEF ProcTypeOK, PidsOK, Alive
  <1>3. EntriesOK'
    BY DEF ProcTypeOK, EntriesOK, PidsOK
  <1>4. TodoOK'
    BY DEF ProcTypeOK, TodoOK, EntriesOK, PidsOK, Alive, Keys
  <1>5. GoneOK'
    BY DEF ProcTypeOK, GoneOK, Gone, EntriesOK, TodoOK
  <1>6. SpawnOK'
    BY DEF ProcTypeOK, SpawnOK, PidsOK, Alive
  <1>7. CurrentOK'
    BY DEF ProcTypeOK, CurrentOK, PidsOK
  <1>8. Fresh'
    BY DEF ProcTypeOK, Fresh, Gone, EntriesOK, TodoOK, PidsOK, SpawnOK, Alive
  <1>9. Tracked'
    BY DEF ProcTypeOK, Tracked, Fresh, EntriesOK, TodoOK, PidsOK, CurrentOK, SpawnOK, Alive, Keys
  <1>10. StartsAccounted'
    BY DEF ProcTypeOK, StartsAccounted, Entries, Keys
  <1>11. EndMeansGone'
    BY DEF ProcTypeOK, EndMeansGone, Keys, EntriesOK, PidsOK, GoneOK
  <1> QED
    BY <1>1, <1>2, <1>3, <1>4, <1>5, <1>6, <1>7, <1>8, <1>9, <1>10, <1>11

LEMMA SnapshotStep ==
    ASSUME ScanInv, runProcessScan
    PROVE  ScanInv'
  <1> USE DEF ScanInv
  <1>a. PICK unread \in SUBSET Alive : Snapshot(unread)
    BY DEF runProcessScan
  <1>b. PICK f \in MatchJobs(Alive \ unread) :
          /\ todo' = {<<r, f[r]>> :
                        r \in {x \in DOMAIN f : activeRun[pidOf[x]] = None}}
          /\ current' = {pidOf[r] : r \in DOMAIN f}
          /\ misread' = misread \cup unread
          /\ unswept' = {}
          /\ UNCHANGED <<proc, pidOf, exe, activeRun, activeHash, started, ended,
                         slack, reused>>
    BY <1>a DEF Snapshot
  <1>c. pc = "idle" /\ pc' = "scan" /\ Known' = Known /\ Alive' = Alive
    BY <1>b DEF runProcessScan, cronVars, Known, Alive
  <1> DEFINE M == DOMAIN f
  <1>d. /\ M \subseteq Alive \ unread
        /\ \A r \in M : /\ f[r] \in Known /\ f[r] \in Hashes
                        /\ ExeOf[f[r]] = exe[r]
    BY DEF MatchJobs, matchesCommand, Known
  <1>e. \A r \in Alive \ unread, h \in Known : ExeOf[h] = exe[r] => r \in M
    BY DEF MatchJobs, matchesCommand
  <1>f. \A r \in Alive : r \in Runs /\ proc[r] = "alive" /\ pidOf[r] \in Pids
    BY DEF Alive, PidsOK
  <1> HIDE DEF M
  <1>g. \A r \in M : r \in Runs /\ r \in Alive /\ proc[r] = "alive" /\ pidOf[r] \in Pids
    BY <1>d, <1>f
  <1>h1. /\ \A m \in todo' : \E r \in M : m = <<r, f[r]>> /\ activeRun[pidOf[r]] = None
         /\ \A r \in M : activeRun[pidOf[r]] = None => <<r, f[r]>> \in todo'
    BY <1>b DEF M
  <1>h. /\ \A m \in todo' : m[1] \in M /\ m = <<m[1], f[m[1]]>> /\ activeRun[pidOf[m[1]]] = None
        /\ \A r \in M : activeRun[pidOf[r]] = None => \E m \in todo' : m[1] = r
    <2>1. ASSUME NEW m \in todo'
          PROVE  m[1] \in M /\ m = <<m[1], f[m[1]]>> /\ activeRun[pidOf[m[1]]] = None
      <3>1. PICK r \in M : m = <<r, f[r]>> /\ activeRun[pidOf[r]] = None
        BY <1>h1
      <3>2. m[1] = r
        BY <3>1
      <3> QED
        BY <3>1, <3>2
    <2>2. ASSUME NEW r \in M, activeRun[pidOf[r]] = None
          PROVE  \E m \in todo' : m[1] = r
      <3>1. <<r, f[r]>> \in todo'
        BY <2>2, <1>h1
      <3>2. <<r, f[r]>>[1] = r
        OBVIOUS
      <3> QED
        BY <3>1, <3>2
    <2> QED
      BY <2>1, <2>2
  <1>i. /\ \A r \in M : pidOf[r] \in current'
        /\ \A q \in current' : \E r \in M : pidOf[r] = q
    BY <1>b DEF M
  <1>j. \A q \in Pids : activeRun[q] # None =>
          \E x \in Runs : /\ pidOf[x] = q
                          /\ x = activeRun[q] \/ x \in reused
                          /\ proc[x] = "alive" \/ x \in unswept
    <2>1. Fresh /\ pc # "scan"
      BY <1>c
    <2> HIDE DEF ScanInv
    <2> QED
      BY <2>1 DEF Fresh
  <1>1. ProcTypeOK'
    <2>1. proc' \in [Runs -> {"new", "alive", "dead"}]
      BY <1>b, <1>d, <1>g, <1>h, <1>i DEF ProcTypeOK, Keys
    <2>2. pidOf' \in [Runs -> Pids \cup {None}]
      BY <1>b, <1>d, <1>g, <1>h, <1>i DEF ProcTypeOK, Keys
    <2>3. exe' \in [Runs -> Exes \cup {None}]
      BY <1>b, <1>d, <1>g, <1>h, <1>i DEF ProcTypeOK, Keys
    <2>4. activeRun' \in [Pids -> Runs \cup {None}]
      BY <1>b, <1>d, <1>g, <1>h, <1>i DEF ProcTypeOK, Keys
    <2>5. activeHash' \in [Pids -> Hashes \cup {None}]
      BY <1>b, <1>d, <1>g, <1>h, <1>i DEF ProcTypeOK, Keys
    <2>6. todo' \subseteq Keys
      BY <1>b, <1>d, <1>g, <1>h, <1>i DEF ProcTypeOK, Keys
    <2>7. current' \subseteq Pids
      BY <1>g, <1>i
    <2>8. started' \in [Keys -> Nat]
      BY <1>b, <1>d, <1>g, <1>h, <1>i DEF ProcTypeOK, Keys
    <2>9. ended' \in [Keys -> Nat]
      BY <1>b, <1>d, <1>g, <1>h, <1>i DEF ProcTypeOK, Keys
    <2>10. slack' \in [Keys -> Int]
      BY <1>b, <1>d, <1>g, <1>h, <1>i DEF ProcTypeOK, Keys
    <2>11. misread' \subseteq Runs /\ unswept' \subseteq Runs /\ reused' \subseteq Runs
      <3>1. unread \subseteq Runs
        BY <1>f
      <3> QED
        BY <3>1, <1>b DEF ProcTypeOK
    <2> QED
      BY <2>1, <2>2, <2>3, <2>4, <2>5, <2>6, <2>7, <2>8, <2>9, <2>10, <2>11 DEF ProcTypeOK, Exes
  <1>2. PidsOK'
    BY <1>b, <1>c, <1>d, <1>e, <1>f, <1>g, <1>h, <1>i DEF ProcTypeOK, PidsOK
  <1>3. EntriesOK'
    BY <1>b, <1>c, <1>d, <1>e, <1>f, <1>g, <1>h, <1>i DEF ProcTypeOK, EntriesOK, PidsOK
  <1>4. TodoOK'
    BY <1>b, <1>c, <1>d, <1>e, <1>f, <1>g, <1>h, <1>i DEF ProcTypeOK, TodoOK, EntriesOK, PidsOK, Alive, Keys
  <1>5. GoneOK'
    <2> SUFFICES ASSUME NEW q \in Pids, activeRun[q] # None, q \notin current'
                 PROVE  proc[activeRun[q]] = "dead" \/ activeRun[q] \in misread \cup unread
      BY <1>b, <1>c DEF GoneOK, Gone
    <2>1. /\ activeRun[q] \in Runs /\ pidOf[activeRun[q]] = q
          /\ proc[activeRun[q]] \in {"alive", "dead"}
          /\ activeHash[q] \in Known /\ ExeOf[activeHash[q]] = exe[activeRun[q]]
      BY DEF ProcTypeOK, EntriesOK
    <2>2. activeRun[q] \notin M
      BY <2>1, <1>i
    <2>3. activeRun[q] \notin Alive \ unread
      BY <2>1, <2>2, <1>e
    <2> QED
      BY <2>1, <2>3 DEF Alive
  <1>6. SpawnOK'
    BY <1>b, <1>c, <1>d, <1>e, <1>f, <1>g, <1>h, <1>i DEF ProcTypeOK, SpawnOK, PidsOK, Alive
  <1>7. CurrentOK'
    BY <1>b, <1>g, <1>i DEF CurrentOK
  <1>8. Fresh'
    <2> SUFFICES ASSUME NEW q \in Pids, activeRun[q] # None, q \in current'
                 PROVE  \E x \in Runs : /\ pidOf[x] = q
                                        /\ x = activeRun[q] \/ x \in reused
                                        /\ proc[x] = "alive"
      BY <1>b, <1>c DEF Fresh
    <2>1. PICK r \in M : pidOf[r] = q
      BY <1>i
    <2>2. PICK x \in Runs : /\ pidOf[x] = q
                            /\ x = activeRun[q] \/ x \in reused
                            /\ proc[x] = "alive" \/ x \in unswept
      BY <1>j
    <2>3. CASE proc[x] = "alive"
      BY <2>2, <2>3
    <2>4. CASE x \in unswept
      <3>1. r \in reused
        BY <2>1, <2>2, <2>4, <1>g DEF SpawnOK
      <3> QED
        BY <2>1, <3>1, <1>g
    <2> QED
      BY <2>2, <2>3, <2>4
  <1>9. Tracked'
    <2> SUFFICES ASSUME NEW r \in Alive, pidOf[r] \in current', r \notin reused,
                        activeRun[pidOf[r]] # r
                 PROVE  \E m \in todo' : m[1] = r
      BY <1>b, <1>c DEF Tracked
    <2>1. PICK y \in M : pidOf[y] = pidOf[r]
      BY <1>i
    <2>2. r \in M
      BY <2>1, <1>g DEF PidsOK
    <2>3. ASSUME activeRun[pidOf[r]] # None PROVE FALSE
      <3>1. PICK x \in Runs : /\ pidOf[x] = pidOf[r]
                              /\ x = activeRun[pidOf[r]] \/ x \in reused
                              /\ proc[x] = "alive" \/ x \in unswept
        BY <2>3, <1>f, <1>j
      <3>2. CASE proc[x] = "alive"
        <4>1. x = r
          BY <3>1, <3>2 DEF PidsOK, Alive
        <4> QED
          BY <3>1, <4>1
      <3>3. CASE x \in unswept
        BY <3>1, <3>3 DEF SpawnOK
      <3> QED
        BY <3>1, <3>2, <3>3
    <2> QED
      BY <2>2, <2>3, <1>h
  <1>10. StartsAccounted'
    BY <1>b, <1>c, <1>d, <1>e, <1>f, <1>g, <1>h, <1>i DEF ProcTypeOK, StartsAccounted, Entries, Keys
  <1>11. EndMeansGone'
    BY <1>b, <1>c, <1>d, <1>e, <1>f, <1>g, <1>h, <1>i DEF ProcTypeOK, EndMeansGone, Keys, EntriesOK, PidsOK, GoneOK
  <1> QED
    BY <1>1, <1>2, <1>3, <1>4, <1>5, <1>6, <1>7, <1>8, <1>9, <1>10, <1>11

LEMMA StartStep ==
    ASSUME ScanInv, NEW m \in todo, NEW ok \in BOOLEAN, ReportStart(m, ok), pc = "scan",
           UNCHANGED <<cronVars, pc>>
    PROVE  ScanInv'
  <1> USE DEF ScanInv, ReportStart, Count, cronVars, Known
  <1> DEFINE p == pidOf[m[1]]
  <1>a. /\ m[1] \in Runs /\ m[2] \in Hashes /\ m = <<m[1], m[2]>> /\ m \in Keys
        /\ m[1] # None /\ proc[m[1]] # "new"
    BY DEF ProcTypeOK, Keys, TodoOK, PidsOK
  <1>b. p \in Pids /\ p \in current /\ activeRun[p] = None
    BY <1>a DEF TodoOK, ProcTypeOK
  <1>c. /\ activeRun' = [x \in Pids |-> IF x = p THEN m[1] ELSE activeRun[x]]
        /\ activeHash' = [x \in Pids |-> IF x = p THEN m[2] ELSE activeHash[x]]
    BY <1>b DEF ProcTypeOK
  <1>d. Known' = Known
    OBVIOUS
  <1>1. ProcTypeOK'
    <2>1. proc' \in [Runs -> {"new", "alive", "dead"}]
      BY DEF ProcTypeOK, Keys
    <2>2. pidOf' \in [Runs -> Pids \cup {None}]
      BY DEF ProcTypeOK, Keys
    <2>3. exe' \in [Runs -> Exes \cup {None}]
      BY DEF ProcTypeOK, Keys
    <2>4. activeRun' \in [Pids -> Runs \cup {None}]
      BY DEF ProcTypeOK, Keys
    <2>5. activeHash' \in [Pids -> Hashes \cup {None}]
      BY DEF ProcTypeOK, Keys
    <2>6. todo' \subseteq Keys
      BY DEF ProcTypeOK, Keys
    <2>7. current' \subseteq Pids
      BY DEF ProcTypeOK, Keys
    <2>8. started' \in [Keys -> Nat]
      BY DEF ProcTypeOK, Keys
    <2>9. ended' \in [Keys -> Nat]
      BY DEF ProcTypeOK, Keys
    <2>10. slack' \in [Keys -> Int]
      BY DEF ProcTypeOK, Keys
    <2>11. misread' \subseteq Runs /\ unswept' \subseteq Runs /\ reused' \subseteq Runs
      BY DEF ProcTypeOK, Keys
    <2> QED
      BY <2>1, <2>2, <2>3, <2>4, <2>5, <2>6, <2>7, <2>8, <2>9, <2>10, <2>11 DEF ProcTypeOK, Exes
  <1>2. PidsOK'
    BY DEF ProcTypeOK, PidsOK, Alive
  <1>3. EntriesOK'
    <2> SUFFICES ASSUME NEW q \in Pids, activeRun'[q] # None
                 PROVE  /\ pidOf'[activeRun'[q]] = q
                        /\ proc'[activeRun'[q]] # "new"
                        /\ activeHash'[q] \in Known'
                        /\ ExeOf[activeHash'[q]] = exe'[activeRun'[q]]
      BY DEF EntriesOK
    <2>1. CASE q = p
      BY <2>1, <1>a, <1>c DEF TodoOK
    <2>2. CASE q # p
      BY <2>2, <1>c DEF EntriesOK
    <2> QED
      BY <2>1, <2>2
  <1>4. TodoOK'
    BY DEF ProcTypeOK, TodoOK, EntriesOK, PidsOK, Alive, Keys
  <1>5. GoneOK'
    BY DEF ProcTypeOK, GoneOK, Gone, EntriesOK, TodoOK
  <1>6. SpawnOK'
    BY DEF ProcTypeOK, SpawnOK, PidsOK, Alive
  <1>7. CurrentOK'
    BY DEF ProcTypeOK, CurrentOK, PidsOK
  <1>8. Fresh'
    <2> SUFFICES ASSUME NEW q \in Pids, activeRun'[q] # None
                 PROVE  \/ pc' = "scan" /\ q \notin current'
                        \/ \E x \in Runs : /\ pidOf'[x] = q
                                           /\ x = activeRun'[q] \/ x \in reused'
                                           /\ proc'[x] = "alive" \/ x \in unswept'
      BY DEF Fresh
    <2>1. CASE q = p
      BY <2>1, <1>a, <1>c DEF TodoOK
    <2>2. CASE q # p
      <3>1. activeRun'[q] = activeRun[q]
        BY <2>2, <1>c
      <3> QED
        BY <3>1 DEF Fresh
    <2> QED
      BY <2>1, <2>2
  <1>9. Tracked'
    BY DEF ProcTypeOK, Tracked, Fresh, EntriesOK, TodoOK, PidsOK, CurrentOK, SpawnOK, Alive, Keys
  <1>10. StartsAccounted'
    <2>1. m \notin Entries
      BY <1>a, <1>b DEF Entries, EntriesOK
    <2>2. Entries' = Entries \cup {m}
      BY <1>a, <1>b, <1>c DEF Entries
    <2>3. \A k \in Keys : /\ started[k] \in Nat /\ ended[k] \in Nat /\ slack[k] \in Int
                         /\ ended'[k] = ended[k]
                         /\ started'[k] - slack'[k]
                              = started[k] - slack[k] + (IF k = m THEN 1 ELSE 0)
      BY <1>a DEF ProcTypeOK
    <2>4. \A k \in Keys : started'[k] \in Int /\ slack'[k] \in Int
      BY <1>1 DEF ProcTypeOK
    <2>5. \A k \in Keys : k \in Entries' <=> k \in Entries \/ k = m
      BY <2>2
    <2> SUFFICES ASSUME NEW k \in Keys
                 PROVE  started'[k] = ended'[k] + slack'[k] + (IF k \in Entries' THEN 1 ELSE 0)
      BY DEF StartsAccounted
    <2>6. started[k] = ended[k] + slack[k] + (IF k \in Entries THEN 1 ELSE 0)
      BY DEF StartsAccounted
    <2>7. CASE k = m
      BY <2>7, <2>1, <2>3, <2>4, <2>5, <2>6
    <2>8. CASE k # m
      <3>1. k \in Entries' <=> k \in Entries
        BY <2>8, <2>5
      <3>2. started'[k] = started[k] /\ slack'[k] = slack[k] /\ ended'[k] = ended[k]
        BY <2>8 DEF ProcTypeOK
      <3> QED
        BY <3>1, <3>2, <2>6
    <2> QED
      BY <2>7, <2>8
  <1>11. EndMeansGone'
    BY DEF ProcTypeOK, EndMeansGone, Keys, EntriesOK, PidsOK, GoneOK
  <1> QED
    BY <1>1, <1>2, <1>3, <1>4, <1>5, <1>6, <1>7, <1>8, <1>9, <1>10, <1>11

LEMMA EndStep ==
    ASSUME ScanInv, NEW q \in Pids, NEW ok \in BOOLEAN, ReportEnd(q, ok), todo = {},
           pc = "scan", UNCHANGED <<cronVars, pc>>
    PROVE  ScanInv'
  <1> USE DEF ScanInv, ReportEnd, Count, cronVars, Known, Gone
  <1> DEFINE e == <<activeRun[q], activeHash[q]>>
  <1>a. /\ activeRun[q] \in Runs /\ activeHash[q] \in Hashes /\ e \in Keys
        /\ activeRun[q] # None
    BY DEF ProcTypeOK, EntriesOK, Keys
  <1>1. ProcTypeOK'
    <2>1. proc' \in [Runs -> {"new", "alive", "dead"}]
      BY DEF ProcTypeOK, Keys
    <2>2. pidOf' \in [Runs -> Pids \cup {None}]
      BY DEF ProcTypeOK, Keys
    <2>3. exe' \in [Runs -> Exes \cup {None}]
      BY DEF ProcTypeOK, Keys
    <2>4. activeRun' \in [Pids -> Runs \cup {None}]
      BY DEF ProcTypeOK, Keys
    <2>5. activeHash' \in [Pids -> Hashes \cup {None}]
      BY DEF ProcTypeOK, Keys
    <2>6. todo' \subseteq Keys
      BY DEF ProcTypeOK, Keys
    <2>7. current' \subseteq Pids
      BY DEF ProcTypeOK, Keys
    <2>8. started' \in [Keys -> Nat]
      BY DEF ProcTypeOK, Keys
    <2>9. ended' \in [Keys -> Nat]
      <3>1. ended \in [Keys -> Nat]
        BY DEF ProcTypeOK
      <3>2. ended' = [ended EXCEPT ![e] = @ + 1] \/ ended' = ended
        OBVIOUS
      <3> HIDE DEF e
      <3> QED
        BY <3>1, <3>2, <1>a
    <2>10. slack' \in [Keys -> Int]
      BY DEF ProcTypeOK, Keys
    <2>11. misread' \subseteq Runs /\ unswept' \subseteq Runs /\ reused' \subseteq Runs
      BY DEF ProcTypeOK, Keys
    <2> QED
      BY <2>1, <2>2, <2>3, <2>4, <2>5, <2>6, <2>7, <2>8, <2>9, <2>10, <2>11 DEF ProcTypeOK, Exes
  <1>2. PidsOK'
    BY DEF ProcTypeOK, PidsOK, Alive
  <1>3. EntriesOK'
    BY DEF ProcTypeOK, EntriesOK, PidsOK
  <1>4. TodoOK'
    BY DEF ProcTypeOK, TodoOK, EntriesOK, PidsOK, Alive, Keys
  <1>5. GoneOK'
    BY DEF ProcTypeOK, GoneOK, Gone, EntriesOK, TodoOK
  <1>6. SpawnOK'
    BY DEF ProcTypeOK, SpawnOK, PidsOK, Alive
  <1>7. CurrentOK'
    BY DEF ProcTypeOK, CurrentOK, PidsOK
  <1>8. Fresh'
    BY DEF ProcTypeOK, Fresh, Gone, EntriesOK, TodoOK, PidsOK, SpawnOK, Alive
  <1>9. Tracked'
    BY DEF ProcTypeOK, Tracked, Fresh, EntriesOK, TodoOK, PidsOK, CurrentOK, SpawnOK, Alive, Keys
  <1>10. StartsAccounted'
    <2>1. e \in Entries
      BY <1>a DEF Entries
    <2>2. activeRun' = [x \in Pids |-> IF x = q THEN None ELSE activeRun[x]]
      BY DEF ProcTypeOK
    <2>3. activeHash' = [x \in Pids |-> IF x = q THEN None ELSE activeHash[x]]
      BY DEF ProcTypeOK
    <2>4. Entries' = Entries \ {e}
      <3>1. \A x \in Pids : x # q /\ activeRun[x] # None => activeRun[x] # activeRun[q]
        BY <1>a DEF EntriesOK
      <3> QED
        BY <3>1, <2>2, <2>3, <1>a DEF Entries
    <2>5. \A k \in Keys : /\ started[k] \in Nat /\ ended[k] \in Nat /\ slack[k] \in Int
                         /\ started'[k] = started[k]
                         /\ ended'[k] + slack'[k]
                              = ended[k] + slack[k] + (IF k = e THEN 1 ELSE 0)
      BY <1>a DEF ProcTypeOK
    <2>6. \A k \in Keys : ended'[k] \in Int /\ slack'[k] \in Int
      BY <1>1 DEF ProcTypeOK
    <2> HIDE DEF e
    <2> QED
      BY <2>1, <2>4, <2>5, <2>6 DEF StartsAccounted
  <1>11. EndMeansGone'
    BY DEF ProcTypeOK, EndMeansGone, Keys, EntriesOK, PidsOK, GoneOK
  <1> QED
    BY <1>1, <1>2, <1>3, <1>4, <1>5, <1>6, <1>7, <1>8, <1>9, <1>10, <1>11

LEMMA DoneStep ==
    ASSUME ScanInv, ProcessDone
    PROVE  ScanInv'
  <1> USE DEF ScanInv, ProcessDone, procVars, cronVars, Known
  <1>1. ProcTypeOK'
    <2>1. proc' \in [Runs -> {"new", "alive", "dead"}]
      BY DEF ProcTypeOK, Keys
    <2>2. pidOf' \in [Runs -> Pids \cup {None}]
      BY DEF ProcTypeOK, Keys
    <2>3. exe' \in [Runs -> Exes \cup {None}]
      BY DEF ProcTypeOK, Keys
    <2>4. activeRun' \in [Pids -> Runs \cup {None}]
      BY DEF ProcTypeOK, Keys
    <2>5. activeHash' \in [Pids -> Hashes \cup {None}]
      BY DEF ProcTypeOK, Keys
    <2>6. todo' \subseteq Keys
      BY DEF ProcTypeOK, Keys
    <2>7. current' \subseteq Pids
      BY DEF ProcTypeOK, Keys
    <2>8. started' \in [Keys -> Nat]
      BY DEF ProcTypeOK, Keys
    <2>9. ended' \in [Keys -> Nat]
      BY DEF ProcTypeOK, Keys
    <2>10. slack' \in [Keys -> Int]
      BY DEF ProcTypeOK, Keys
    <2>11. misread' \subseteq Runs /\ unswept' \subseteq Runs /\ reused' \subseteq Runs
      BY DEF ProcTypeOK, Keys
    <2> QED
      BY <2>1, <2>2, <2>3, <2>4, <2>5, <2>6, <2>7, <2>8, <2>9, <2>10, <2>11 DEF ProcTypeOK, Exes
  <1>2. PidsOK'
    BY DEF ProcTypeOK, PidsOK, Alive
  <1>3. EntriesOK'
    BY DEF ProcTypeOK, EntriesOK, PidsOK
  <1>4. TodoOK'
    BY DEF ProcTypeOK, TodoOK, EntriesOK, PidsOK, Alive, Keys
  <1>5. GoneOK'
    BY DEF ProcTypeOK, GoneOK, Gone, EntriesOK, TodoOK
  <1>6. SpawnOK'
    BY DEF ProcTypeOK, SpawnOK, PidsOK, Alive
  <1>7. CurrentOK'
    BY DEF ProcTypeOK, CurrentOK, PidsOK
  <1>8. Fresh'
    BY DEF ProcTypeOK, Fresh, Gone, EntriesOK, TodoOK, PidsOK, SpawnOK, Alive
  <1>9. Tracked'
    BY DEF ProcTypeOK, Tracked, Fresh, EntriesOK, TodoOK, PidsOK, CurrentOK, SpawnOK, Alive, Keys
  <1>10. StartsAccounted'
    BY DEF ProcTypeOK, StartsAccounted, Entries, Keys
  <1>11. EndMeansGone'
    BY DEF ProcTypeOK, EndMeansGone, Keys, EntriesOK, PidsOK, GoneOK
  <1> QED
    BY <1>1, <1>2, <1>3, <1>4, <1>5, <1>6, <1>7, <1>8, <1>9, <1>10, <1>11

\* runDiscovery never removes a job.
LEMMA KnownGrows ==
    ASSUME NEW unreadable, UpdateKnown(unreadable)
    PROVE  Known \subseteq Known'
  BY DEF UpdateKnown, Upsert, Known

LEMMA WorldStep ==
    ASSUME ScanInv, World
    PROVE  ScanInv'
  <1>1. CASE \E c \in Crontabs \ {crontab} : EditCrontab(c) /\ UNCHANGED <<procVars, pc>>
    <2>1. Known' = Known
      BY <1>1 DEF EditCrontab, Known
    <2> QED
      BY <1>1, <2>1, QuietStep
  <1>2. CASE \E r \in Runs, q \in Pids, e \in Exes :
                Spawn(r, q, e) /\ UNCHANGED <<cronVars, pc>>
    BY <1>2, SpawnStep
  <1>3. CASE \E r \in Runs : Exit(r) /\ UNCHANGED <<cronVars, pc>>
    BY <1>3, ExitStep
  <1>4. CASE UNCHANGED <<cronVars, procVars, pc>>
    <2>1. Known' = Known
      BY <1>4 DEF cronVars, Known
    <2> QED
      BY <1>4, <2>1, QuietStep
  <1> QED
    BY <1>1, <1>2, <1>3, <1>4 DEF World

LEMMA StepScanInv == ScanInv /\ [Next]_vars => ScanInv'
  <1> SUFFICES ASSUME ScanInv, [Next]_vars PROVE ScanInv'
    OBVIOUS
  <1>1. CASE runDiscovery
    <2>1. Known \subseteq Known'
      BY <1>1, KnownGrows DEF runDiscovery
    <2> QED
      BY <1>1, <2>1, QuietStep DEF runDiscovery
  <1>2. CASE SubmitDiscovery
    <2>1. Known' = Known
      BY <1>2 DEF SubmitDiscovery, ProcessDiscovery, Known
    <2>2. pc # "scan" /\ pc' # "scan" /\ UNCHANGED procVars
      BY <1>2 DEF SubmitDiscovery
    <2> QED
      BY <2>1, <2>2, QuietStep
  <1>3. CASE Start \/ MailTick \/ MailStep \/ MailDone \/ UNCHANGED vars
    <2>1. UNCHANGED <<cronVars, procVars>> /\ (pc = "scan" <=> pc' = "scan")
      BY <1>3 DEF Start, MailTick, MailStep, MailDone, vars, loopVars
    <2>2. Known' = Known
      BY <2>1 DEF cronVars, Known
    <2> QED
      BY <2>1, <2>2, QuietStep
  <1>4. CASE ProcessStep
    BY <1>4, StartStep, EndStep DEF ProcessStep
  <1> QED
    BY <1>1, <1>2, <1>3, <1>4, WorldStep, CrashStep, SnapshotStep, DoneStep
       DEF Next, Handler

-----------------------------------------------------------------------------
\* The inductive invariant of the process scans holds in every reachable state.
THEOREM ScanInvariant == Spec => []ScanInv
  BY InitScanInv, StepScanInv, PTL DEF Spec

\* Every start that runProcessScan reported has its end or its entry in
\* activeJobs, or was forgotten in a restart.
THEOREM StartsAccountedTheorem == Spec => []StartsAccounted
  <1>1. ScanInv => StartsAccounted
    BY DEF ScanInv
  <1> QED
    BY <1>1, ScanInvariant, PTL

\* runProcessScan reports the end of a process only when it is gone or could
\* not be read, whatever becomes of the crontabs.
THEOREM EndMeansGoneTheorem == Spec => []EndMeansGone
  <1>1. ScanInv => EndMeansGone
    BY DEF ScanInv
  <1> QED
    BY <1>1, ScanInvariant, PTL

\* activeJobs follows every matched process, except one that took over a PID
\* within the time of one scan.
THEOREM TrackedTheorem == Spec => []TrackedUnlessReused
  <1>1. ScanInv => TrackedUnlessReused
    BY DEF ScanInv, Tracked, TodoOK, TrackedUnlessReused
  <1> QED
    BY <1>1, ScanInvariant, PTL

-----------------------------------------------------------------------------
(* Types.                                                                  *)

\* The part of TypeOK that is about mail.
MailTypeOK ==
    /\ spool \in Seq(Mails \X Nat)
    /\ wrote \in [Mails -> Nat]
    /\ offset \in [Paths -> Nat]
    /\ reading \subseteq Paths
    /\ pending \subseteq Paths \X Mails
    /\ reported \in [Paths \X Mails -> Nat]
    /\ rereads \in [Paths -> Nat]
    /\ orphans \subseteq Mails /\ stale \subseteq Paths
    /\ excused \subseteq Paths \X Mails

\* And the one about the loop and the crontabs.
LoopTypeOK ==
    /\ pc \in {"down", "boot", "bootsubmit", "submit", "mail", "scan", "idle"}
    /\ world \in 0 .. MaxWorld
    /\ disturbed \in BOOLEAN
    /\ crontab \in Crontabs

LEMMA Appended ==
    ASSUME NEW S, NEW s \in Seq(S), NEW t \in Seq(S)
    PROVE  /\ s \o t \in Seq(S)
           /\ Len(s \o t) = Len(s) + Len(t)
           /\ \A i \in 1 .. Len(s) : (s \o t)[i] = s[i]
           /\ \A i \in 1 .. Len(t) : (s \o t)[Len(s) + i] = t[i]
  OBVIOUS

LEMMA Shift ==
    ASSUME NEW a \in Nat, NEW b \in Nat, NEW n \in Nat, 1 <= a, a <= b, b <= n
    PROVE  /\ (a - 1) + (n - b) = n - (b - a + 1)
           /\ \A i \in 1 .. (a - 1) + (n - b) :
                 IF i < a THEN i \in 1 .. a - 1
                 ELSE /\ i - (a - 1) \in 1 .. n - b
                      /\ i = (a - 1) + (i - (a - 1))
                      /\ b + (i - (a - 1)) = i + (b - a + 1)
  OBVIOUS

Cut(s, a, b) == SubSeq(s, 1, a - 1) \o SubSeq(s, b + 1, Len(s))

LEMMA Deleted ==
    ASSUME NEW S, NEW s \in Seq(S), NEW a \in 1 .. Len(s), NEW b \in 1 .. Len(s), a <= b
    PROVE  /\ Cut(s, a, b) \in Seq(S)
           /\ Len(Cut(s, a, b)) = Len(s) - (b - a + 1)
           /\ \A i \in 1 .. Len(Cut(s, a, b)) :
                 Cut(s, a, b)[i] = s[IF i < a THEN i ELSE i + (b - a + 1)]
  <1> DEFINE t == Cut(s, a, b)
  <1> DEFINE u == SubSeq(s, 1, a - 1)
             v == SubSeq(s, b + 1, Len(s))
  <1>1. Len(s) \in Nat /\ a \in Nat /\ b \in Nat /\ \A i \in 1 .. Len(s) : s[i] \in S
    OBVIOUS
  <1>2. u \in Seq(S) /\ Len(u) = a - 1 /\ \A i \in 1 .. a - 1 : u[i] = s[i]
    BY <1>1
  <1>3. /\ v \in Seq(S) /\ Len(v) = Len(s) - b
        /\ \A i \in 1 .. Len(s) - b : v[i] = s[b + i]
    BY <1>1
  <1> HIDE DEF u, v
  <1>a. t = u \o v
    BY DEF t, u, v, Cut
  <1> HIDE DEF t
  <1>b. /\ u \o v \in Seq(S)
        /\ Len(u \o v) = Len(u) + Len(v)
        /\ \A i \in 1 .. Len(u) : (u \o v)[i] = u[i]
        /\ \A i \in 1 .. Len(v) : (u \o v)[Len(u) + i] = v[i]
    <2>1. u \in Seq(S) /\ v \in Seq(S)
      BY <1>2, <1>3
    <2> QED
      BY <2>1, Appended
  <1>4. /\ t \in Seq(S) /\ Len(t) = (a - 1) + (Len(s) - b)
        /\ \A i \in 1 .. a - 1 : t[i] = u[i]
        /\ \A i \in 1 .. Len(s) - b : t[(a - 1) + i] = v[i]
    BY <1>2, <1>3, <1>a, <1>b
  <1>c. Len(s) \in Nat /\ a \in Nat /\ b \in Nat /\ 1 <= a /\ b <= Len(s)
    BY <1>1
  <1>d. /\ (a - 1) + (Len(s) - b) = Len(s) - (b - a + 1)
        /\ \A i \in 1 .. (a - 1) + (Len(s) - b) :
              IF i < a THEN i \in 1 .. a - 1
              ELSE /\ i - (a - 1) \in 1 .. Len(s) - b
                   /\ i = (a - 1) + (i - (a - 1))
                   /\ b + (i - (a - 1)) = i + (b - a + 1)
    BY <1>c, Shift
  <1>e. /\ Len(t) = (a - 1) + (Len(s) - b)
        /\ \A i \in 1 .. a - 1 : t[i] = s[i]
        /\ \A i \in 1 .. Len(s) - b : t[(a - 1) + i] = s[b + i]
    BY <1>2, <1>3, <1>4
  <1>5. ASSUME NEW i \in 1 .. Len(t)
        PROVE  t[i] = s[IF i < a THEN i ELSE i + (b - a + 1)]
    <2>1. CASE i < a
      BY <1>d, <1>e, <2>1, Zenon
    <2>2. CASE ~(i < a)
      <3>1. /\ i - (a - 1) \in 1 .. Len(s) - b
            /\ i = (a - 1) + (i - (a - 1))
            /\ b + (i - (a - 1)) = i + (b - a + 1)
        BY <1>d, <1>e, <2>2, Zenon
      <3>2. t[(a - 1) + (i - (a - 1))] = s[b + (i - (a - 1))]
        BY <1>e, <3>1, Zenon
      <3>3. t[i] = s[i + (b - a + 1)]
        BY <3>1, <3>2, Zenon
      <3> QED
        BY <2>2, <3>3, Zenon
    <2> QED
      BY <2>1, <2>2, Zenon
  <1> QED
    BY <1>4, <1>5, <1>d, Zenon DEF t

\* Where the pieces of the spool that Delete leaves were before.
LEMMA DeleteMoves ==
    ASSUME MailTypeOK, NEW a \in DOMAIN spool, NEW b \in DOMAIN spool, a <= b, Delete(a, b)
    PROVE  /\ spool' \in Seq(Mails \X Nat)
           /\ Len(spool) \in Nat /\ Len(spool') \in Nat
           /\ \A i \in 1 .. Len(spool') :
                 \E k \in 1 .. Len(spool) : k >= i /\ k \notin a .. b /\ spool'[i] = spool[k]
           /\ \A k \in 1 .. Len(spool) :
                 k \notin a .. b => \E i \in 1 .. Len(spool') : spool'[i] = spool[k]
  <1>1. PICK S : S = Mails \X Nat
    OBVIOUS
  <1>2. spool \in Seq(S) /\ a \in 1 .. Len(spool) /\ b \in 1 .. Len(spool)
    BY <1>1 DEF MailTypeOK
  <1> DEFINE D == b - a + 1
  <1>3. /\ spool' \in Seq(S)
        /\ Len(spool') = Len(spool) - D
        /\ \A i \in 1 .. Len(spool') : spool'[i] = spool[IF i < a THEN i ELSE i + D]
    <2>1. spool' = Cut(spool, a, b)
      BY DEF Delete, Cut
    <2>2. /\ Cut(spool, a, b) \in Seq(S)
          /\ Len(Cut(spool, a, b)) = Len(spool) - (b - a + 1)
          /\ \A i \in 1 .. Len(Cut(spool, a, b)) :
                Cut(spool, a, b)[i] = spool[IF i < a THEN i ELSE i + (b - a + 1)]
      BY <1>2, Deleted
    <2> QED
      BY <2>1, <2>2
  <1>4. /\ Len(spool) \in Nat /\ D \in Nat /\ D >= 1 /\ b = a + D - 1
        /\ a \in Nat /\ 1 <= a /\ b \in Nat /\ b <= Len(spool)
    BY <1>2
  <1>5. Len(spool') \in Nat
    BY <1>3, <1>4
  <1> HIDE DEF D
  <1>6. ASSUME NEW i \in 1 .. Len(spool')
        PROVE  \E k \in 1 .. Len(spool) : k >= i /\ k \notin a .. b /\ spool'[i] = spool[k]
    <2> DEFINE k == IF i < a THEN i ELSE i + D
    <2>0. Len(spool') = Len(spool) - D
      BY <1>3
    <2>1. k \in 1 .. Len(spool) /\ k >= i /\ k \notin a .. b
      BY <1>4, <1>5, <2>0
    <2>2. spool'[i] = spool[k]
      BY <1>3
    <2> QED
      BY <2>1, <2>2
  <1>7. ASSUME NEW k \in 1 .. Len(spool), k \notin a .. b
        PROVE  \E i \in 1 .. Len(spool') : spool'[i] = spool[k]
    <2> DEFINE i == IF k < a THEN k ELSE k - D
    <2>0. Len(spool') = Len(spool) - D
      BY <1>3
    <2>1. i \in 1 .. Len(spool') /\ (IF i < a THEN i ELSE i + D) = k
      BY <1>4, <1>5, <1>7, <2>0
    <2>2. spool'[i] = spool[IF i < a THEN i ELSE i + D]
      BY <1>3, <2>1
    <2> QED
      BY <2>1, <2>2
  <1> QED
    BY <1>1, <1>3, <1>4, <1>5, <1>6, <1>7

\* What Deliver appends.
LEMMA DeliverAppends ==
    ASSUME MailTypeOK, NEW m \in Mails, NEW n \in 1 .. Size[m], Deliver(m, n)
    PROVE  /\ spool' \in Seq(Mails \X Nat)
           /\ Len(spool') = Len(spool) + n
           /\ \A i \in 1 .. Len(spool) : spool'[i] = spool[i]
           /\ \A i \in 1 .. n : spool'[Len(spool) + i] = <<m, wrote[m] + i>>
  <1> DEFINE new == [i \in 1 .. n |-> <<m, wrote[m] + i>>]
  <1>1. n \in Nat /\ wrote[m] \in Nat
    BY MailAssumption DEF MailTypeOK
  <1>2. new \in Seq(Mails \X Nat) /\ Len(new) = n /\ \A i \in 1 .. n : new[i] = <<m, wrote[m] + i>>
    BY <1>1
  <1>3. spool' = spool \o new
    BY DEF Deliver
  <1>4. spool \in Seq(Mails \X Nat) /\ Len(spool) \in Nat
    BY DEF MailTypeOK
  <1> HIDE DEF new
  <1>5. PICK S : S = Mails \X Nat
    OBVIOUS
  <1>6. spool \in Seq(S) /\ new \in Seq(S)
    BY <1>2, <1>4, <1>5
  <1>7. /\ spool \o new \in Seq(S)
        /\ Len(spool \o new) = Len(spool) + Len(new)
        /\ \A i \in 1 .. Len(spool) : (spool \o new)[i] = spool[i]
        /\ \A i \in 1 .. Len(new) : (spool \o new)[Len(spool) + i] = new[i]
    BY <1>6, Appended
  <1> QED
    BY <1>2, <1>3, <1>5, <1>7

LEMMA MailStepTypes ==
    ASSUME MailTypeOK, MailStep
    PROVE  MailTypeOK'
  <1>1. ASSUME NEW p \in Paths, NEW known \in BOOLEAN, NEW ok \in BOOLEAN,
               ReadNew(p, known, ok)
        PROVE  MailTypeOK'
    <2>1. parseMbox(Pieces(FromOffset(p, known), Len(spool))) \subseteq Mails
      BY MailAssumption DEF parseMbox
    <2>2. pending' \subseteq Paths \X Mails
      BY <1>1, <2>1 DEF ReadNew
    <2>3. Len(spool) \in Nat
      BY DEF MailTypeOK
    <2>4. offset' \in [Paths -> Nat] /\ rereads' \in [Paths -> Nat]
      BY <1>1, <2>3 DEF ReadNew, MailTypeOK
    <2>5. excused' \subseteq Paths \X Mails
      BY <1>1 DEF ReadNew, MailTypeOK, Skipped, Unfinished
    <2> QED
      BY <1>1, <2>2, <2>4, <2>5 DEF ReadNew, MailTypeOK
  <1>2. ASSUME NEW k \in pending, NEW ok \in BOOLEAN, processMailMessage(k, ok)
        PROVE  MailTypeOK'
    <2>1. k \in Paths \X Mails /\ k[2] \in Mails
      BY DEF MailTypeOK
    <2>2. reported' \in [Paths \X Mails -> Nat]
      BY <1>2, <2>1 DEF processMailMessage, MailTypeOK
    <2> QED
      BY <1>2, <2>1, <2>2 DEF processMailMessage, MailTypeOK
  <1>3. ASSUME NEW p \in Paths, CannotRead(p)
        PROVE  MailTypeOK'
    BY <1>3 DEF CannotRead, MailTypeOK
  <1> QED
    BY <1>1, <1>2, <1>3 DEF MailStep

LEMMA MailTypes ==
    ASSUME MailTypeOK, [Next]_vars
    PROVE  MailTypeOK'
  <1>1. ASSUME UNCHANGED mailVars
        PROVE  MailTypeOK'
    BY <1>1 DEF mailVars, MailTypeOK
  <1>2. ASSUME NEW m \in Mails, NEW n \in 1 .. Size[m], Deliver(m, n)
        PROVE  MailTypeOK'
    <2>1. spool' \in Seq(Mails \X Nat)
      BY <1>2, DeliverAppends
    <2>2. wrote' \in [Mails -> Nat]
      BY <1>2, MailAssumption DEF Deliver, MailTypeOK
    <2> QED
      BY <1>2, <2>1, <2>2 DEF Deliver, MailTypeOK
  <1>a. ASSUME NEW a \in DOMAIN spool, NEW b \in DOMAIN spool, a <= b, Delete(a, b)
        PROVE  MailTypeOK'
    <2>1. spool' \in Seq(Mails \X Nat)
      BY <1>a, DeleteMoves
    <2> QED
      BY <1>a, <2>1 DEF Delete, MailTypeOK
  <1>3. ASSUME StartScan \/ ForgetMail
        PROVE  MailTypeOK'
    <2>2. CASE StartScan
      BY <2>2 DEF StartScan, MailTypeOK
    <2>3. CASE ForgetMail
      BY <2>3 DEF ForgetMail, MailTypeOK
    <2> QED
      BY <1>3, <2>2, <2>3
  <1>4. CASE World
    BY <1>1, <1>2, <1>a, <1>4 DEF World
  <1>5. CASE Crash \/ SubmitDiscovery \/ MailTick
    BY <1>1, <1>3, <1>5 DEF Crash, SubmitDiscovery, MailTick
  <1>6. CASE MailStep
    BY <1>6, MailStepTypes
  <1>7. CASE Start \/ runDiscovery \/ runProcessScan \/ MailDone \/ ProcessStep
             \/ ProcessDone \/ UNCHANGED vars
    BY <1>1, <1>7 DEF Start, runDiscovery, runProcessScan, MailDone, ProcessStep,
                      ProcessDone, vars
  <1> QED
    BY <1>4, <1>5, <1>6, <1>7 DEF Next, Handler

LEMMA LoopTypes ==
    ASSUME LoopTypeOK, [Next]_vars
    PROVE  LoopTypeOK'
  <1>a. \A b : Costs(b) => Event \/ UNCHANGED world
    BY DEF Costs
  <1>b. Event \/ UNCHANGED world
    BY <1>a DEF Next, Handler, World, Crash, Start, runDiscovery, SubmitDiscovery,
           MailTick, MailStep, MailDone, runProcessScan, ProcessStep, ProcessDone,
           vars, loopVars
  <1>1. world' \in 0 .. MaxWorld
    BY <1>b, ObservationAssumption DEF LoopTypeOK, Event
  <1>2. crontab' \in Crontabs
    BY DEF LoopTypeOK, Next, Handler, World, Crash, Start, runDiscovery, SubmitDiscovery,
           MailTick, MailStep, MailDone, runProcessScan, ProcessStep, ProcessDone,
           EditCrontab, UpdateKnown, ProcessDiscovery, ForgetJobs, vars, cronVars
  <1>3. pc' \in {"down", "boot", "bootsubmit", "submit", "mail", "scan", "idle"}
    BY DEF LoopTypeOK, Next, Handler, World, Crash, Start, runDiscovery, SubmitDiscovery,
           MailTick, MailStep, MailDone, runProcessScan, ProcessStep, ProcessDone,
           vars, loopVars
  <1>4. disturbed' \in BOOLEAN
    BY DEF LoopTypeOK, Next, Handler, World, Crash, Start, runDiscovery, SubmitDiscovery,
           MailTick, MailStep, MailDone, runProcessScan, ProcessStep, ProcessDone,
           vars, loopVars
  <1> QED
    BY <1>1, <1>2, <1>3, <1>4 DEF LoopTypeOK

LEMMA MailTypeInvariant == Spec => []MailTypeOK
  <1>1. Init => MailTypeOK
    BY DEF Init, MailInit, MailTypeOK
  <1> QED
    BY <1>1, MailTypes, PTL DEF Spec

\* The state of the crontabs, the processes, the mail and the loop keeps its type.
THEOREM TypeCorrect == Spec => []TypeOK
  <1>1. Init => LoopTypeOK
    <2>1. Init => world \in 0 .. MaxWorld
      BY ObservationAssumption DEF Init
    <2>2. Init => disturbed \in BOOLEAN /\ crontab \in Crontabs /\ pc = "down"
      BY DEF Init, CronInit
    <2> QED
      BY <2>1, <2>2 DEF LoopTypeOK
  <1>2. LoopTypeOK /\ [Next]_vars => LoopTypeOK'
    BY LoopTypes
  <1>3. ScanInv /\ MailTypeOK /\ LoopTypeOK => TypeOK
    BY DEF ScanInv, ProcTypeOK, MailTypeOK, LoopTypeOK, TypeOK
  <1> QED
    BY <1>1, <1>2, <1>3, ScanInvariant, MailTypeInvariant, PTL DEF Spec

-----------------------------------------------------------------------------
(* Mail.                                                                   *)

InSpool == Pieces(0, Len(spool))

\* What has been written of a message is in the spool or has been deleted,
\* all of it; a message that is still being written has not been.
SpoolOK ==
    \A m \in Mails :
        /\ wrote[m] <= Size[m]
        /\ \A i \in Nat : <<m, i>> \in InSpool => i \in 1 .. wrote[m]
        /\ m \in Unfinished \/ (\E i \in Nat : <<m, i>> \in InSpool) =>
               \A i \in 1 .. wrote[m] : <<m, i>> \in InSpool

\* An offset of this file is within it.
OffsetsOK == \A p \in Paths : p \notin stale => offset[p] <= Len(spool)

\* A message that an offset of this file divides was cut by a read.
CutOK ==
    \A p \in Paths, m \in Mails :
        /\ p \notin stale
        /\ \E i \in 1 .. Size[m] : <<m, i>> \in Pieces(0, offset[p])
        /\ ~Within(m, offset[p])
        => <<p, m>> \in excused

\* A message that an offset of this file has passed is reported or excused.
PassedOK ==
    \A p \in Paths, m \in CronMails :
        p \notin stale /\ Within(m, offset[p]) =>
            reported[<<p, m>>] > 0 \/ <<p, m>> \in pending \cup excused

\* The message is beyond the offset.
Ahead(p, m) == wrote[m] = 0 \/ <<m, 1>> \in Pieces(offset[p], Len(spool))

\* A message that was read is reported once or waits to be, and a path that
\* has read it does not find it again unless it reads the file from its start.
Bit(b) == IF b THEN 1 ELSE 0
OnceOK ==
    \A p \in Paths, m \in Mails :
        reported[<<p, m>>] + Bit(<<p, m>> \in pending) + Bit(Ahead(p, m))
            <= 1 + rereads[p]

MailInv == MailTypeOK /\ SpoolOK /\ OffsetsOK /\ CutOK /\ PassedOK /\ OnceOK

\* What the steps that leave the spool alone leave alone.
LEMMA SpoolKept ==
    ASSUME spool' = spool, wrote' = wrote
    PROVE  /\ SpoolOK => SpoolOK'
           /\ \A a, b : Pieces(a, b)' = Pieces(a, b)
  <1>1. InSpool' = InSpool /\ Unfinished' = Unfinished
    BY DEF InSpool, Pieces, Unfinished
  <1> QED
    BY <1>1 DEF SpoolOK, Pieces

LEMMA PathKept ==
    ASSUME MailInv, NEW p \in Paths, spool' = spool, wrote' = wrote, offset'[p] = offset[p]
    PROVE  \A m \in Mails : /\ Within(m, offset[p])' <=> Within(m, offset[p])
                            /\ Ahead(p, m)' <=> Ahead(p, m)
                            /\ Pieces(0, offset[p])' = Pieces(0, offset[p])
  BY DEF Within, Ahead, Pieces

\* Only the events change: what was pending is reported or excused.
LEMMA EventsStep ==
    ASSUME MailInv, MailTypeOK', UNCHANGED <<spool, wrote, offset, rereads, stale>>,
           excused \subseteq excused',
           \A p \in Paths, m \in Mails :
               /\ reported[<<p, m>>] <= reported'[<<p, m>>]
               /\ \/ <<p, m>> \in pending
                  \/ reported'[<<p, m>>] = reported[<<p, m>>] /\ <<p, m>> \notin pending'
               /\ <<p, m>> \in pending =>
                     \/ <<p, m>> \in pending' /\ reported'[<<p, m>>] = reported[<<p, m>>]
                     \/ <<p, m>> \notin pending' /\ <<p, m>> \in excused'
                        /\ reported'[<<p, m>>] = reported[<<p, m>>]
                     \/ <<p, m>> \notin pending' /\ reported'[<<p, m>>] = reported[<<p, m>>] + 1
    PROVE  MailInv'
  <1> USE DEF MailInv
  <1>1. SpoolOK' /\ OffsetsOK'
    BY SpoolKept DEF OffsetsOK
  <1>2. CutOK'
    <2> SUFFICES ASSUME NEW p \in Paths, NEW m \in Mails, p \notin stale,
                        (\E i \in 1 .. Size[m] : <<m, i>> \in Pieces(0, offset[p]))',
                        ~Within(m, offset[p])'
                 PROVE  <<p, m>> \in excused'
      BY DEF CutOK
    <2> QED
      BY PathKept DEF CutOK
  <1>3. PassedOK'
    <2> SUFFICES ASSUME NEW p \in Paths, NEW m \in CronMails, p \notin stale,
                        Within(m, offset[p])'
                 PROVE  reported'[<<p, m>>] > 0 \/ <<p, m>> \in pending' \cup excused'
      BY DEF PassedOK
    <2>1. m \in Mails
      BY MailAssumption
    <2>2. reported[<<p, m>>] > 0 \/ <<p, m>> \in pending \cup excused
      BY <2>1, PathKept DEF PassedOK
    <2>3. reported[<<p, m>>] \in Nat /\ reported'[<<p, m>>] \in Nat
      BY <2>1 DEF MailTypeOK
    <2> QED
      BY <2>1, <2>2, <2>3
  <1>4. OnceOK'
    <2> SUFFICES ASSUME NEW p \in Paths, NEW m \in Mails
                 PROVE  (reported[<<p, m>>] + Bit(<<p, m>> \in pending) + Bit(Ahead(p, m))
                           <= 1 + rereads[p])'
      BY DEF OnceOK
    <2>1. Ahead(p, m)' <=> Ahead(p, m)
      BY PathKept
    <2>2. reported[<<p, m>>] \in Nat /\ reported'[<<p, m>>] \in Nat /\ rereads[p] \in Nat
      BY DEF MailTypeOK
    <2>3. reported[<<p, m>>] + Bit(<<p, m>> \in pending) + Bit(Ahead(p, m)) <= 1 + rereads[p]
      BY DEF OnceOK
    <2> QED
      BY <2>1, <2>2, <2>3 DEF Bit
  <1> QED
    BY <1>1, <1>2, <1>3, <1>4

\* The pieces of a whole file are those at its positions.
LEMMA WholeFile ==
    ASSUME NEW s, NEW n \in Nat
    PROVE  \A x : x \in {s[i] : i \in 0 + 1 .. n} <=> \E k \in 1 .. n : x = s[k]
  <1>1. 0 + 1 .. n = 1 .. n
    OBVIOUS
  <1>2. \A x : x \in {s[i] : i \in 1 .. n} <=> \E k \in 1 .. n : x = s[k]
    BY Zenon
  <1> QED
    BY <1>1, <1>2, Zenon

LEMMA DeleteStep ==
    ASSUME MailInv, MailTypeOK', NEW a \in DOMAIN spool, NEW b \in DOMAIN spool, a <= b,
           Delete(a, b)
    PROVE  MailInv'
  <1> USE DEF MailInv
  <1>1. /\ Len(spool) \in Nat /\ Len(spool') \in Nat
        /\ \A i \in 1 .. Len(spool') :
              \E k \in 1 .. Len(spool) : k >= i /\ k \notin a .. b /\ spool'[i] = spool[k]
        /\ \A k \in 1 .. Len(spool) :
              k \notin a .. b => \E i \in 1 .. Len(spool') : spool'[i] = spool[k]
    BY DeleteMoves
  <1>2. /\ UNCHANGED <<wrote, offset, pending, reported, rereads>>
        /\ stale' = Paths /\ Unfinished = {}
        /\ \A i \in 1 .. Len(spool), j \in a .. b :
              spool[i][1] = spool[j][1] => i \in a .. b
    <2>1. DOMAIN spool = 1 .. Len(spool)
      BY DEF MailTypeOK
    <2> QED
      BY <2>1 DEF Delete
  <1>3. \A x : x \in InSpool <=> \E k \in 1 .. Len(spool) : x = spool[k]
    <2>1. Len(spool) \in Nat
      BY <1>1
    <2> QED
      BY ONLY <2>1, WholeFile, Zenon DEF InSpool, Pieces
  <1>4. \A x : x \in InSpool' <=> \E i \in 1 .. Len(spool') : x = spool'[i]
    <2>1. Len(spool') \in Nat
      BY <1>1
    <2> QED
      BY ONLY <2>1, WholeFile, Zenon DEF InSpool, Pieces
  <1>5. SpoolOK'
    <2> SUFFICES ASSUME NEW m \in Mails
                 PROVE  /\ wrote[m] <= Size[m]
                        /\ \A i \in Nat : <<m, i>> \in InSpool' => i \in 1 .. wrote[m]
                        /\ m \in Unfinished' \/ (\E i \in Nat : <<m, i>> \in InSpool') =>
                             \A i \in 1 .. wrote[m] : <<m, i>> \in InSpool'
      BY <1>2 DEF SpoolOK
    <2>1. m \notin Unfinished'
      BY <1>2 DEF Unfinished
    <2>2. ASSUME NEW i \in Nat, <<m, i>> \in InSpool'
          PROVE  \E k \in 1 .. Len(spool) : k \notin a .. b /\ spool[k] = <<m, i>>
      <3>1. PICK j \in 1 .. Len(spool') : <<m, i>> = spool'[j]
        BY <1>4, <2>2
      <3>2. PICK k \in 1 .. Len(spool) : k \notin a .. b /\ spool'[j] = spool[k]
        BY <1>1
      <3> QED
        BY <3>1, <3>2
    <2>3. ASSUME NEW i \in Nat, <<m, i>> \in InSpool', NEW j \in 1 .. wrote[m]
          PROVE  <<m, j>> \in InSpool'
      <3>1. PICK k \in 1 .. Len(spool) : k \notin a .. b /\ spool[k] = <<m, i>>
        BY <2>2, <2>3
      <3>2. <<m, i>> \in InSpool
        BY <1>3, <3>1
      <3>3. <<m, j>> \in InSpool
        BY <2>3, <3>2 DEF SpoolOK
      <3>4. PICK l \in 1 .. Len(spool) : spool[l] = <<m, j>>
        BY <1>3, <3>3
      <3>5. spool[k][1] = spool[l][1]
        BY <3>1, <3>4
      <3>6. l \notin a .. b
        BY <1>2, <3>1, <3>5
      <3> QED
        BY <1>1, <1>4, <3>4, <3>6
    <2>4. ASSUME NEW i \in Nat, <<m, i>> \in InSpool'
          PROVE  i \in 1 .. wrote[m]
      <3>1. <<m, i>> \in InSpool
        BY <1>3, <2>2, <2>4
      <3> QED
        BY <3>1 DEF SpoolOK
    <2>5. wrote[m] <= Size[m]
      BY DEF SpoolOK
    <2> QED
      BY <2>1, <2>3, <2>4, <2>5
  <1>6. OffsetsOK' /\ CutOK' /\ PassedOK'
    BY <1>2 DEF OffsetsOK, CutOK, PassedOK
  <1>7. OnceOK'
    <2> SUFFICES ASSUME NEW p \in Paths, NEW m \in Mails
                 PROVE  (reported[<<p, m>>] + Bit(<<p, m>> \in pending) + Bit(Ahead(p, m))
                           <= 1 + rereads[p])'
      BY DEF OnceOK
    <2>1. Ahead(p, m)' => Ahead(p, m)
      <3> SUFFICES ASSUME Ahead(p, m)', wrote[m] # 0
                   PROVE  <<m, 1>> \in Pieces(offset[p], Len(spool))
        BY DEF Ahead
      <3>1. PICK i \in offset[p] + 1 .. Len(spool') : <<m, 1>> = spool'[i]
        BY <1>2 DEF Ahead, Pieces
      <3>2. offset[p] \in Nat /\ i \in 1 .. Len(spool')
        BY <1>1 DEF MailTypeOK
      <3>3. PICK k \in 1 .. Len(spool) : k >= i /\ spool'[i] = spool[k]
        BY <1>1, <3>2
      <3>4. k \in offset[p] + 1 .. Len(spool)
        BY <1>1, <3>1, <3>2, <3>3
      <3> QED
        BY <3>1, <3>3, <3>4 DEF Pieces
    <2>2. reported[<<p, m>>] \in Nat /\ rereads[p] \in Nat
      BY DEF MailTypeOK
    <2>3. reported[<<p, m>>] + Bit(<<p, m>> \in pending) + Bit(Ahead(p, m)) <= 1 + rereads[p]
      BY DEF OnceOK
    <2> QED
      BY <1>2, <2>1, <2>2, <2>3 DEF Bit
  <1> QED
    BY <1>5, <1>6, <1>7

LEMMA DeliverStep ==
    ASSUME MailInv, MailTypeOK', NEW m \in Mails, NEW n \in 1 .. Size[m], Deliver(m, n)
    PROVE  MailInv'
  <1> USE DEF MailInv
  <1> DEFINE N == Len(spool)
  <1>1. /\ N \in Nat /\ n \in Nat /\ n >= 1 /\ Size[m] \in Nat
        /\ \A x \in Mails : wrote[x] \in Nat
        /\ \A p \in Paths : offset[p] \in Nat
    BY MailAssumption DEF MailTypeOK
  <1>2. /\ Len(spool') = N + n
        /\ \A i \in 1 .. N : spool'[i] = spool[i]
        /\ \A i \in 1 .. n : spool'[N + i] = <<m, wrote[m] + i>>
    BY DeliverAppends
  <1>3. /\ wrote[m] + n <= Size[m] /\ Unfinished \subseteq {m}
        /\ wrote'[m] = wrote[m] + n
        /\ \A x \in Mails \ {m} : wrote'[x] = wrote[x]
        /\ UNCHANGED <<offset, pending, reported, rereads, stale, excused>>
    BY DEF Deliver, MailTypeOK
  <1> HIDE DEF N
  <1>4. ASSUME NEW x
        PROVE  x \in InSpool' <=> x \in InSpool \/ \E i \in 1 .. n : x = <<m, wrote[m] + i>>
    <2>1. x \in InSpool' <=> \E i \in 1 .. N + n : x = spool'[i]
      BY <1>1, <1>2 DEF InSpool, Pieces
    <2>2. x \in InSpool <=> \E i \in 1 .. N : x = spool[i]
      BY <1>1 DEF InSpool, Pieces, N
    <2>3. ASSUME NEW i \in 1 .. N + n, x = spool'[i]
          PROVE  x \in InSpool \/ \E j \in 1 .. n : x = <<m, wrote[m] + j>>
      <3>1. CASE i \in 1 .. N
        BY <1>2, <2>2, <2>3, <3>1
      <3>2. CASE i \notin 1 .. N
        <4>1. i - N \in 1 .. n /\ i = N + (i - N)
          BY <1>1, <3>2
        <4> QED
          BY <1>2, <2>3, <4>1
      <3> QED
        BY <3>1, <3>2
    <2>4. ASSUME NEW j \in 1 .. n, x = <<m, wrote[m] + j>>
          PROVE  x \in InSpool'
      <3>1. N + j \in 1 .. N + n
        BY <1>1
      <3> QED
        BY <1>2, <2>1, <2>4, <3>1
    <2>5. \A i \in 1 .. N : i \in 1 .. N + n
      BY <1>1
    <2> QED
      BY <1>2, <2>1, <2>2, <2>3, <2>4, <2>5
  <1>5. SpoolOK'
    <2> SUFFICES ASSUME NEW x \in Mails
                 PROVE  /\ wrote'[x] <= Size[x]
                        /\ \A i \in Nat : <<x, i>> \in InSpool' => i \in 1 .. wrote'[x]
                        /\ x \in Unfinished' \/ (\E i \in Nat : <<x, i>> \in InSpool') =>
                             \A i \in 1 .. wrote'[x] : <<x, i>> \in InSpool'
      BY DEF SpoolOK
    <2>1. CASE x # m
      <3>1. wrote'[x] = wrote[x] /\ (x \in Unfinished' <=> x \in Unfinished)
        BY <1>3, <2>1 DEF Unfinished
      <3>2. \A i : <<x, i>> \in InSpool' <=> <<x, i>> \in InSpool
        BY <1>4, <2>1
      <3> QED
        BY <3>1, <3>2 DEF SpoolOK
    <2>2. CASE x = m
      <3>1. wrote[m] > 0 => m \in Unfinished
        BY <1>1, <1>3 DEF Unfinished
      <3>2. ASSUME NEW i \in 1 .. wrote'[m]
            PROVE  <<m, i>> \in InSpool'
        <4>1. CASE i <= wrote[m]
          BY <1>1, <1>3, <1>4, <3>1, <4>1 DEF SpoolOK
        <4>2. CASE i > wrote[m]
          <5>1. i - wrote[m] \in 1 .. n /\ i = wrote[m] + (i - wrote[m])
            BY <1>1, <1>3, <4>2
          <5> QED
            BY <1>4, <5>1
        <4> QED
          BY <1>1, <1>3, <4>1, <4>2
      <3>3. ASSUME NEW i \in Nat, <<m, i>> \in InSpool'
            PROVE  i \in 1 .. wrote'[m]
        <4>1. CASE <<m, i>> \in InSpool
          <5>1. i \in 1 .. wrote[m]
            BY <4>1 DEF SpoolOK
          <5> QED
            BY <1>1, <1>3, <5>1
        <4>2. CASE \E j \in 1 .. n : <<m, i>> = <<m, wrote[m] + j>>
          BY <1>1, <1>3, <4>2
        <4> QED
          BY <1>4, <3>3, <4>1, <4>2
      <3> QED
        BY <1>3, <2>2, <3>2, <3>3
    <2> QED
      BY <2>1, <2>2
  <1>6. OffsetsOK'
    BY <1>1, <1>2, <1>3 DEF OffsetsOK, N
  <1>7. ASSUME NEW p \in Paths, p \notin stale
        PROVE  /\ Pieces(0, offset[p])' = Pieces(0, offset[p])
               /\ \A x : Within(x, offset[p])' <=> Within(x, offset[p])
    <2>1. offset[p] <= N /\ offset'[p] = offset[p]
      BY <1>3, <1>7 DEF OffsetsOK, N
    <2>2. \A i \in 0 + 1 .. offset[p] : i \in 1 .. N
      BY <1>1, <2>1
    <2>3. Pieces(0, offset[p])' = Pieces(0, offset[p])
      BY <1>2, <2>1, <2>2 DEF Pieces
    <2> QED
      BY <2>3 DEF Within
  <1>8. CutOK'
    BY <1>3, <1>7 DEF CutOK
  <1>9. PassedOK'
    BY <1>3, <1>7 DEF PassedOK
  <1>10. ASSUME NEW p \in Paths, NEW x \in Mails, Ahead(p, x)'
         PROVE  Ahead(p, x)
    <2> SUFFICES ASSUME wrote[x] # 0
                 PROVE  <<x, 1>> \in Pieces(offset[p], Len(spool))
      BY DEF Ahead
    <2>1. wrote'[x] # 0
      BY <1>1, <1>3
    <2>2. PICK i \in offset[p] + 1 .. N + n : <<x, 1>> = spool'[i]
      BY <1>2, <1>3, <1>10, <2>1 DEF Ahead, Pieces
    <2>3. offset[p] \in Nat
      BY <1>1
    <2>4. i \in 1 .. N
      <3> SUFFICES ASSUME i \notin 1 .. N PROVE FALSE
        OBVIOUS
      <3>1. i - N \in 1 .. n /\ i = N + (i - N)
        BY <1>1, <2>3
      <3>2. <<x, 1>> = <<m, wrote[m] + (i - N)>>
        BY <1>2, <2>2, <3>1
      <3> QED
        BY <1>1, <3>1, <3>2
    <2>5. i \in offset[p] + 1 .. Len(spool) /\ spool[i] = <<x, 1>>
      BY <1>1, <1>2, <2>2, <2>3, <2>4 DEF N
    <2> QED
      BY <2>5 DEF Pieces
  <1>11. OnceOK'
    <2> SUFFICES ASSUME NEW p \in Paths, NEW x \in Mails
                 PROVE  (reported[<<p, x>>] + Bit(<<p, x>> \in pending) + Bit(Ahead(p, x))
                           <= 1 + rereads[p])'
      BY DEF OnceOK
    <2>1. reported[<<p, x>>] \in Nat /\ rereads[p] \in Nat
      BY DEF MailTypeOK
    <2>2. reported[<<p, x>>] + Bit(<<p, x>> \in pending) + Bit(Ahead(p, x)) <= 1 + rereads[p]
      BY DEF OnceOK
    <2> QED
      BY <1>3, <1>10, <2>1, <2>2 DEF Bit
  <1> QED
    BY <1>5, <1>6, <1>8, <1>9, <1>11

\* A read that saves its offset passes every message in the spool, and each
\* was read now, dealt with before, or is excused by this read.
LEMMA ReadPasses ==
    ASSUME MailInv, NEW p \in Paths, NEW known, ReadNew(p, known, TRUE),
           known \/ Changes(p, known), NEW m \in CronMails, Within(m, Len(spool))
    PROVE  reported[<<p, m>>] > 0 \/ <<p, m>> \in pending' \cup excused'
  <1> USE DEF MailInv
  <1>1. m \in Mails /\ Size[m] \in Nat /\ Size[m] >= 3
    BY MailAssumption
  <1>2. Len(spool) \in Nat /\ offset[p] \in Nat /\ FromOffset(p, known) \in {0, offset[p]}
    BY DEF MailTypeOK, FromOffset
  <1>3. \A i \in 1 .. Size[m] : \E k \in 1 .. Len(spool) : spool[k] = <<m, i>>
    <2>1. \A i \in 1 .. Size[m] : <<m, i>> \in Pieces(0, Len(spool))
      BY DEF Within
    <2>2. ASSUME NEW x \in Pieces(0, Len(spool))
          PROVE  \E k \in 1 .. Len(spool) : spool[k] = x
      BY <1>2 DEF Pieces
    <2> QED
      BY <2>1, <2>2
  <1>4. CASE \A i \in 1 .. Size[m] : <<m, i>> \in Pieces(FromOffset(p, known), Len(spool))
    <2>1. 1 \in 1 .. Size[m] /\ 2 \in 1 .. Size[m]
      BY <1>1
    <2>2. m \in parseMbox(Pieces(FromOffset(p, known), Len(spool)))
      BY <1>4, <2>1 DEF parseMbox
    <2> QED
      BY <2>2 DEF ReadNew
  <1>5. CASE \E i \in 1 .. Size[m] : <<m, i>> \notin Pieces(FromOffset(p, known), Len(spool))
    <2>1. PICK i \in 1 .. Size[m] : <<m, i>> \notin Pieces(FromOffset(p, known), Len(spool))
      BY <1>5
    <2>2. PICK k \in 1 .. Len(spool) : spool[k] = <<m, i>>
      BY <1>3
    <2>3. k \notin FromOffset(p, known) + 1 .. Len(spool)
      BY <2>1, <2>2 DEF Pieces
    <2>4. /\ known /\ offset[p] <= Len(spool)
          /\ k \in 0 + 1 .. offset[p]
      BY <1>2, <2>3 DEF FromOffset
    <2>5. <<m, i>> \in Pieces(0, offset[p])
      BY <2>2, <2>4 DEF Pieces
    <2>6. CASE p \in stale
      <3>1. m \in Skipped(p, known)
        BY <1>1, <2>4, <2>5, <2>6 DEF Skipped
      <3> QED
        BY <3>1 DEF ReadNew
    <2>7. CASE p \notin stale /\ Within(m, offset[p])
      <3>1. pending = {} /\ excused \subseteq excused'
        BY DEF ReadNew
      <3> QED
        BY <2>7, <3>1 DEF PassedOK
    <2>8. CASE p \notin stale /\ ~Within(m, offset[p])
      <3>1. <<p, m>> \in excused
        BY <1>1, <2>5, <2>8 DEF CutOK
      <3> QED
        BY <3>1 DEF ReadNew
    <2> QED
      BY <2>6, <2>7, <2>8
  <1> QED
    BY <1>4, <1>5

LEMMA ReadStep ==
    ASSUME MailInv, MailTypeOK', NEW p \in Paths, NEW known \in BOOLEAN,
           NEW saved \in BOOLEAN, ReadNew(p, known, saved)
    PROVE  MailInv'
  <1> USE DEF MailInv
  <1> DEFINE ok == saved /\ (known \/ Changes(p, known))
  <1>1. /\ UNCHANGED <<spool, wrote, reported>>
        /\ pending = {} /\ excused \subseteq excused'
        /\ offset' = [offset EXCEPT ![p] = IF ok THEN Len(spool) ELSE @]
        /\ stale' = IF ok THEN stale \ {p} ELSE stale
        /\ rereads' = IF ok /\ FromOffset(p, known) = offset[p] THEN rereads
                      ELSE [rereads EXCEPT ![p] = @ + 1]
        /\ pending' = {p} \X parseMbox(Pieces(FromOffset(p, known), Len(spool)))
    BY DEF ReadNew
  <1>2. \A q \in Paths : q # p \/ ~ok => offset'[q] = offset[q] /\ (q \in stale' <=> q \in stale)
    BY <1>1 DEF MailTypeOK
  <1>3. ok => offset'[p] = Len(spool) /\ p \notin stale'
    BY <1>1 DEF MailTypeOK
  <1> HIDE DEF ok
  <1>4. SpoolOK'
    BY <1>1, SpoolKept
  <1>5. OffsetsOK'
    BY <1>1, <1>2, <1>3 DEF OffsetsOK, MailTypeOK
  <1>6. CutOK'
    <2> SUFFICES ASSUME NEW q \in Paths, NEW m \in Mails, q \notin stale',
                        (\E i \in 1 .. Size[m] : <<m, i>> \in Pieces(0, offset[q]))',
                        ~Within(m, offset[q])'
                 PROVE  <<q, m>> \in excused'
      BY DEF CutOK
    <2>1. CASE q # p \/ ~ok
      BY <1>1, <1>2, <2>1, PathKept DEF CutOK
    <2>2. CASE q = p /\ ok
      <3>1. Pieces(0, offset[p])' = InSpool
        BY <1>1, <1>3, <2>2 DEF InSpool, Pieces
      <3>2. PICK i \in 1 .. Size[m] : <<m, i>> \in InSpool
        BY <2>2, <3>1
      <3>3. ~\A j \in 1 .. Size[m] : <<m, j>> \in InSpool
        BY <2>2, <3>1 DEF Within
      <3>4. Size[m] \in Nat /\ wrote[m] \in Nat
        BY MailAssumption DEF MailTypeOK
      <3>5. i \in 1 .. wrote[m] /\ wrote[m] <= Size[m]
        BY <3>2, <3>4 DEF SpoolOK
      <3>6. \A j \in 1 .. wrote[m] : <<m, j>> \in InSpool
        BY <3>2, <3>4 DEF SpoolOK
      <3>7. m \in Unfinished
        BY <3>3, <3>4, <3>5, <3>6 DEF Unfinished
      <3> QED
        BY <2>2, <3>7 DEF ReadNew, ok
    <2> QED
      BY <2>1, <2>2
  <1>7. PassedOK'
    <2> SUFFICES ASSUME NEW q \in Paths, NEW m \in CronMails, q \notin stale',
                        Within(m, offset[q])'
                 PROVE  reported[<<q, m>>] > 0 \/ <<q, m>> \in pending' \cup excused'
      BY <1>1 DEF PassedOK
    <2>1. CASE q # p \/ ~ok
      BY <1>1, <1>2, <2>1, PathKept, MailAssumption DEF PassedOK
    <2>2. CASE q = p /\ ok
      <3>1. Within(m, Len(spool))
        BY <1>1, <1>3, <2>2 DEF Within, Pieces
      <3> QED
        BY <2>2, <3>1, ReadPasses DEF ok
    <2> QED
      BY <2>1, <2>2
  <1>8. OnceOK'
    <2> SUFFICES ASSUME NEW q \in Paths, NEW m \in Mails
                 PROVE  (reported[<<q, m>>] + Bit(<<q, m>> \in pending) + Bit(Ahead(q, m))
                           <= 1 + rereads[q])'
      BY DEF OnceOK
    <2>1. reported[<<q, m>>] \in Nat /\ rereads[q] \in Nat
      BY DEF MailTypeOK
    <2>2. reported[<<q, m>>] + Bit(Ahead(q, m)) <= 1 + rereads[q]
      BY <1>1, <2>1 DEF OnceOK, Bit
    <2>a. Len(spool) \in Nat /\ offset[p] \in Nat /\ FromOffset(p, known) \in {0, offset[p]}
      BY DEF MailTypeOK, FromOffset
    <2>3. CASE q # p
      <3>1. <<q, m>> \notin pending' /\ (Ahead(q, m)' <=> Ahead(q, m))
        BY <1>1, <1>2, <2>3, PathKept
      <3>2. rereads'[q] = rereads[q]
        BY <1>1, <2>3 DEF MailTypeOK
      <3> QED
        BY <1>1, <2>1, <2>2, <3>1, <3>2 DEF Bit
    <2>4. CASE q = p /\ ~(ok /\ FromOffset(p, known) = offset[p])
      <3>1. rereads'[p] = rereads[p] + 1
        BY <1>1, <2>4 DEF MailTypeOK
      <3>2. Ahead(q, m)' => Ahead(q, m)
        <4>1. CASE ~ok
          BY <1>1, <1>2, <2>4, <4>1, PathKept
        <4>2. CASE ok
          <5>1. Pieces(offset[p], Len(spool))' = {}
            BY <1>1, <1>3, <2>a, <4>2 DEF Pieces
          <5> QED
            BY <1>1, <2>4, <5>1 DEF Ahead
        <4> QED
          BY <4>1, <4>2
      <3> QED
        BY <1>1, <2>1, <2>2, <2>4, <3>1, <3>2 DEF Bit
    <2>5. CASE q = p /\ ok /\ FromOffset(p, known) = offset[p]
      <3>1. <<q, m>> \in pending' => Ahead(q, m) /\ wrote[m] # 0
        <4>1. <<q, m>> \in pending' => <<m, 1>> \in Pieces(offset[p], Len(spool))
          BY <1>1, <2>5 DEF parseMbox
        <4>2. <<m, 1>> \in Pieces(offset[p], Len(spool)) => <<m, 1>> \in InSpool
          BY <2>a DEF InSpool, Pieces
        <4>3. <<m, 1>> \in InSpool => wrote[m] # 0
          BY DEF SpoolOK, MailTypeOK
        <4> QED
          BY <2>5, <4>1, <4>2, <4>3 DEF Ahead
      <3>2. Ahead(q, m)' <=> wrote[m] = 0
        <4>1. Pieces(offset[p], Len(spool))' = {}
          BY <1>1, <1>3, <2>a, <2>5 DEF Pieces
        <4> QED
          BY <1>1, <2>5, <4>1 DEF Ahead
      <3>3. wrote[m] = 0 => Ahead(q, m)
        BY DEF Ahead
      <3>4. rereads' = rereads
        BY <1>1, <2>5
      <3> QED
        BY <1>1, <2>1, <2>2, <2>5, <3>1, <3>2, <3>3, <3>4 DEF Bit
    <2> QED
      BY <2>3, <2>4, <2>5
  <1> QED
    BY <1>4, <1>5, <1>6, <1>7, <1>8

LEMMA MailInvStep ==
    ASSUME MailInv, [Next]_vars
    PROVE  MailInv'
  <1>1. MailTypeOK /\ MailTypeOK'
    BY MailTypes DEF MailInv
  <1>2. ASSUME UNCHANGED mailVars \/ StartScan
        PROVE  MailInv'
    <2>1. UNCHANGED <<spool, wrote, offset, pending, reported, rereads, stale, excused>>
      BY <1>2 DEF mailVars, StartScan
    <2> QED
      BY <1>1, <2>1, EventsStep DEF MailTypeOK
  <1>3. ASSUME ForgetMail \/ \E p \in Paths : CannotRead(p)
        PROVE  MailInv'
    <2>1. CASE ForgetMail
      BY <1>1, <2>1, EventsStep DEF ForgetMail, MailTypeOK
    <2>2. CASE \E p \in Paths : CannotRead(p)
      BY <1>1, <2>2, EventsStep DEF CannotRead, MailTypeOK
    <2> QED
      BY <1>3, <2>1, <2>2
  <1>4. ASSUME NEW k \in pending, NEW ok \in BOOLEAN, processMailMessage(k, ok)
        PROVE  MailInv'
    <2>1. k \in Paths \X Mails
      BY <1>1 DEF MailTypeOK
    <2>2. /\ UNCHANGED <<spool, wrote, offset, rereads, stale>>
          /\ pending' = pending \ {k} /\ excused \subseteq excused'
          /\ reported' = IF ok THEN [reported EXCEPT ![k] = @ + 1] ELSE reported
          /\ ~ok => k \in excused'
      BY <1>4 DEF processMailMessage
    <2>3. \A c \in Paths \X Mails :
             reported'[c] = IF ok /\ c = k THEN reported[c] + 1 ELSE reported[c]
      BY <1>1, <2>1, <2>2 DEF MailTypeOK
    <2>4. \A c \in Paths \X Mails : reported[c] \in Nat
      BY <1>1 DEF MailTypeOK
    <2> QED
      BY <1>1, <2>1, <2>2, <2>3, <2>4, EventsStep
  <1>5. CASE World
    BY <1>1, <1>2, <1>5, DeliverStep, DeleteStep DEF World
  <1>6. CASE Crash \/ SubmitDiscovery \/ MailTick
    BY <1>2, <1>3, <1>6 DEF Crash, SubmitDiscovery, MailTick
  <1>7. CASE MailStep
    BY <1>1, <1>3, <1>4, <1>7, ReadStep DEF MailStep
  <1>8. CASE Start \/ runDiscovery \/ runProcessScan \/ MailDone \/ ProcessStep
             \/ ProcessDone \/ UNCHANGED vars
    BY <1>2, <1>8 DEF Start, runDiscovery, runProcessScan, MailDone, ProcessStep,
                      ProcessDone, vars
  <1> QED
    BY <1>5, <1>6, <1>7, <1>8 DEF Next, Handler

\* A cron mail that the reader has passed is reported or excused, and it is
\* reported once for each path and each read that was not from the offset or
\* could not save it: whatever is delivered and deleted between two reads, and
\* wherever the agent is stopped.
THEOREM MailAccountedTheorem == Spec => []MailAccounted
  <1>1. Init => MailInv
    <2> SUFFICES ASSUME Init PROVE MailInv
      OBVIOUS
    <2> USE DEF Init, MailInit
    <2>1. MailTypeOK
      BY DEF MailTypeOK
    <2>2. Pieces(0, 0) = {}
      BY DEF Pieces
    <2>3. InSpool = {} /\ Unfinished = {}
      BY DEF InSpool, Pieces, Unfinished
    <2>4. SpoolOK /\ OffsetsOK
      BY <2>3, MailAssumption DEF SpoolOK, OffsetsOK
    <2>5. CutOK
      BY DEF CutOK, Pieces
    <2>6. PassedOK
      <3> SUFFICES ASSUME NEW p \in Paths, NEW m \in CronMails, Within(m, offset[p])
                   PROVE  FALSE
        BY DEF PassedOK
      <3>1. 1 \in 1 .. Size[m]
        BY MailAssumption
      <3>2. \A i \in 1 .. Size[m] : <<m, i>> \in Pieces(0, offset[p])
        BY DEF Within
      <3> QED
        BY <2>2, <3>1, <3>2
    <2>7. OnceOK
      BY DEF OnceOK, Bit
    <2> QED
      BY <2>1, <2>4, <2>5, <2>6, <2>7 DEF MailInv
  <1>2. MailInv /\ [Next]_vars => MailInv'
    BY MailInvStep
  <1>3. MailInv => MailAccounted
    <2> SUFFICES ASSUME MailInv, NEW p \in Paths, NEW m \in CronMails
                 PROVE  /\ p \notin stale /\ Within(m, offset[p]) =>
                             \/ reported[<<p, m>>] > 0
                             \/ <<p, m>> \in pending \cup excused
                        /\ reported[<<p, m>>] <= 1 + rereads[p]
      BY DEF MailAccounted
    <2>1. m \in Mails /\ <<p, m>> \in Paths \X Mails
      BY MailAssumption
    <2>2. reported[<<p, m>>] \in Nat /\ rereads[p] \in Nat
      BY <2>1 DEF MailInv, MailTypeOK
    <2> QED
      BY <2>1, <2>2 DEF MailInv, PassedOK, OnceOK, Bit
  <1> QED
    BY <1>1, <1>2, <1>3, PTL DEF Spec

-----------------------------------------------------------------------------
(* The crontab parser.                                                     *)

\* Induction for the members of a set: there is no least number outside it.
LEMMA SetInduction ==
    ASSUME NEW S, 0 \in S, \A n \in Nat : n \in S => n + 1 \in S
    PROVE  \A n \in Nat : n \in S
  <1> SUFFICES ASSUME NEW n \in Nat, n \notin S PROVE FALSE
    OBVIOUS
  <1> DEFINE R == {ss \in Nat \X Nat : ss[1] < ss[2]}
  <1> DEFINE T == {k \in Nat : k \notin S}
  <1>1. OpToRel(<, Nat) = R
    BY Zenon DEF OpToRel
  <1>2. IsWellFoundedOn(R, Nat)
    BY <1>1, NatLessThanWellFounded, Zenon
  <1>3. T \subseteq Nat /\ T # {}
    OBVIOUS
  <1>4. PICK x \in T : \A y \in T : ~(<<y, x>> \in R)
    BY <1>2, <1>3, WFMin
  <1>5. x \in Nat /\ x # 0 /\ x - 1 \in Nat
    OBVIOUS
  <1>6. <<x - 1, x>> \in R
    BY <1>5
  <1>7. x - 1 \in S
    BY <1>4, <1>5, <1>6
  <1>8. (x - 1) + 1 \in S
    BY <1>5, <1>7
  <1> QED
    BY <1>5, <1>8

\* A set of numbers with a bound has a largest one.
LEMMA MaxIsLargest ==
    ASSUME NEW n \in Nat, NEW S \in SUBSET (1 .. n), S # {}
    PROVE  Max(S) \in S /\ \A y \in S : Max(S) >= y
  <1> DEFINE HasMax == {k \in Nat : \A X \in SUBSET (1 .. k) : X # {} =>
                           \E x \in X : \A y \in X : x >= y}
  <1>1. 0 \in HasMax
    <2>1. 1 .. 0 = {}
      OBVIOUS
    <2>2. \A X \in SUBSET (1 .. 0) : X = {}
      BY <2>1
    <2> QED
      BY <2>2
  <1>2. ASSUME NEW k \in Nat, k \in HasMax
        PROVE  k + 1 \in HasMax
    <2> SUFFICES ASSUME NEW X \in SUBSET (1 .. k + 1), X # {}
                 PROVE  \E x \in X : \A y \in X : x >= y
      OBVIOUS
    <2>1. CASE k + 1 \in X
      BY <2>1
    <2>2. CASE k + 1 \notin X
      <3>1. X \in SUBSET (1 .. k)
        BY <2>2
      <3> QED
        BY <1>2, <3>1
    <2> QED
      BY <2>1, <2>2
  <1> HIDE DEF HasMax
  <1>3. n \in HasMax
    BY <1>1, <1>2, SetInduction
  <1>4. \E x \in S : \A y \in S : x >= y
    BY <1>3 DEF HasMax
  <1> QED
    BY <1>4 DEF Max

\* The accumulators of the loop of parseCrontab, for all sets of lines.
IsParse(g, file, n) ==
    g = [t \in SUBSET (1 .. n) |->
            IF t = {} THEN [tz |-> UTC, jobs |-> <<>>]
            ELSE ParseLine(g[t \ {Max(t)}], file[Max(t)])]

LEMMA ParseExists ==
    ASSUME NEW file
    PROVE  \A n \in Nat : \E g : IsParse(g, file, n)
  <1> DEFINE S == {n \in Nat : \E g : IsParse(g, file, n)}
  <1>1. 0 \in S
    <2> DEFINE g == [t \in SUBSET (1 .. 0) |-> [tz |-> UTC, jobs |-> <<>>]]
    <2>1. \A t \in SUBSET (1 .. 0) : t = {}
      OBVIOUS
    <2>2. IsParse(g, file, 0)
      BY <2>1 DEF IsParse
    <2> QED
      BY <2>2
  <1>2. ASSUME NEW n \in Nat, n \in S
        PROVE  n + 1 \in S
    <2>1. PICK g : IsParse(g, file, n)
      BY <1>2
    <2> DEFINE h == [t \in SUBSET (1 .. n + 1) |->
                        IF n + 1 \in t THEN ParseLine(g[t \ {n + 1}], file[n + 1])
                        ELSE g[t]]
    <2>2. ASSUME NEW t \in SUBSET (1 .. n + 1)
          PROVE  h[t] = IF t = {} THEN [tz |-> UTC, jobs |-> <<>>]
                        ELSE ParseLine(h[t \ {Max(t)}], file[Max(t)])
      <3>1. CASE n + 1 \in t
        <4>1. Max(t) = n + 1
          <5>1. Max(t) \in t /\ \A y \in t : Max(t) >= y
            BY <3>1, MaxIsLargest
          <5>2. Max(t) \in 1 .. n + 1 /\ Max(t) >= n + 1
            BY <3>1, <5>1
          <5> QED
            BY <5>2
        <4>2. h[t \ {n + 1}] = g[t \ {n + 1}]
          OBVIOUS
        <4>3. h[t] = ParseLine(g[t \ {n + 1}], file[n + 1])
          BY <3>1
        <4> HIDE DEF h
        <4> QED
          BY <3>1, <4>1, <4>2, <4>3
      <3>2. CASE n + 1 \notin t
        <4>1. t \in SUBSET (1 .. n) /\ h[t] = g[t]
          BY <3>2
        <4>2. g[t] = IF t = {} THEN [tz |-> UTC, jobs |-> <<>>]
                     ELSE ParseLine(g[t \ {Max(t)}], file[Max(t)])
          BY <2>1, <4>1 DEF IsParse
        <4>3. h[t \ {Max(t)}] = g[t \ {Max(t)}]
          BY <3>2
        <4> HIDE DEF h
        <4> QED
          BY <4>1, <4>2, <4>3
      <3> QED
        BY <3>1, <3>2
    <2>3. h = [t \in SUBSET (1 .. n + 1) |-> h[t]]
      OBVIOUS
    <2> HIDE DEF h
    <2>4. IsParse(h, file, n + 1)
      BY <2>2, <2>3 DEF IsParse
    <2> QED
      BY <2>4
  <1> HIDE DEF S
  <1>3. \A n \in Nat : n \in S
    BY <1>1, <1>2, SetInduction
  <1> QED
    BY <1>3 DEF S

\* The accumulator after the first n lines.
After(file, n) == (CHOOSE g : IsParse(g, file, Len(file)))[1 .. n]

LEMMA ParseSteps ==
    ASSUME NEW L, NEW file \in Seq(L)
    PROVE  /\ parseCrontab(file) = After(file, Len(file)).jobs
           /\ After(file, 0) = [tz |-> UTC, jobs |-> <<>>]
           /\ \A n \in 1 .. Len(file) :
                 After(file, n) = ParseLine(After(file, n - 1), file[n])
  <1>1. Len(file) \in Nat /\ DOMAIN file = 1 .. Len(file)
    OBVIOUS
  <1>2. FoldLeft(ParseLine, [tz |-> UTC, jobs |-> <<>>], file) =
          (CHOOSE g : g = [t \in SUBSET DOMAIN file |->
              IF t = {} THEN [tz |-> UTC, jobs |-> <<>>]
              ELSE ParseLine(g[t \ {Max(t)}], file[Max(t)])])[DOMAIN file]
    BY Zenon DEF FoldLeft, MapThenFoldSet
  <1>3. FoldLeft(ParseLine, [tz |-> UTC, jobs |-> <<>>], file) = After(file, Len(file))
    BY <1>1, <1>2, Zenon DEF After, IsParse
  <1>4. parseCrontab(file) = After(file, Len(file)).jobs
    BY <1>3 DEF parseCrontab
  <1>5. PICK g : g = (CHOOSE h : IsParse(h, file, Len(file)))
    OBVIOUS
  <1>6. IsParse(g, file, Len(file))
    BY <1>1, <1>5, ParseExists
  <1>7. \A n : After(file, n) = g[1 .. n]
    BY <1>5 DEF After
  <1>8. After(file, 0) = [tz |-> UTC, jobs |-> <<>>]
    <2>1. 1 .. 0 = {} /\ {} \in SUBSET (1 .. Len(file))
      OBVIOUS
    <2> QED
      BY <1>6, <1>7, <2>1 DEF IsParse
  <1>9. ASSUME NEW n \in 1 .. Len(file)
        PROVE  After(file, n) = ParseLine(After(file, n - 1), file[n])
    <2>1. /\ 1 .. n \in SUBSET (1 .. Len(file)) /\ 1 .. n # {}
          /\ n \in Nat /\ n \in 1 .. n
      BY <1>1
    <2>2. Max(1 .. n) = n
      <3>1. Max(1 .. n) \in 1 .. n /\ \A y \in 1 .. n : Max(1 .. n) >= y
        BY <2>1, MaxIsLargest
      <3> QED
        BY <2>1, <3>1
    <2>3. (1 .. n) \ {n} = 1 .. n - 1
      BY <2>1
    <2>4. g[1 .. n] = ParseLine(g[(1 .. n) \ {Max(1 .. n)}], file[Max(1 .. n)])
      BY <1>6, <2>1 DEF IsParse
    <2> QED
      BY <1>7, <2>2, <2>3, <2>4
  <1> QED
    BY <1>4, <1>8, <1>9

LEMMA TzNext ==
    ASSUME NEW file, NEW n \in Nat
    PROVE  TzAt(file, n + 1) =
             IF file[n + 1].kind = "tz" THEN file[n + 1].tz ELSE TzAt(file, n)
  <1> DEFINE zs(k) == {i \in 1 .. k : file[i].kind = "tz"}
  <1>1. CASE file[n + 1].kind = "tz"
    <2>1. n + 1 \in zs(n + 1) /\ zs(n + 1) \in SUBSET (1 .. n + 1)
      BY <1>1
    <2>2. Max(zs(n + 1)) \in zs(n + 1) /\ \A y \in zs(n + 1) : Max(zs(n + 1)) >= y
      <3> HIDE DEF zs
      <3> QED
        BY <2>1, MaxIsLargest
    <2>3. Max(zs(n + 1)) \in 1 .. n + 1 /\ Max(zs(n + 1)) >= n + 1
      BY <2>1, <2>2
    <2>4. Max(zs(n + 1)) = n + 1
      BY <2>3
    <2> QED
      BY <1>1, <2>1, <2>4 DEF TzAt
  <1>2. CASE file[n + 1].kind # "tz"
    <2>1. zs(n + 1) = zs(n)
      BY <1>2
    <2> QED
      BY <1>2, <2>1, Zenon DEF TzAt
  <1> QED
    BY <1>1, <1>2

JobLines(file, n) == {i \in 1 .. n : file[i].kind = "job"}

\* js are the jobs of the first n lines: ln gives their lines, in order.
AreJobs(js, ln, file, n) ==
    /\ js \in Seq({JobAt(file, i) : i \in DOMAIN file})
    /\ ln \in [1 .. Len(js) -> JobLines(file, n)]
    /\ \A i, k \in 1 .. Len(js) : i < k => ln[i] < ln[k]
    /\ \A l \in JobLines(file, n) : \E i \in 1 .. Len(js) : ln[i] = l
    /\ \A i \in 1 .. Len(js) : js[i] = JobAt(file, ln[i])

LEMMA JobLineAdded ==
    ASSUME NEW L, NEW file \in Seq(L), NEW n \in Nat, n + 1 <= Len(file),
           NEW js, NEW ln, AreJobs(js, ln, file, n), file[n + 1].kind = "job"
    PROVE  AreJobs(Append(js, JobAt(file, n + 1)),
                   [i \in 1 .. Len(js) + 1 |-> IF i = Len(js) + 1 THEN n + 1 ELSE ln[i]],
                   file, n + 1)
  <1> DEFINE m == [i \in 1 .. Len(js) + 1 |-> IF i = Len(js) + 1 THEN n + 1 ELSE ln[i]]
  <1>1. PICK J : J = {JobAt(file, i) : i \in DOMAIN file}
    OBVIOUS
  <1>2. js \in Seq(J) /\ JobAt(file, n + 1) \in J /\ Len(js) \in Nat
    BY <1>1 DEF AreJobs
  <1>3. PICK j : j = JobAt(file, n + 1)
    OBVIOUS
  <1>4. /\ Append(js, j) \in Seq(J) /\ Len(Append(js, j)) = Len(js) + 1
        /\ \A i \in 1 .. Len(js) : Append(js, j)[i] = js[i]
        /\ Append(js, j)[Len(js) + 1] = j
    BY <1>2, <1>3
  <1>5. JobLines(file, n + 1) = JobLines(file, n) \cup {n + 1}
    BY DEF JobLines
  <1>6. /\ m \in [1 .. Len(js) + 1 -> JobLines(file, n + 1)]
        /\ m[Len(js) + 1] = n + 1 /\ \A i \in 1 .. Len(js) : m[i] = ln[i]
    BY <1>2, <1>5 DEF AreJobs
  <1> HIDE DEF m
  <1>7. ASSUME NEW i \in 1 .. Len(js) + 1, NEW k \in 1 .. Len(js) + 1, i < k
        PROVE  m[i] < m[k]
    <2> i \in 1 .. Len(js)
      BY <1>2, <1>7
    <2>1. ln[i] \in 1 .. n
      <3>1. ln[i] \in JobLines(file, n)
        BY DEF AreJobs
      <3> QED
        BY <3>1 DEF JobLines
    <2>2. CASE k \in 1 .. Len(js)
      BY <1>6, <1>7, <2>1, <2>2 DEF AreJobs
    <2>3. CASE k = Len(js) + 1
      BY <1>6, <2>1, <2>3
    <2> QED
      BY <1>2, <2>2, <2>3
  <1>8. ASSUME NEW l \in JobLines(file, n + 1)
        PROVE  \E i \in 1 .. Len(js) + 1 : m[i] = l
    <2>1. CASE l = n + 1
      BY <1>2, <1>6, <2>1
    <2>2. CASE l \in JobLines(file, n)
      <3>1. PICK i \in 1 .. Len(js) : ln[i] = l
        BY <2>2 DEF AreJobs
      <3> QED
        BY <1>2, <1>6, <3>1
    <2> QED
      BY <1>5, <2>1, <2>2
  <1>9. ASSUME NEW i \in 1 .. Len(js) + 1
        PROVE  Append(js, j)[i] = JobAt(file, m[i])
    <2>1. CASE i \in 1 .. Len(js)
      BY <1>4, <1>6, <2>1 DEF AreJobs
    <2>2. CASE i = Len(js) + 1
      BY <1>3, <1>4, <1>6, <2>2
    <2> QED
      BY <1>2, <2>1, <2>2
  <1>10. AreJobs(Append(js, j), m, file, n + 1)
    BY <1>1, <1>4, <1>6, <1>7, <1>8, <1>9 DEF AreJobs
  <1> QED
    BY <1>3, <1>10 DEF m

\* The loop of parseCrontab finds the jobs of a file, in order, each with the
\* time zone of the nearest line above it.
LEMMA ParserFindsJobs ==
    ASSUME NEW L, NEW file \in Seq(L),
           \A i \in DOMAIN file :
               file[i].kind \in {"tz", "job", "comment", "at", "malformed"}
    PROVE  \E ln : AreJobs(parseCrontab(file), ln, file, Len(file))
  <1> DEFINE Good(n) == \E js, ln : /\ After(file, n) = [tz |-> TzAt(file, n), jobs |-> js]
                                    /\ AreJobs(js, ln, file, n)
  <1> DEFINE S == {n \in Nat : n <= Len(file) => Good(n)}
  <1>1. 0 \in S
    <2>1. TzAt(file, 0) = UTC
      BY DEF TzAt
    <2>2. AreJobs(<<>>, <<>>, file, 0)
      BY DEF AreJobs, JobLines
    <2> QED
      BY <2>1, <2>2, ParseSteps
  <1>2. ASSUME NEW n \in Nat, n \in S
        PROVE  n + 1 \in S
    <2> HIDE DEF Good
    <2> SUFFICES ASSUME n + 1 <= Len(file) PROVE Good(n + 1)
      OBVIOUS
    <2>0. Good(n)
      BY <1>2
    <2> USE DEF Good
    <2>1. PICK js, ln : /\ After(file, n) = [tz |-> TzAt(file, n), jobs |-> js]
                        /\ AreJobs(js, ln, file, n)
      BY <2>0
    <2>2. n + 1 \in 1 .. Len(file) /\ n + 1 \in DOMAIN file /\ (n + 1) - 1 = n
      OBVIOUS
    <2>3. After(file, n + 1) = ParseLine(After(file, n), file[n + 1])
      BY <2>2, ParseSteps
    <2>4. CASE file[n + 1].kind = "job"
      <3>1. TzAt(file, n + 1) = TzAt(file, n)
        BY <2>4, TzNext
      <3>2. parseCronLine(file[n + 1], TzAt(file, n)) = JobAt(file, n + 1)
        BY <3>1 DEF parseCronLine, JobAt
      <3>3. After(file, n + 1) = [tz |-> TzAt(file, n + 1),
                                  jobs |-> Append(js, JobAt(file, n + 1))]
        <4>1. PICK acc : acc = After(file, n)
          OBVIOUS
        <4>2. acc = [tz |-> TzAt(file, n), jobs |-> js]
          BY <2>1, <4>1
        <4>3. ParseLine(acc, file[n + 1]) =
                [acc EXCEPT !.jobs = Append(@, parseCronLine(file[n + 1], acc.tz))]
          BY <2>4, Zenon DEF ParseLine
        <4>4. acc.tz = TzAt(file, n) /\ acc.jobs = js
          BY <4>2
        <4> QED
          BY <2>3, <3>1, <3>2, <4>1, <4>2, <4>3, <4>4
      <3> QED
        BY <2>1, <2>4, <3>3, JobLineAdded
    <2>5. CASE file[n + 1].kind # "job"
      <3>1. JobLines(file, n + 1) = JobLines(file, n)
        BY <2>5 DEF JobLines
      <3>2. AreJobs(js, ln, file, n + 1)
        BY <2>1, <3>1 DEF AreJobs
      <3>3. After(file, n + 1) = [tz |-> TzAt(file, n + 1), jobs |-> js]
        <4>1. CASE file[n + 1].kind = "tz"
          BY <2>1, <2>3, <4>1, TzNext DEF ParseLine
        <4>2. CASE file[n + 1].kind \in {"comment", "at", "malformed"}
          BY <2>1, <2>3, <4>2, TzNext DEF ParseLine
        <4> QED
          BY <2>2, <2>5, <4>1, <4>2
      <3> QED
        BY <3>2, <3>3
    <2> QED
      BY <2>4, <2>5
  <1> HIDE DEF S
  <1>3. Len(file) \in S
    BY <1>1, <1>2, SetInduction
  <1>4. PICK js, ln : /\ After(file, Len(file)) = [tz |-> TzAt(file, Len(file)), jobs |-> js]
                      /\ AreJobs(js, ln, file, Len(file))
    BY <1>3 DEF S
  <1>5. parseCrontab(file) = js
    BY <1>4, ParseSteps
  <1> QED
    BY <1>4, <1>5

-----------------------------------------------------------------------------
(* The order of the files.                                                 *)

\* The jobs of the first files, for all numbers of files.
IsFlat(g, s, n) ==
    g = [i \in 1 .. n |-> IF i = 1 THEN s[i] ELSE g[i - 1] \o s[i]]

LEMMA FlatExists ==
    ASSUME NEW s
    PROVE  \A n \in Nat : \E g : IsFlat(g, s, n)
  <1> DEFINE S == {n \in Nat : \E g : IsFlat(g, s, n)}
  <1>1. 0 \in S
    <2>1. IsFlat([i \in 1 .. 0 |-> s[i]], s, 0)
      BY DEF IsFlat
    <2> QED
      BY <2>1
  <1>2. ASSUME NEW n \in Nat, n \in S
        PROVE  n + 1 \in S
    <2>1. PICK g : IsFlat(g, s, n)
      BY <1>2
    <2> DEFINE h == [i \in 1 .. n + 1 |->
                        IF i # n + 1 THEN g[i]
                        ELSE IF i = 1 THEN s[i] ELSE g[i - 1] \o s[i]]
    <2>2. ASSUME NEW i \in 1 .. n + 1
          PROVE  h[i] = IF i = 1 THEN s[i] ELSE h[i - 1] \o s[i]
      <3>1. i # 1 => i - 1 \in 1 .. n /\ i - 1 # n + 1
        OBVIOUS
      <3>2. i # 1 => h[i - 1] = g[i - 1]
        BY <3>1
      <3>3. CASE i = n + 1
        <4>1. h[i] = IF i = 1 THEN s[i] ELSE g[i - 1] \o s[i]
          BY <3>3
        <4> HIDE DEF h
        <4> QED
          BY <3>2, <4>1
      <3>4. CASE i # n + 1
        <4>1. i \in 1 .. n /\ h[i] = g[i]
          BY <3>4
        <4>2. g[i] = IF i = 1 THEN s[i] ELSE g[i - 1] \o s[i]
          BY <2>1, <4>1 DEF IsFlat
        <4> HIDE DEF h
        <4> QED
          BY <3>2, <4>1, <4>2
      <3> QED
        BY <3>3, <3>4
    <2>3. h = [i \in 1 .. n + 1 |-> h[i]]
      OBVIOUS
    <2> HIDE DEF h
    <2>4. IsFlat(h, s, n + 1)
      BY <2>2, <2>3 DEF IsFlat
    <2> QED
      BY <2>4
  <1> HIDE DEF S
  <1>3. \A n \in Nat : n \in S
    BY <1>1, <1>2, SetInduction
  <1> QED
    BY <1>3 DEF S

\* The jobs of the first n files.
Flat(s, n) == IF n = 0 THEN <<>> ELSE (CHOOSE g : IsFlat(g, s, Len(s)))[n]

LEMMA FlatSteps ==
    ASSUME NEW J, NEW s \in Seq(Seq(J))
    PROVE  /\ FlattenSeq(s) = Flat(s, Len(s))
           /\ \A n \in 1 .. Len(s) : Flat(s, n - 1) \in Seq(J) =>
                                        Flat(s, n) = Flat(s, n - 1) \o s[n]
  <1>1. Len(s) \in Nat
    OBVIOUS
  <1>2. CASE Len(s) = 0
    <2>1. s = <<>>
      BY <1>2
    <2>2. FlattenSeq(s) = s
      BY <1>2, Zenon DEF FlattenSeq
    <2>3. Flat(s, Len(s)) = <<>>
      BY <1>2 DEF Flat
    <2> QED
      BY <1>2, <2>1, <2>2, <2>3
  <1>3. CASE Len(s) # 0
    <2>1. FlattenSeq(s) =
            (CHOOSE g : g = [i \in 1 .. Len(s) |->
                                IF i = 1 THEN s[i] ELSE g[i - 1] \o s[i]])[Len(s)]
      BY <1>3, Zenon DEF FlattenSeq
    <2>2. FlattenSeq(s) = Flat(s, Len(s))
      BY <1>3, <2>1, Zenon DEF Flat, IsFlat
    <2>3. PICK g : g = (CHOOSE h : IsFlat(h, s, Len(s)))
      OBVIOUS
    <2>4. IsFlat(g, s, Len(s))
      BY <1>1, <2>3, FlatExists
    <2>5. ASSUME NEW n \in 1 .. Len(s), Flat(s, n - 1) \in Seq(J)
          PROVE  Flat(s, n) = Flat(s, n - 1) \o s[n]
      <3>1. Flat(s, n) = g[n] /\ s[n] \in Seq(J)
        BY <2>3 DEF Flat
      <3>2. g[n] = IF n = 1 THEN s[n] ELSE g[n - 1] \o s[n]
        BY <2>4 DEF IsFlat
      <3>3. CASE n = 1
        <4>1. Flat(s, n - 1) = <<>>
          BY <3>3 DEF Flat
        <4>2. <<>> \o s[n] = s[n]
          BY <3>1
        <4> QED
          BY <3>1, <3>2, <3>3, <4>1, <4>2
      <3>4. CASE n # 1
        <4>1. Flat(s, n - 1) = g[n - 1]
          BY <2>3, <3>4 DEF Flat
        <4> QED
          BY <3>1, <3>2, <3>4, <4>1
      <3> QED
        BY <3>3, <3>4
    <2> QED
      BY <2>2, <2>5
  <1> QED
    BY <1>2, <1>3

\* The job lines of the first n files, and their order.
JobPlaces(c, n) == {p \in Lines(c) : p[1] <= n /\ c[p[1]][p[2]].kind = "job"}
Above(p, q) == p[1] < q[1] \/ (p[1] = q[1] /\ p[2] < q[2])

\* js are the jobs of the first n files: pl gives their places, in order.
ArePlaced(js, pl, c, n) ==
    /\ js \in Seq({JobAt(c[p[1]], p[2]) : p \in Lines(c)})
    /\ pl \in [1 .. Len(js) -> JobPlaces(c, n)]
    /\ \A i, k \in 1 .. Len(js) : i < k => Above(pl[i], pl[k])
    /\ \A p \in JobPlaces(c, n) : \E i \in 1 .. Len(js) : pl[i] = p
    /\ \A i \in 1 .. Len(js) : js[i] = JobAt(c[pl[i][1]], pl[i][2])

\* A place is a file and a line of it.
LEMMA PlaceOf ==
    ASSUME NEW c, NEW p \in Lines(c)
    PROVE  p[1] \in DOMAIN c /\ p[2] \in DOMAIN c[p[1]] /\ p = <<p[1], p[2]>>
  BY DEF Lines

LEMMA LinePlace ==
    ASSUME NEW c, NEW f \in DOMAIN c, NEW l \in DOMAIN c[f]
    PROVE  <<f, l>> \in Lines(c)
  <1>1. <<f, l>> \in {f} \X DOMAIN c[f]
    OBVIOUS
  <1> QED
    BY <1>1 DEF Lines

LEMMA FileAdded ==
    ASSUME NEW c \in Crontabs, NEW n \in Nat, n + 1 <= Len(c),
           NEW js, NEW pl, ArePlaced(js, pl, c, n)
    PROVE  \E ql : ArePlaced(js \o parseCrontab(c[n + 1]), ql, c, n + 1)
  <1>1. PICK file : file = c[n + 1]
    OBVIOUS
  <1>2. /\ n + 1 \in DOMAIN c /\ file \in Seq({file[i] : i \in DOMAIN file})
        /\ DOMAIN c = 1 .. Len(c) /\ Len(c) \in Nat
        /\ \A i \in DOMAIN file :
              file[i].kind \in {"tz", "job", "comment", "at", "malformed"}
    <2>1. IsSequence(c)
      BY CronAssumption
    <2>2. DOMAIN c = 1 .. Len(c) /\ Len(c) \in Nat
      BY <2>1 DEF IsSequence
    <2>3. n + 1 \in DOMAIN c
      BY <2>2
    <2>4. IsSequence(file)
      BY <1>1, <2>3, CronAssumption
    <2> QED
      BY <1>1, <2>2, <2>3, <2>4, CronAssumption DEF IsSequence
  <1>3. PICK ks : ks = parseCrontab(file)
    OBVIOUS
  <1>4. PICK ln : AreJobs(ks, ln, file, Len(file))
    BY <1>2, <1>3, ParserFindsJobs
  <1>5. DOMAIN file = 1 .. Len(file) /\ Len(file) \in Nat
    BY <1>2
  <1> DEFINE J == {JobAt(c[p[1]], p[2]) : p \in Lines(c)}
  <1>6. {JobAt(file, i) : i \in DOMAIN file} \subseteq J
    <2> SUFFICES ASSUME NEW i \in DOMAIN file PROVE JobAt(file, i) \in J
      OBVIOUS
    <2>1. <<n + 1, i>> \in Lines(c)
      BY <1>1, <1>2, LinePlace
    <2>2. JobAt(file, i) = JobAt(c[<<n + 1, i>>[1]], <<n + 1, i>>[2])
      BY <1>1
    <2> QED
      BY <2>1, <2>2
  <1> HIDE DEF J
  <1>7. js \in Seq(J) /\ ks \in Seq(J) /\ Len(js) \in Nat /\ Len(ks) \in Nat
    <2>1. js \in Seq(J)
      BY DEF ArePlaced, J
    <2>2. PICK K : K = {JobAt(file, i) : i \in DOMAIN file}
      OBVIOUS
    <2>3. ks \in Seq(K)
      BY <1>4, <2>2 DEF AreJobs
    <2> QED
      BY <1>6, <2>1, <2>2, <2>3
  <1>8. /\ js \o ks \in Seq(J) /\ Len(js \o ks) = Len(js) + Len(ks)
        /\ \A i \in 1 .. Len(js) : (js \o ks)[i] = js[i]
        /\ \A i \in 1 .. Len(ks) : (js \o ks)[Len(js) + i] = ks[i]
    BY <1>7
  <1>9. \A i \in 1 .. Len(ks) :
           /\ ln[i] \in DOMAIN file /\ file[ln[i]].kind = "job"
           /\ ks[i] = JobAt(file, ln[i])
    <2>1. ln \in [1 .. Len(ks) -> JobLines(file, Len(file))]
      BY <1>4 DEF AreJobs
    <2> QED
      BY <1>4, <1>5, <2>1 DEF AreJobs, JobLines
  <1> DEFINE ql == [i \in 1 .. Len(js) + Len(ks) |->
                       IF i <= Len(js) THEN pl[i] ELSE <<n + 1, ln[i - Len(js)]>>]
  <1>10. \A i \in 1 .. Len(js) : i \in 1 .. Len(js) + Len(ks) /\ ql[i] = pl[i]
    BY <1>7
  <1>11. \A i \in 1 .. Len(ks) : /\ Len(js) + i \in 1 .. Len(js) + Len(ks)
                                 /\ ql[Len(js) + i] = <<n + 1, ln[i]>>
    BY <1>7
  <1>12. \A i \in 1 .. Len(js) + Len(ks) :
            \/ i \in 1 .. Len(js)
            \/ \E k \in 1 .. Len(ks) : i = Len(js) + k
    <2> SUFFICES ASSUME NEW i \in 1 .. Len(js) + Len(ks), i \notin 1 .. Len(js)
                 PROVE  \E k \in 1 .. Len(ks) : i = Len(js) + k
      OBVIOUS
    <2>1. i - Len(js) \in 1 .. Len(ks) /\ i = Len(js) + (i - Len(js))
      BY <1>7
    <2> QED
      BY <2>1
  <1>13. \A i \in 1 .. Len(js) : /\ pl[i] \in Lines(c) /\ pl[i] \in JobPlaces(c, n)
                                 /\ pl[i][1] \in 1 .. n /\ pl[i] \in JobPlaces(c, n + 1)
    <2> SUFFICES ASSUME NEW i \in 1 .. Len(js)
                 PROVE  /\ pl[i] \in Lines(c) /\ pl[i] \in JobPlaces(c, n)
                        /\ pl[i][1] \in 1 .. n /\ pl[i] \in JobPlaces(c, n + 1)
      OBVIOUS
    <2>1. pl[i] \in JobPlaces(c, n)
      BY DEF ArePlaced
    <2>2. pl[i] \in Lines(c) /\ pl[i][1] <= n /\ c[pl[i][1]][pl[i][2]].kind = "job"
      BY <2>1 DEF JobPlaces
    <2>3. pl[i][1] \in 1 .. Len(c)
      BY <1>2, <2>2, PlaceOf
    <2> QED
      BY <2>1, <2>2, <2>3 DEF JobPlaces
  <1>14. \A i \in 1 .. Len(ks) : <<n + 1, ln[i]>> \in JobPlaces(c, n + 1)
    <2> SUFFICES ASSUME NEW i \in 1 .. Len(ks)
                 PROVE  <<n + 1, ln[i]>> \in JobPlaces(c, n + 1)
      OBVIOUS
    <2>1. <<n + 1, ln[i]>> \in Lines(c)
      BY <1>1, <1>2, <1>9, LinePlace
    <2> QED
      BY <1>1, <1>9, <2>1 DEF JobPlaces
  <1>15. ql \in [1 .. Len(js) + Len(ks) -> JobPlaces(c, n + 1)]
    <2>1. \A i \in 1 .. Len(js) + Len(ks) : ql[i] \in JobPlaces(c, n + 1)
      <3> HIDE DEF ql
      <3> QED
        BY <1>10, <1>11, <1>12, <1>13, <1>14
    <2> QED
      BY <2>1
  <1> HIDE DEF ql
  <1>16. ASSUME NEW i \in 1 .. Len(js) + Len(ks), NEW k \in 1 .. Len(js) + Len(ks), i < k
         PROVE  Above(ql[i], ql[k])
    <2>1. CASE i \in 1 .. Len(js) /\ k \in 1 .. Len(js)
      BY <1>10, <1>16, <2>1 DEF ArePlaced
    <2>2. CASE i \in 1 .. Len(js) /\ k \notin 1 .. Len(js)
      <3>1. PICK b \in 1 .. Len(ks) : k = Len(js) + b
        BY <1>12, <2>2
      <3>2. ql[k][1] = n + 1 /\ ql[i][1] \in 1 .. n
        BY <1>10, <1>11, <1>13, <2>2, <3>1
      <3> QED
        BY <3>2 DEF Above
    <2>3. CASE i \notin 1 .. Len(js)
      <3>1. PICK a \in 1 .. Len(ks) : i = Len(js) + a
        BY <1>12, <2>3
      <3>2. k \notin 1 .. Len(js)
        BY <1>7, <1>16, <3>1
      <3>3. PICK b \in 1 .. Len(ks) : k = Len(js) + b
        BY <1>12, <3>2
      <3>4. a < b
        BY <1>7, <1>16, <3>1, <3>3
      <3>5. ln[a] < ln[b]
        BY <1>4, <3>4 DEF AreJobs
      <3> QED
        BY <1>11, <3>1, <3>3, <3>5 DEF Above
    <2> QED
      BY <2>1, <2>2, <2>3
  <1>17. ASSUME NEW p \in JobPlaces(c, n + 1)
         PROVE  \E i \in 1 .. Len(js) + Len(ks) : ql[i] = p
    <2>1. /\ p \in Lines(c) /\ p[1] <= n + 1 /\ c[p[1]][p[2]].kind = "job"
          /\ p[1] \in 1 .. Len(c) /\ p[2] \in DOMAIN c[p[1]] /\ p = <<p[1], p[2]>>
      BY <1>2, PlaceOf DEF JobPlaces
    <2>2. CASE p[1] <= n
      <3>1. p \in JobPlaces(c, n)
        BY <2>1, <2>2 DEF JobPlaces
      <3>2. PICK i \in 1 .. Len(js) : pl[i] = p
        BY <3>1 DEF ArePlaced
      <3> QED
        BY <1>10, <3>2
    <2>3. CASE p[1] = n + 1
      <3>1. p[2] \in JobLines(file, Len(file))
        BY <1>1, <1>5, <2>1, <2>3 DEF JobLines
      <3>2. PICK i \in 1 .. Len(ks) : ln[i] = p[2]
        BY <1>4, <3>1 DEF AreJobs
      <3> QED
        BY <1>11, <2>1, <2>3, <3>2
    <2> QED
      BY <2>1, <2>2, <2>3
  <1>18. ASSUME NEW i \in 1 .. Len(js) + Len(ks)
         PROVE  (js \o ks)[i] = JobAt(c[ql[i][1]], ql[i][2])
    <2>1. CASE i \in 1 .. Len(js)
      BY <1>8, <1>10, <2>1 DEF ArePlaced
    <2>2. CASE i \notin 1 .. Len(js)
      <3>1. PICK a \in 1 .. Len(ks) : i = Len(js) + a
        BY <1>12, <2>2
      <3>2. ql[i][1] = n + 1 /\ ql[i][2] = ln[a]
        BY <1>11, <3>1
      <3> QED
        BY <1>1, <1>8, <1>9, <3>1, <3>2
    <2> QED
      BY <2>1, <2>2
  <1>19. PICK u : u = js \o ks
    OBVIOUS
  <1>20. ArePlaced(u, ql, c, n + 1)
    <2>1. Len(u) = Len(js) + Len(ks) /\ u \in Seq(J)
      BY <1>8, <1>19
    <2>2. ql \in [1 .. Len(u) -> JobPlaces(c, n + 1)]
      BY <1>15, <2>1
    <2> QED
      BY <1>16, <1>17, <1>18, <1>19, <2>1, <2>2 DEF ArePlaced, J
  <1> QED
    BY <1>1, <1>3, <1>19, <1>20

\* A scan that can read every file finds their jobs in order.
LEMMA ScanFindsJobs ==
    ASSUME crontab \in Crontabs
    PROVE  \E pl : ArePlaced(Scan({}), pl, crontab, Len(crontab))
  <1>1. PICK c : c = crontab
    OBVIOUS
  <1>2. c \in Crontabs
    BY <1>1
  <1>3. DOMAIN c = 1 .. Len(c) /\ Len(c) \in Nat
    <2>1. IsSequence(c)
      BY <1>2, CronAssumption
    <2> QED
      BY <2>1 DEF IsSequence
  <1> DEFINE s == [f \in 1 .. Len(c) |-> parseCrontab(c[f])]
             J == {JobAt(c[p[1]], p[2]) : p \in Lines(c)}
  <1>4. Scan({}) = FlattenSeq(s)
    <2>1. [f \in DOMAIN crontab |-> IF f \in {} THEN <<>> ELSE parseCrontab(crontab[f])] = s
      BY <1>1, <1>3
    <2> HIDE DEF s
    <2> QED
      BY <2>1 DEF Scan
  <1>5. ASSUME NEW f \in 1 .. Len(c)
        PROVE  parseCrontab(c[f]) \in Seq(J)
    <2>1. PICK file : file = c[f]
      OBVIOUS
    <2>2. IsSequence(file)
      BY <1>2, <1>3, <2>1, CronAssumption
    <2>3. /\ file \in Seq({file[i] : i \in DOMAIN file})
          /\ \A i \in DOMAIN file :
                file[i].kind \in {"tz", "job", "comment", "at", "malformed"}
      BY <1>2, <1>3, <2>1, <2>2, CronAssumption DEF IsSequence
    <2>4. PICK ln : AreJobs(parseCrontab(file), ln, file, Len(file))
      BY <2>3, ParserFindsJobs
    <2>5. PICK K : K = {JobAt(file, i) : i \in DOMAIN file}
      OBVIOUS
    <2>6. K \subseteq J
      <3> SUFFICES ASSUME NEW i \in DOMAIN file PROVE JobAt(file, i) \in J
        BY <2>5
      <3>1. <<f, i>> \in Lines(c)
        BY <1>3, <2>1, LinePlace
      <3>2. JobAt(file, i) = JobAt(c[<<f, i>>[1]], <<f, i>>[2])
        BY <2>1
      <3> QED
        BY <3>1, <3>2
    <2>7. parseCrontab(file) \in Seq(K)
      BY <2>4, <2>5 DEF AreJobs
    <2> HIDE DEF J
    <2> QED
      BY <2>1, <2>6, <2>7
  <1>6. s \in Seq(Seq(J)) /\ Len(s) = Len(c) /\ \A f \in 1 .. Len(c) : s[f] = parseCrontab(c[f])
    <2> HIDE DEF J
    <2> QED
      BY <1>3, <1>5
  <1> HIDE DEF s
  <1> DEFINE Good(n) == \E pl : ArePlaced(Flat(s, n), pl, c, n)
             S == {n \in Nat : n <= Len(c) => Good(n)}
  <1>7. 0 \in S
    <2>1. Flat(s, 0) = <<>>
      BY DEF Flat
    <2>2. JobPlaces(c, 0) = {}
      <3> SUFFICES ASSUME NEW p \in JobPlaces(c, 0) PROVE FALSE
        OBVIOUS
      <3>1. p \in Lines(c) /\ p[1] <= 0
        BY DEF JobPlaces
      <3>2. p[1] \in 1 .. Len(c)
        BY <1>3, <3>1, PlaceOf
      <3> QED
        BY <3>1, <3>2
    <2>3. ArePlaced(<<>>, <<>>, c, 0)
      BY <2>2 DEF ArePlaced
    <2> QED
      BY <2>1, <2>3
  <1>8. ASSUME NEW n \in Nat, n \in S
        PROVE  n + 1 \in S
    <2> HIDE DEF Good
    <2> SUFFICES ASSUME n + 1 <= Len(c) PROVE Good(n + 1)
      OBVIOUS
    <2>1. Good(n) /\ n + 1 \in 1 .. Len(s) /\ (n + 1) - 1 = n
      BY <1>3, <1>6, <1>8
    <2>2. PICK pl : ArePlaced(Flat(s, n), pl, c, n)
      BY <2>1 DEF Good
    <2>3. Flat(s, n) \in Seq(J)
      BY <2>2 DEF ArePlaced
    <2>4. Flat(s, n + 1) = Flat(s, n) \o s[n + 1]
      <3> HIDE DEF J
      <3>1. Flat(s, (n + 1) - 1) \in Seq(J)
        BY <2>1, <2>3
      <3>2. Flat(s, n + 1) = Flat(s, (n + 1) - 1) \o s[n + 1]
        BY <1>6, <2>1, <3>1, FlatSteps
      <3> QED
        BY <2>1, <3>2
    <2>5. \E ql : ArePlaced(Flat(s, n) \o parseCrontab(c[n + 1]), ql, c, n + 1)
      BY <1>2, <2>2, FileAdded
    <2> QED
      BY <1>6, <2>1, <2>4, <2>5 DEF Good
  <1> HIDE DEF S
  <1>9. Len(c) \in S
    BY <1>3, <1>7, <1>8, SetInduction
  <1>10. \E pl : ArePlaced(Flat(s, Len(c)), pl, c, Len(c))
    BY <1>3, <1>9 DEF S
  <1>11. FlattenSeq(s) = Flat(s, Len(c))
    <2> HIDE DEF J
    <2> QED
      BY <1>6, FlatSteps
  <1> QED
    BY <1>1, <1>4, <1>10, <1>11

-----------------------------------------------------------------------------
(* Discovery.                                                              *)

\* What an agent knows that has read every file of the crontabs: its jobs are
\* those of the job lines, each as the last of its lines defines it.
IsExact(map) ==
    \A h \in Hashes : /\ h \in DOMAIN map <=> Defining(crontab, h) # {}
                      /\ h \in DOMAIN map => map[h] = Expected[crontab][h]

LEMMA UpsertDomain ==
    ASSUME NEW map, NEW jobs
    PROVE  DOMAIN Upsert(map, jobs) = DOMAIN map \cup {jobs[i].hash : i \in DOMAIN jobs}
  BY DEF Upsert

LEMMA UpsertLast ==
    ASSUME NEW map, NEW jobs, NEW k \in Nat, DOMAIN jobs \subseteq 1 .. k,
           NEW h \in {jobs[i].hash : i \in DOMAIN jobs}
    PROVE  \E n \in DOMAIN jobs : /\ jobs[n].hash = h
                                  /\ \A i \in DOMAIN jobs : jobs[i].hash = h => i <= n
                                  /\ Upsert(map, jobs)[h] = jobs[n]
  <1> DEFINE P == {i \in DOMAIN jobs : jobs[i].hash = h}
  <1>1. P # {} /\ P \in SUBSET (1 .. k)
    OBVIOUS
  <1>2. Upsert(map, jobs)[h] = jobs[Max(P)]
    BY <1>1, Zenon DEF Upsert
  <1>3. Max(P) \in P /\ \A y \in P : Max(P) >= y
    <2> HIDE DEF P
    <2> QED
      BY <1>1, MaxIsLargest
  <1>4. PICK n : n = Max(P)
    OBVIOUS
  <1> QED
    BY <1>2, <1>3, <1>4

\* The jobs that a scan finds, and the one that is left of those with a hash.
LEMMA LastJobWins ==
    ASSUME crontab \in Crontabs, NEW map, NEW h \in Hashes
    PROVE  /\ \A i \in DOMAIN Scan({}) : Scan({})[i].hash = h =>
                 \E p \in Defining(crontab, h) :
                     Scan({})[i] = JobAt(crontab[p[1]], p[2])
           /\ h \in {Scan({})[i].hash : i \in DOMAIN Scan({})} <=>
                 Defining(crontab, h) # {}
           /\ Defining(crontab, h) # {} =>
                 Upsert(map, Scan({}))[h] = Expected[crontab][h]
  <1>1. PICK c, jobs : c = crontab /\ jobs = Scan({})
    OBVIOUS
  <1>2. PICK pl : ArePlaced(jobs, pl, c, Len(c))
    BY <1>1, ScanFindsJobs
  <1>3. PICK k \in Nat : k = Len(jobs) /\ DOMAIN jobs = 1 .. k
    BY <1>2 DEF ArePlaced
  <1>4. DOMAIN c = 1 .. Len(c) /\ Len(c) \in Nat
    <2>1. IsSequence(c)
      BY <1>1, CronAssumption
    <2> QED
      BY <2>1 DEF IsSequence
  <1>5. \A i \in 1 .. k : /\ pl[i] \in Lines(c) /\ c[pl[i][1]][pl[i][2]].kind = "job"
                          /\ jobs[i].hash = NormOf[c[pl[i][1]][pl[i][2]].raw]
    <2> SUFFICES ASSUME NEW i \in 1 .. k
                 PROVE  /\ pl[i] \in Lines(c) /\ c[pl[i][1]][pl[i][2]].kind = "job"
                        /\ jobs[i].hash = NormOf[c[pl[i][1]][pl[i][2]].raw]
      OBVIOUS
    <2>1. pl[i] \in JobPlaces(c, Len(c)) /\ jobs[i] = JobAt(c[pl[i][1]], pl[i][2])
      BY <1>2, <1>3 DEF ArePlaced
    <2>2. jobs[i].hash = NormOf[c[pl[i][1]][pl[i][2]].raw]
      BY <2>1 DEF JobAt
    <2> QED
      BY <2>1, <2>2 DEF JobPlaces
  <1>6. \A i \in 1 .. k : jobs[i].hash = h <=> pl[i] \in Defining(c, h)
    BY <1>5 DEF Defining
  <1>7. \A p \in Defining(c, h) : \E i \in 1 .. k : pl[i] = p
    <2> SUFFICES ASSUME NEW p \in Defining(c, h) PROVE \E i \in 1 .. k : pl[i] = p
      OBVIOUS
    <2>1. p \in Lines(c) /\ c[p[1]][p[2]].kind = "job"
      BY DEF Defining
    <2>2. p[1] <= Len(c)
      BY <1>4, <2>1, PlaceOf
    <2>3. p \in JobPlaces(c, Len(c))
      BY <2>1, <2>2 DEF JobPlaces
    <2> QED
      BY <1>2, <1>3, <2>3 DEF ArePlaced
  <1>8. \A i \in 1 .. k : jobs[i] = JobAt(c[pl[i][1]], pl[i][2])
    BY <1>2, <1>3 DEF ArePlaced
  <1>9. h \in {jobs[i].hash : i \in DOMAIN jobs} <=> Defining(c, h) # {}
    BY <1>3, <1>6, <1>7
  <1>10. ASSUME Defining(c, h) # {}
         PROVE  Upsert(map, jobs)[h] = Expected[c][h]
    <2>1. PICK n \in 1 .. k : /\ jobs[n].hash = h
                              /\ \A i \in 1 .. k : jobs[i].hash = h => i <= n
                              /\ Upsert(map, jobs)[h] = jobs[n]
      <3>1. h \in {jobs[i].hash : i \in DOMAIN jobs} /\ DOMAIN jobs \subseteq 1 .. k
        BY <1>3, <1>9, <1>10
      <3>2. PICK n \in DOMAIN jobs : /\ jobs[n].hash = h
                                     /\ \A i \in DOMAIN jobs : jobs[i].hash = h => i <= n
                                     /\ Upsert(map, jobs)[h] = jobs[n]
        BY <3>1, UpsertLast
      <3> QED
        BY <1>3, <3>2
    <2> DEFINE Lowest(p) == /\ p \in Defining(c, h)
                            /\ \A q \in Defining(c, h) :
                                  q[1] < p[1] \/ (q[1] = p[1] /\ q[2] <= p[2])
    <2>2. PICK p : p = LastLine(c, h)
      OBVIOUS
    <2>3. pl[n] \in Defining(c, h)
      BY <1>6, <2>1
    <2>4. \A q \in Defining(c, h) : /\ q = <<q[1], q[2]>> /\ q[1] \in Nat /\ q[2] \in Nat
      <3> SUFFICES ASSUME NEW q \in Defining(c, h)
                   PROVE  q = <<q[1], q[2]>> /\ q[1] \in Nat /\ q[2] \in Nat
        OBVIOUS
      <3>1. q \in Lines(c)
        BY DEF Defining
      <3>2. q[1] \in DOMAIN c /\ q[2] \in DOMAIN c[q[1]] /\ q = <<q[1], q[2]>>
        BY <3>1, PlaceOf
      <3>3. IsSequence(c[q[1]])
        BY <1>1, <3>2, CronAssumption
      <3>4. DOMAIN c[q[1]] = 1 .. Len(c[q[1]])
        BY <3>3 DEF IsSequence
      <3> QED
        BY <1>4, <3>2, <3>4
    <2>5. Lowest(pl[n])
      <3> SUFFICES ASSUME NEW q \in Defining(c, h)
                   PROVE  q[1] < pl[n][1] \/ (q[1] = pl[n][1] /\ q[2] <= pl[n][2])
        BY <2>3
      <3>1. PICK i \in 1 .. k : pl[i] = q
        BY <1>7
      <3>2. i = n \/ i < n
        BY <1>6, <2>1, <3>1
      <3>3. CASE i = n
        BY <2>4, <3>1, <3>3
      <3>4. CASE i < n
        <4>1. Above(q, pl[n])
          BY <1>2, <1>3, <3>1, <3>4 DEF ArePlaced
        <4> QED
          BY <2>3, <2>4, <4>1 DEF Above
      <3> QED
        BY <3>2, <3>3, <3>4
    <2>6. Lowest(p)
      BY <2>2, <2>5 DEF LastLine
    <2>7. p = pl[n]
      <3>1. p[1] = pl[n][1] /\ p[2] = pl[n][2]
        BY <2>4, <2>5, <2>6
      <3> QED
        BY <2>3, <2>4, <2>6, <3>1
    <2>8. Expected[c][h] = JobAt(c[p[1]], p[2])
      <3>1. c \in Crontabs /\ Defining(c, h) # {}
        BY <1>1, <2>3
      <3> QED
        BY <2>2, <3>1 DEF Expected
    <2> QED
      BY <1>8, <2>1, <2>7, <2>8
  <1> QED
    BY <1>1, <1>3, <1>6, <1>8, <1>9, <1>10

LEMMA DiscoveryExact ==
    ASSUME crontab \in Crontabs
    PROVE  IsExact(Upsert(NoJobs, Scan({})))
  <1> SUFFICES ASSUME NEW h \in Hashes
               PROVE  /\ h \in DOMAIN Upsert(NoJobs, Scan({})) <=> Defining(crontab, h) # {}
                      /\ h \in DOMAIN Upsert(NoJobs, Scan({})) =>
                             Upsert(NoJobs, Scan({}))[h] = Expected[crontab][h]
    BY DEF IsExact
  <1>1. PICK jobs : jobs = Scan({})
    OBVIOUS
  <1>2. DOMAIN Upsert(NoJobs, jobs) = DOMAIN NoJobs \cup {jobs[i].hash : i \in DOMAIN jobs}
    BY UpsertDomain
  <1>3. DOMAIN NoJobs = {}
    BY DEF NoJobs
  <1>4. /\ h \in {jobs[i].hash : i \in DOMAIN jobs} <=> Defining(crontab, h) # {}
        /\ Defining(crontab, h) # {} => Upsert(NoJobs, jobs)[h] = Expected[crontab][h]
    BY <1>1, LastJobWins
  <1> QED
    BY <1>1, <1>2, <1>3, <1>4

\* The jobs of an undisturbed discovery.
Found == Upsert(NoJobs, Scan({}))

\* While the crontabs stay and can be read, the agent knows what the first
\* discovery after its start has found.
KnownOK == ~disturbed => knownJobs = IF pc \in {"down", "boot"} THEN NoJobs ELSE Found

\* What it knows is exactly the jobs of the crontabs.
KnownExact == ~disturbed /\ pc \notin {"down", "boot"} => IsExact(knownJobs)

LEMMA FoundKept == ASSUME crontab' = crontab PROVE Found' = Found
  BY DEF Found, Scan, Upsert

\* A discovery that finds nothing new leaves knownJobs as it is.
LEMMA FoundAgain == Upsert(Found, Scan({})) = Found
  <1>1. PICK jobs : jobs = Scan({})
    OBVIOUS
  <1> DEFINE P(h) == {i \in DOMAIN jobs : jobs[i].hash = h}
             D == {jobs[i].hash : i \in DOMAIN jobs}
  <1>0. Found = Upsert(NoJobs, jobs)
    BY <1>1 DEF Found
  <1>2. DOMAIN Found = D
    <2>1. DOMAIN NoJobs = {}
      BY DEF NoJobs
    <2>2. DOMAIN Upsert(NoJobs, jobs) = DOMAIN NoJobs \cup D
      BY UpsertDomain
    <2> QED
      BY <1>0, <2>1, <2>2
  <1>3. DOMAIN Upsert(Found, jobs) = D
    BY <1>2, UpsertDomain
  <1>4. \A h \in D : P(h) # {}
    OBVIOUS
  <1>5. ASSUME NEW map, NEW h \in D
        PROVE  Upsert(map, jobs)[h] = jobs[Max(P(h))]
    BY <1>4, Zenon DEF Upsert
  <1>6. \A h \in D : Upsert(Found, jobs)[h] = Found[h]
    BY <1>0, <1>5
  <1>7. /\ Found = [h \in DOMAIN Found |-> Found[h]]
        /\ Upsert(Found, jobs) = [h \in DOMAIN Upsert(Found, jobs) |-> Upsert(Found, jobs)[h]]
    <2>1. ASSUME NEW map
          PROVE  Upsert(map, jobs) = [h \in DOMAIN Upsert(map, jobs) |-> Upsert(map, jobs)[h]]
      BY DEF Upsert
    <2> QED
      BY <1>1, <2>1 DEF Found
  <1> QED
    BY <1>1, <1>2, <1>3, <1>6, <1>7

LEMMA KnownSteps == KnownOK /\ [Next]_vars => KnownOK'
  <1> SUFFICES ASSUME KnownOK, [Next]_vars, ~disturbed'
               PROVE  knownJobs' = IF pc' \in {"down", "boot"} THEN NoJobs ELSE Found'
    BY DEF KnownOK
  <1>1. ASSUME UNCHANGED <<cronVars, disturbed>>,
               pc \in {"down", "boot"} <=> pc' \in {"down", "boot"}
        PROVE  knownJobs' = IF pc' \in {"down", "boot"} THEN NoJobs ELSE Found'
    <2>1. Found' = Found
      BY <1>1, FoundKept DEF cronVars
    <2> QED
      BY <1>1, <2>1 DEF KnownOK, cronVars
  <1>2. CASE UNCHANGED vars
    BY <1>1, <1>2 DEF vars, loopVars
  <1>3. CASE World
    BY <1>1, <1>3 DEF World
  <1>4. CASE Crash
    BY <1>4 DEF Crash, ForgetJobs
  <1>5. CASE Start
    BY <1>1, <1>5 DEF Start
  <1>6. CASE runDiscovery
    <2>1. PICK unreadable \in SUBSET DOMAIN crontab :
             /\ UpdateKnown(unreadable)
             /\ disturbed' = (disturbed \/ unreadable # {})
      BY <1>6 DEF runDiscovery
    <2>2. unreadable = {} /\ ~disturbed
      BY <2>1
    <2>3. knownJobs' = Upsert(knownJobs, Scan({})) /\ crontab' = crontab
      BY <2>1, <2>2 DEF UpdateKnown
    <2>4. pc' \notin {"down", "boot"}
      BY <1>6 DEF runDiscovery
    <2>5. knownJobs = NoJobs \/ knownJobs = Found
      BY <2>2 DEF KnownOK
    <2>6. knownJobs' = Found
      BY <2>3, <2>5, FoundAgain DEF Found
    <2> QED
      BY <2>3, <2>4, <2>6, FoundKept
  <1>7. CASE SubmitDiscovery
    <2>1. knownJobs' = knownJobs /\ crontab' = crontab /\ disturbed' = disturbed
      BY <1>7 DEF SubmitDiscovery, ProcessDiscovery
    <2>2. pc \notin {"down", "boot"} /\ pc' \notin {"down", "boot"}
      BY <1>7 DEF SubmitDiscovery
    <2> QED
      BY <2>1, <2>2, FoundKept DEF KnownOK
  <1>8. CASE MailTick \/ MailDone \/ ProcessDone
    BY <1>1, <1>8 DEF MailTick, MailDone, ProcessDone
  <1>9. CASE MailStep \/ ProcessStep
    BY <1>1, <1>9 DEF MailStep, ProcessStep
  <1>10. CASE runProcessScan
    BY <1>1, <1>10 DEF runProcessScan
  <1> QED
    BY <1>2, <1>3, <1>4, <1>5, <1>6, <1>7, <1>8, <1>9, <1>10 DEF Next, Handler

LEMMA KnownOKExact ==
    ASSUME crontab \in Crontabs, KnownOK
    PROVE  KnownExact
  BY DiscoveryExact DEF KnownOK, KnownExact, Found

\* parseCrontab, Scan and the map that runDiscovery fills, for crontabs of any
\* length: while the crontabs stay and can be read, the agent knows a job for
\* each command with a job line and no other, with the schedule of the last
\* such line in the order of the files and the time zone set above that line,
\* from the first discovery after each start on.
THEOREM KnownJobsExact == Spec => []KnownExact
  <1>1. Init => KnownOK
    BY DEF Init, CronInit, KnownOK
  <1>2. KnownOK /\ [Next]_vars => KnownOK'
    BY KnownSteps
  <1>3. Spec => []KnownOK
    BY <1>1, <1>2, PTL DEF Spec
  <1>4. TypeOK /\ KnownOK => KnownExact
    BY KnownOKExact DEF TypeOK
  <1> QED
    BY <1>3, <1>4, TypeCorrect, PTL

\* A mail loses its job only when no job of the crontabs is like it.
LEMMA AttributionStep ==
    ASSUME TypeOK, KnownExact, MailAttributed, [Next]_vars
    PROVE  MailAttributed'
  <1> SUFFICES ASSUME ~disturbed', NEW m \in orphans', NEW h \in Hashes,
                      <<h, m>> \in Related
               PROVE  Expected[crontab'][h] = None
    BY DEF MailAttributed
  <1>1. ASSUME orphans' = orphans, crontab' = crontab, ~disturbed
        PROVE  Expected[crontab'][h] = None
    BY <1>1 DEF MailAttributed
  <1>2. CASE UNCHANGED vars
    BY <1>1, <1>2 DEF vars, cronVars, mailVars, loopVars
  <1>3. CASE World
    BY <1>1, <1>3 DEF World, cronVars, mailVars, Deliver, Delete
  <1>4. CASE Crash
    BY <1>1, <1>4 DEF Crash, ForgetJobs, ForgetMail
  <1>5. CASE Start \/ MailDone \/ ProcessDone
    BY <1>1, <1>5 DEF Start, MailDone, ProcessDone, cronVars, mailVars
  <1>6. CASE runDiscovery
    BY <1>1, <1>6 DEF runDiscovery, UpdateKnown, mailVars
  <1>7. CASE SubmitDiscovery
    BY <1>1, <1>7 DEF SubmitDiscovery, ProcessDiscovery, StartScan, mailVars
  <1>8. CASE MailTick
    BY <1>1, <1>8 DEF MailTick, StartScan, cronVars
  <1>9. CASE runProcessScan \/ ProcessStep
    BY <1>1, <1>9 DEF runProcessScan, ProcessStep, cronVars, mailVars
  <1>10. CASE MailStep
    <2>1. crontab' = crontab /\ ~disturbed /\ pc = "mail"
      BY <1>10 DEF MailStep, cronVars
    <2>2. CASE \E p \in Paths : \/ CannotRead(p)
                               \/ \E known, saved \in BOOLEAN : ReadNew(p, known, saved)
      BY <1>1, <2>1, <2>2 DEF ReadNew, CannotRead
    <2>3. CASE \E k \in pending, ok \in BOOLEAN : processMailMessage(k, ok)
      <3>1. PICK k \in pending, ok \in BOOLEAN : processMailMessage(k, ok)
        BY <2>3
      <3>2. CASE m \in orphans
        BY <2>1, <3>2 DEF MailAttributed
      <3>3. CASE m \notin orphans
        <4>1. m = k[2] /\ ~(\E x \in Known : <<x, k[2]>> \in Related)
          BY <3>1, <3>3 DEF processMailMessage
        <4>2. h \notin DOMAIN knownJobs
          BY <4>1 DEF Known
        <4>3. Defining(crontab, h) = {}
          BY <2>1, <4>2 DEF KnownExact, IsExact
        <4>4. crontab \in Crontabs
          BY DEF TypeOK
        <4> QED
          BY <2>1, <4>3, <4>4 DEF Expected
      <3> QED
        BY <3>2, <3>3
    <2> QED
      BY <1>10, <2>2, <2>3 DEF MailStep
  <1> QED
    BY <1>2, <1>3, <1>4, <1>5, <1>6, <1>7, <1>8, <1>9, <1>10 DEF Next, Handler

\* With crontabs that stay and can be read, processMailMessage reports no mail
\* of one of their jobs without it: the first discovery after each start is
\* made before the first mail scan, and it misses no job line.
THEOREM MailAttributedTheorem == Spec => []MailAttributed
  <1>1. Init => MailAttributed
    BY DEF Init, MailInit, MailAttributed
  <1>2. TypeOK /\ KnownExact /\ MailAttributed /\ [Next]_vars => MailAttributed'
    BY AttributionStep
  <1> QED
    BY <1>1, <1>2, TypeCorrect, KnownJobsExact, PTL DEF Spec

-----------------------------------------------------------------------------
(* The rows of the server.                                                 *)

PayloadOK == ~disturbed /\ pc \in {"bootsubmit", "submit"} => payload = Scan({})

\* Every job row of the host is what a line of the crontabs says of the job,
\* though not always the last one.
RowsDefined ==
    ~disturbed =>
        \A h \in Hashes \cap DOMAIN serverJobs : \E p \in Defining(crontab, h) :
            serverJobs[h] = JobAt(crontab[p[1]], p[2])

\* The rows are those of the last lines.
RowsExact ==
    \A h \in Hashes : Defining(crontab, h) # {} =>
        h \in DOMAIN serverJobs /\ serverJobs[h] = Expected[crontab][h]

LEMMA PayloadSteps == PayloadOK /\ [Next]_vars => PayloadOK'
  <1> SUFFICES ASSUME PayloadOK, [Next]_vars, ~disturbed', pc' \in {"bootsubmit", "submit"}
               PROVE  payload' = Scan({})'
    BY DEF PayloadOK
  <1>1. ASSUME UNCHANGED <<cronVars, pc, disturbed>>
        PROVE  payload' = Scan({})'
    BY <1>1 DEF PayloadOK, cronVars, Scan
  <1>2. CASE UNCHANGED vars
    BY <1>1, <1>2 DEF vars, loopVars
  <1>3. CASE World
    BY <1>1, <1>3 DEF World
  <1>4. CASE Crash \/ Start \/ MailTick \/ MailDone \/ ProcessDone \/ runProcessScan
    BY <1>4 DEF Crash, Start, MailTick, MailDone, ProcessDone, runProcessScan
  <1>5. CASE runDiscovery
    <2>1. PICK unreadable \in SUBSET DOMAIN crontab :
             /\ UpdateKnown(unreadable)
             /\ disturbed' = (disturbed \/ unreadable # {})
      BY <1>5 DEF runDiscovery
    <2>2. unreadable = {}
      BY <2>1
    <2> QED
      BY <2>1, <2>2 DEF UpdateKnown, Scan
  <1>6. CASE SubmitDiscovery
    BY <1>6 DEF SubmitDiscovery
  <1>7. CASE MailStep \/ ProcessStep
    BY <1>1, <1>7 DEF MailStep, ProcessStep
  <1> QED
    BY <1>2, <1>3, <1>4, <1>5, <1>6, <1>7 DEF Next, Handler

LEMMA PayloadInvariant == Spec => []PayloadOK
  <1>1. Init => PayloadOK
    BY DEF Init, PayloadOK
  <1>2. PayloadOK /\ [Next]_vars => PayloadOK'
    BY PayloadSteps
  <1> QED
    BY <1>1, <1>2, PTL DEF Spec

LEMMA RowsSteps ==
    ASSUME TypeOK, PayloadOK, RowsDefined, [Next]_vars
    PROVE  RowsDefined'
  <1> SUFFICES ASSUME ~disturbed', NEW h \in Hashes \cap DOMAIN serverJobs'
               PROVE  \E p \in Defining(crontab', h) :
                          serverJobs'[h] = JobAt(crontab'[p[1]], p[2])
    BY DEF RowsDefined
  <1>1. ASSUME serverJobs' = serverJobs, crontab' = crontab, ~disturbed
        PROVE  \E p \in Defining(crontab', h) :
                   serverJobs'[h] = JobAt(crontab'[p[1]], p[2])
    BY <1>1 DEF RowsDefined
  <1>2. CASE UNCHANGED vars
    BY <1>1, <1>2 DEF vars, cronVars, loopVars
  <1>3. CASE World
    BY <1>1, <1>3 DEF World, cronVars
  <1>4. CASE Crash
    BY <1>1, <1>4 DEF Crash, ForgetJobs
  <1>5. CASE Start \/ MailTick \/ MailDone \/ ProcessDone
    BY <1>1, <1>5 DEF Start, MailTick, MailDone, ProcessDone, cronVars
  <1>6. CASE MailStep \/ ProcessStep \/ runProcessScan
    BY <1>1, <1>6 DEF MailStep, ProcessStep, runProcessScan, cronVars
  <1>7. CASE runDiscovery
    BY <1>1, <1>7 DEF runDiscovery, UpdateKnown
  <1>8. CASE SubmitDiscovery
    <2>1. PICK failing \in SUBSET DOMAIN payload : ProcessDiscovery(failing)
      BY <1>8 DEF SubmitDiscovery
    <2>2. ~disturbed /\ crontab' = crontab /\ payload = Scan({}) /\ crontab \in Crontabs
      BY <1>8, <2>1 DEF SubmitDiscovery, ProcessDiscovery, PayloadOK, TypeOK
    <2>3. PICK part : part = [i \in DOMAIN payload \ failing |-> payload[i]]
      OBVIOUS
    <2>4. serverJobs' = Upsert(serverJobs, part)
      BY <2>1, <2>3 DEF ProcessDiscovery, Restrict
    <2>5. CASE h \in {part[i].hash : i \in DOMAIN part}
      <3>1. PICK pl : ArePlaced(payload, pl, crontab, Len(crontab))
        BY <2>2, ScanFindsJobs
      <3>2. PICK k \in Nat : DOMAIN payload = 1 .. k
        BY <3>1 DEF ArePlaced
      <3>3. DOMAIN part \subseteq 1 .. k
        BY <2>3, <3>2
      <3>4. PICK n \in DOMAIN part : part[n].hash = h /\ Upsert(serverJobs, part)[h] = part[n]
        BY <2>5, <3>3, UpsertLast
      <3>5. n \in DOMAIN payload /\ part[n] = payload[n]
        BY <2>3, <3>4
      <3>6. \E p \in Defining(crontab, h) : payload[n] = JobAt(crontab[p[1]], p[2])
        BY <2>2, <3>4, <3>5, LastJobWins
      <3> QED
        BY <2>2, <2>4, <3>4, <3>5, <3>6
    <2>6. CASE h \notin {part[i].hash : i \in DOMAIN part}
      <3>1. h \in DOMAIN serverJobs
        BY <2>4, <2>6, UpsertDomain
      <3>2. serverJobs'[h] = serverJobs[h]
        <4>1. {i \in DOMAIN part : part[i].hash = h} = {}
          BY <2>6
        <4> QED
          BY <2>4, <3>1, <4>1, Zenon DEF Upsert
      <3> QED
        BY <2>2, <3>1, <3>2 DEF RowsDefined
    <2> QED
      BY <2>5, <2>6
  <1> QED
    BY <1>2, <1>3, <1>4, <1>5, <1>6, <1>7, <1>8 DEF Next, Handler

\* Rows that ProcessDiscovery cannot write are left out one by one, so an
\* older line of the same command may win on the server; but while the crontabs
\* stay and can be read, no row has a schedule or a time zone that no line of
\* its command has, whichever rows failed and whenever the agent was stopped.
THEOREM RowsComeFromLines == Spec => []RowsDefined
  <1>1. Init => RowsDefined
    BY DEF Init, CronInit, NoJobs, RowsDefined
  <1>2. TypeOK /\ PayloadOK /\ RowsDefined /\ [Next]_vars => RowsDefined'
    BY RowsSteps
  <1> QED
    BY <1>1, <1>2, TypeCorrect, PayloadInvariant, PTL DEF Spec

\* The other half, with crontabs that are edited at any time: a discovery that
\* reads every file submits the jobs of the crontabs as they are then, nothing
\* changes them on the way, and a submission of the jobs of the crontabs without
\* failures leaves exactly the last line of each command on the server, whatever
\* rows earlier crontabs, unreadable files and failed submissions left there.
THEOREM SubmissionRepairs ==
    Spec => /\ [][runDiscovery /\ UNCHANGED world => payload' = Scan({})']_vars
            /\ [][pc' = pc /\ pc \in {"bootsubmit", "submit"} => payload' = payload]_vars
            /\ [][SubmitDiscovery /\ payload = Scan({}) /\ UNCHANGED world
                      => RowsExact']_vars
  <1>1. ASSUME TypeOK, runDiscovery, UNCHANGED world
        PROVE  payload' = Scan({})'
    <2>1. PICK unreadable \in SUBSET DOMAIN crontab :
             UpdateKnown(unreadable) /\ Costs(unreadable # {})
      BY <1>1 DEF runDiscovery
    <2>2. unreadable = {}
      <3>1. world \in Nat
        BY <1>1 DEF TypeOK
      <3>2. unreadable # {} => world' = world + 1
        BY <2>1 DEF Costs, Event
      <3> QED
        BY <1>1, <3>1, <3>2
    <2> QED
      BY <2>1, <2>2 DEF UpdateKnown, Scan
  <1>2. ASSUME [Next]_vars, pc \in {"bootsubmit", "submit"}, pc' = pc
        PROVE  payload' = payload
    BY <1>2 DEF Next, Handler, World, Crash, Start, runDiscovery, SubmitDiscovery,
                MailTick, MailStep, MailDone, runProcessScan, ProcessStep,
                ProcessDone, EditCrontab, vars, cronVars
  <1>3. ASSUME TypeOK, payload = Scan({}), SubmitDiscovery, UNCHANGED world
        PROVE  RowsExact'
    <2>1. PICK failing \in SUBSET DOMAIN payload :
             ProcessDiscovery(failing) /\ Costs(failing # {})
      BY <1>3 DEF SubmitDiscovery
    <2>2. failing = {}
      <3>1. world \in Nat
        BY <1>3 DEF TypeOK
      <3>2. failing # {} => world' = world + 1
        BY <2>1 DEF Costs, Event
      <3> QED
        BY <1>3, <3>1, <3>2
    <2>3. crontab' = crontab /\ payload = Scan({}) /\ crontab \in Crontabs
      BY <1>3, <2>1 DEF ProcessDiscovery, TypeOK
    <2>4. serverJobs' = Upsert(serverJobs, payload)
      <3>1. PICK pl : ArePlaced(payload, pl, crontab, Len(crontab))
        BY <2>3, ScanFindsJobs
      <3>2. payload = [i \in DOMAIN payload |-> payload[i]]
        BY <3>1 DEF ArePlaced
      <3>3. DOMAIN payload \ failing = DOMAIN payload
        BY <2>2
      <3>4. Restrict(payload, DOMAIN payload \ failing) = payload
        BY <3>2, <3>3 DEF Restrict
      <3> QED
        BY <2>1, <3>4 DEF ProcessDiscovery
    <2> SUFFICES ASSUME NEW h \in Hashes, Defining(crontab, h) # {}
                 PROVE  h \in DOMAIN serverJobs' /\ serverJobs'[h] = Expected[crontab][h]
      BY <2>3 DEF RowsExact
    <2>5. /\ h \in {payload[i].hash : i \in DOMAIN payload}
          /\ Upsert(serverJobs, payload)[h] = Expected[crontab][h]
      BY <2>3, LastJobWins
    <2> QED
      BY <2>4, <2>5, UpsertDomain
  <1>4. TypeOK /\ [Next]_vars => [runDiscovery /\ UNCHANGED world => payload' = Scan({})']_vars
    BY <1>1
  <1>5. TypeOK /\ [Next]_vars =>
            [pc' = pc /\ pc \in {"bootsubmit", "submit"} => payload' = payload]_vars
    BY <1>2
  <1>6. TypeOK /\ [Next]_vars =>
            [SubmitDiscovery /\ payload = Scan({}) /\ UNCHANGED world => RowsExact']_vars
    BY <1>3
  <1> QED
    BY <1>4, <1>5, <1>6, TypeCorrect, PTL DEF Spec
=============================================================================
