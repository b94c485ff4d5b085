------------------------------ MODULE CronScan ------------------------------
(***************************************************************************)
(* Job discovery: what the scanner reads from the crontabs, what the agent *)
(* keeps in knownJobs and what the server stores in the jobs table.        *)
(*                                                                         *)
(* A crontab is a sequence of files in the order of Scan, a file is a      *)
(* sequence of lines.  A line is told apart by what parseCrontab makes of  *)
(* it; only a job line has a command, and only a "tz" line a time zone.    *)
(***************************************************************************)
EXTENDS Integers, SequencesExt, FiniteSetsExt

CONSTANTS Crontabs,    \* contents the crontabs can have
          Hashes,      \* command hashes, one for each normalised command
          NormOf,      \* the hash of a raw command once it is normalised
          UTC,
          None

\* Crontabs are sequences of sequences of lines.
IsSequence(s) == s \in Seq({s[i] : i \in DOMAIN s})

ASSUME CronAssumption ==
    \A c \in Crontabs :
        /\ IsSequence(c)
        /\ \A f \in DOMAIN c :
              /\ IsSequence(c[f])
              /\ \A i \in DOMAIN c[f] :
                    c[f][i].kind \in {"tz", "job", "comment", "at", "malformed"}

VARIABLES crontab,     \* contents of the cron files
          knownJobs,   \* map Agent.knownJobs from hashes, lost in a restart
          payload,     \* jobs of the discovery that is being submitted
          serverJobs   \* jobs rows of this host

cronVars == <<crontab, knownJobs, payload, serverJobs>>

Known  == Hashes \cap DOMAIN knownJobs
NoJobs == [h \in {} |-> None]

CronInit ==
    /\ crontab \in Crontabs
    /\ knownJobs = NoJobs
    /\ payload = <<>>
    /\ serverJobs = NoJobs

-----------------------------------------------------------------------------
parseCronLine(line, tz) ==
    [hash |-> NormOf[line.raw], raw |-> line.raw, sched |-> line.sched, tz |-> tz]

\* A blank line, a comment, an entry with @ and a line that is no entry leave
\* nothing; a CRON_TZ or TZ line holds for the lines below it.
ParseLine(acc, line) ==
    CASE line.kind = "tz"  -> [acc EXCEPT !.tz = line.tz]
      [] line.kind = "job" ->
             [acc EXCEPT !.jobs = Append(@, parseCronLine(line, acc.tz))]
      [] line.kind \in {"comment", "at", "malformed"} -> acc

\* Mutant: the time zone lines are recognised and then forgotten.
parseCrontabUTC(file) ==
    LET jobs == FoldLeft(ParseLine, [tz |-> UTC, jobs |-> <<>>], file).jobs
    IN  [i \in DOMAIN jobs |-> [jobs[i] EXCEPT !.tz = UTC]]

parseCrontab(file) ==
    FoldLeft(ParseLine, [tz |-> UTC, jobs |-> <<>>], file).jobs

\* Files that cannot be opened or read are left out.
Scan(unreadable) ==
    FlattenSeq([f \in DOMAIN crontab |->
                   IF f \in unreadable THEN <<>> ELSE parseCrontab(crontab[f])])

\* Both knownJobs and the jobs table are keyed by the hash: the last job wins.
Upsert(map, jobs) ==
    LET Places(h) == {i \in DOMAIN jobs : jobs[i].hash = h}
    IN  [h \in DOMAIN map \cup {jobs[i].hash : i \in DOMAIN jobs} |->
            IF Places(h) = {} THEN map[h] ELSE jobs[Max(Places(h))]]

\* Mutant: the agent starts from an empty map.
UpdateKnownAnew(unreadable) ==
    /\ knownJobs' = Upsert(NoJobs, Scan(unreadable))
    /\ payload' = Scan(unreadable)
    /\ UNCHANGED <<crontab, serverJobs>>

\* The first half of runDiscovery: nothing is ever removed from knownJobs.
UpdateKnown(unreadable) ==
    /\ knownJobs' = Upsert(knownJobs, Scan(unreadable))
    /\ payload' = Scan(unreadable)
    /\ UNCHANGED <<crontab, serverJobs>>

\* The second half: the handler upserts one job after the other and goes on
\* when one fails.  The agent only logs whether it got an answer.
ProcessDiscovery(failing) ==
    /\ serverJobs' = Upsert(serverJobs, Restrict(payload, DOMAIN payload \ failing))
    /\ payload' = <<>>
    /\ UNCHANGED <<crontab, knownJobs>>

EditCrontab(c) ==
    /\ crontab' = c
    /\ UNCHANGED <<knownJobs, payload, serverJobs>>

ForgetJobs ==
    /\ knownJobs' = NoJobs
    /\ payload' = <<>>
    /\ UNCHANGED <<crontab, serverJobs>>

-----------------------------------------------------------------------------
\* The lines of a crontab that define the job of hash h, as pairs of the file
\* and the line.
Lines(c) == UNION {{f} \X DOMAIN c[f] : f \in DOMAIN c}
Defining(c, h) == {p \in Lines(c) : /\ c[p[1]][p[2]].kind = "job"
                                    /\ NormOf[c[p[1]][p[2]].raw] = h}

\* The time zone of a line is set by the nearest line above it in its own file.
TzAt(file, n) ==
    LET zs == {i \in 1 .. n : file[i].kind = "tz"}
    IN  IF zs = {} THEN UTC ELSE file[Max(zs)].tz
JobAt(file, n) == [hash |-> NormOf[file[n].raw], raw |-> file[n].raw,
                   sched |-> file[n].sched, tz |-> TzAt(file, n)]

LastLine(c, h) == CHOOSE p \in Defining(c, h) :
                      \A q \in Defining(c, h) :
                          q[1] < p[1] \/ (q[1] = p[1] /\ q[2] <= p[2])

\* What should become of a job, for each crontab and hash: its last line decides.
Expected == [c \in Crontabs |-> [h \in Hashes |->
    IF Defining(c, h) = {} THEN None
    ELSE JobAt(c[LastLine(c, h)[1]], LastLine(c, h)[2])]]
=============================================================================
