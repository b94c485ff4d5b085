----------------------------- MODULE Observation -----------------------------
(***************************************************************************)
(* The observing part of the agent's main loop: discovery, process scans   *)
(* and mail scans take turns in one goroutine and share knownJobs, while   *)
(* crontabs are edited, processes come and go, mail is delivered and       *)
(* deleted, and the agent is stopped and started at any point.             *)
(***************************************************************************)
EXTENDS ProcessScan, MailSpool

CONSTANTS MaxWorld,    \* bound on edits, process and mail events and failures
          Failing      \* whether files, requests and the store can fail

VARIABLES pc,          \* where the main loop is
          world,       \* number of those events so far
          disturbed    \* history: a crontab changed or could not be read

loopVars == <<pc, world, disturbed>>
vars     == <<cronVars, procVars, mailVars, loopVars>>

ASSUME ObservationAssumption == MaxWorld \in Nat /\ Failing \in BOOLEAN

Init ==
    /\ CronInit
    /\ ProcInit
    /\ MailInit
    /\ pc = "down"
    /\ world = 0
    /\ disturbed = FALSE

\* One more event of the world, or none.
Event == world < MaxWorld /\ world' = world + 1
Costs(b) == IF b THEN Failing /\ Event ELSE UNCHANGED world

-----------------------------------------------------------------------------
(* The world *)

World ==
    /\ Event
    /\ UNCHANGED pc
    /\ \/ /\ \E c \in Crontabs \ {crontab} : EditCrontab(c)
          /\ disturbed' = TRUE
          /\ UNCHANGED <<procVars, mailVars>>
       \/ /\ \/ \E r \in Runs, q \in Pids, e \in Exes : Spawn(r, q, e)
             \/ \E r \in Runs : Exit(r)
          /\ UNCHANGED <<cronVars, mailVars, disturbed>>
       \/ /\ \/ \E m \in Mails : \E n \in 1 .. Size[m] : Deliver(m, n)
             \/ \E a, b \in DOMAIN spool : a <= b /\ Delete(a, b)
          /\ UNCHANGED <<cronVars, procVars, disturbed>>

\* The agent is killed, or its context is cancelled, and loses its memory.
Crash ==
    /\ pc # "down"
    /\ Event
    /\ pc' = "down"
    /\ ForgetJobs
    /\ ForgetRuns
    /\ ForgetMail
    /\ UNCHANGED disturbed

-----------------------------------------------------------------------------
(* The main loop *)

\* Mutant: the first mail scan comes before the first discovery.
StartMail ==
    /\ pc = "down"
    /\ pc' = "mail"
    /\ StartScan
    /\ UNCHANGED <<cronVars, procVars, world, disturbed>>

\* Before it waits for ticks, the loop runs a discovery and then a mail scan.
Start ==
    /\ pc = "down"
    /\ pc' = "boot"
    /\ UNCHANGED <<cronVars, procVars, mailVars, world, disturbed>>

runDiscovery ==
    /\ pc \in {"boot", "idle"}
    /\ \E unreadable \in SUBSET DOMAIN crontab :
          /\ UpdateKnown(unreadable)
          /\ Costs(unreadable # {})
          /\ disturbed' = (disturbed \/ unreadable # {})
    /\ pc' = IF pc = "boot" THEN "bootsubmit" ELSE "submit"
    /\ UNCHANGED <<procVars, mailVars>>

\* The request does not arrive, or some of its rows cannot be written.
SubmitDiscovery ==
    /\ pc \in {"bootsubmit", "submit"}
    /\ \E failing \in SUBSET DOMAIN payload :
          ProcessDiscovery(failing) /\ Costs(failing # {})
    /\ IF pc = "submit" THEN pc' = "idle" /\ UNCHANGED mailVars
       ELSE pc' = "mail" /\ StartScan
    /\ UNCHANGED <<procVars, disturbed>>

MailTick ==
    /\ pc = "idle"
    /\ pc' = "mail"
    /\ StartScan
    /\ UNCHANGED <<cronVars, procVars, world, disturbed>>

MailStep ==
    /\ pc = "mail"
    /\ \E ok \in BOOLEAN :
          /\ \/ \E p \in Paths : ReadNew(p, TRUE, ok) /\ (ok \/ Changes(p, TRUE))
             \/ ~ok /\ \E p \in Paths :
                          \/ CannotRead(p)
                          \/ \E saved \in BOOLEAN : ReadNew(p, FALSE, saved)
             \/ \E k \in pending : processMailMessage(k, ok)
          /\ Costs(~ok)
    /\ UNCHANGED <<cronVars, procVars, pc, disturbed>>

MailDone ==
    /\ pc = "mail"
    /\ reading = {} /\ pending = {}
    /\ pc' = "idle"
    /\ UNCHANGED <<cronVars, procVars, mailVars, world, disturbed>>

runProcessScan ==
    /\ pc = "idle"
    /\ \E unread \in SUBSET Alive :
          Snapshot(unread) /\ Costs(unread # {})
    /\ pc' = "scan"
    /\ UNCHANGED <<cronVars, mailVars, disturbed>>

\* All starts are reported before the first end.
ProcessStep ==
    /\ pc = "scan"
    /\ \E ok \in BOOLEAN :
          /\ \/ \E m \in todo : ReportStart(m, ok)
             \/ todo = {} /\ \E q \in Pids : ReportEnd(q, ok)
          /\ Costs(~ok)
    /\ UNCHANGED <<cronVars, mailVars, pc, disturbed>>

ProcessDone ==
    /\ pc = "scan"
    /\ todo = {} /\ Gone = {}
    /\ pc' = "idle"
    /\ UNCHANGED <<cronVars, procVars, mailVars, world, disturbed>>

-----------------------------------------------------------------------------
Handler == SubmitDiscovery \/ MailStep \/ MailDone \/ ProcessStep \/ ProcessDone

Next ==
    \/ World
    \/ Crash
    \/ Start
    \/ runDiscovery
    \/ MailTick
    \/ runProcessScan
    \/ Handler

Spec == Init /\ [][Next]_vars

\* A stopped agent is started again, a handler that began goes on, and the
\* select of the main loop serves every ticker again and again.  A tick is
\* told by the place it takes the loop to.
Turn(from, to) == pc = from /\ pc' = to

Fairness ==
    /\ WF_pc(Turn("down", "boot"))
    /\ WF_pc(Turn("boot", "bootsubmit"))
    /\ WF_vars(Handler)
    /\ \A to \in {"submit", "mail", "scan"} : SF_pc(Turn("idle", to))

FairSpec == Spec /\ Fairness

-----------------------------------------------------------------------------
\* The type of the state of the three observers.
TypeOK ==
    /\ pc \in {"down", "boot", "bootsubmit", "submit", "mail", "scan", "idle"}
    /\ world \in 0 .. MaxWorld
    /\ disturbed \in BOOLEAN
    /\ crontab \in Crontabs
    /\ proc \in [Runs -> {"new", "alive", "dead"}]
    /\ pidOf \in [Runs -> Pids \cup {None}]
    /\ exe \in [Runs -> Exes \cup {None}]
    /\ activeRun \in [Pids -> Runs \cup {None}]
    /\ activeHash \in [Pids -> Hashes \cup {None}]
    /\ todo \subseteq Keys
    /\ current \subseteq Pids
    /\ started \in [Keys -> Nat]
    /\ ended \in [Keys -> Nat]
    /\ slack \in [Keys -> Int]
    /\ misread \subseteq Runs /\ unswept \subseteq Runs /\ reused \subseteq Runs
    /\ spool \in Seq(Mails \X Nat)
    /\ wrote \in [Mails -> Nat]
    /\ offset \in [Paths -> Nat]
    /\ reading \subseteq Paths
    /\ pending \subseteq Paths \X Mails
    /\ reported \in [Paths \X Mails -> Nat]
    /\ rereads \in [Paths -> Nat]
    /\ orphans \subseteq Mails /\ stale \subseteq Paths
    /\ excused \subseteq Paths \X Mails

\* Every start the agent reported has its end, or its entry in activeJobs, or
\* was forgotten in a restart; and an end carries the job and the process of
\* a start, whatever happened to the PID and to knownJobs in between.
StartsAccounted ==
    \A k \in Keys :
        started[k] = ended[k] + slack[k] + (IF k \in Entries THEN 1 ELSE 0)

\* The end of a process is reported only when it is gone or was unreadable in
\* a scan; a job that leaves the crontab does not end its processes.
EndMeansGone ==
    \A k \in Keys : ended[k] > 0 => proc[k[1]] = "dead" \/ k[1] \in misread

\* A process a scan has matched is the one activeJobs holds for its PID, unless
\* the PID belonged to another one that ended since the scan before.
TrackedUnlessReused ==
    pc = "idle" =>
        \A r \in Alive : pidOf[r] \in current =>
            activeRun[pidOf[r]] = r \/ r \in reused

Within(m, n) == {<<m, i>> : i \in 1 .. Size[m]} \subseteq Pieces(0, n)

\* A cron mail that the offset has passed is reported, or about to be, unless
\* it was cut by a read, skipped in a file that was rewritten and has grown to
\* the old offset, or lost with the agent or by the store; and it is reported
\* once for each path, and once more for each read of the path that did not
\* begin at its offset or could not save it, whatever was deleted around it.
MailAccounted ==
    \A p \in Paths, m \in CronMails :
        /\ p \notin stale /\ offset[p] <= Len(spool) /\ Within(m, offset[p]) =>
               \/ reported[<<p, m>>] > 0
               \/ <<p, m>> \in pending \cup excused
        /\ reported[<<p, m>>] <= 1 + rereads[p]

\* mailspool.go: a message has a hash of its envelope and subject "for dedup".
\* So no message is reported twice under a path.
MailReportedOnce == \A k \in Paths \X Mails : reported[k] <= 1

\* The agent knows its jobs before it reads mail, after a restart as well:
\* with crontabs that stay and can be read, no mail of a job in them is
\* reported without its job.
MailAttributed ==
    ~disturbed =>
        \A m \in orphans, h \in Hashes :
            <<h, m>> \in Related => Expected[crontab][h] = None

\* Once the world is quiet, as it is in the end within the bound, what the
\* agent observed is reported: there is no entry for a PID that is not in use,
\* and every cron mail in the spool is reported under every path or excused.
ObservedReported ==
    []<>(/\ \A q \in Pids : activeRun[q] # None => \E r \in Alive : pidOf[r] = q
         /\ \A p \in Paths, m \in CronMails :
               Within(m, Len(spool)) =>
                   reported[<<p, m>>] > 0 \/ <<p, m>> \in excused)

\* The server ends up with every job of the crontabs as their last line and
\* the time zone above it define it, whatever failed on the way.
JobsReachServer ==
    []<>(\A h \in Hashes :
            \/ Expected[crontab][h] = None
            \/ h \in DOMAIN serverJobs /\ serverJobs[h] = Expected[crontab][h])
=============================================================================
