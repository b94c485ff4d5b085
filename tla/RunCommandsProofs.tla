-------------------------- MODULE RunCommandsProofs -------------------------
(***************************************************************************)
(* Proofs about RunCommands, for any number of commands, hosts, polls and  *)
(* failures.                                                               *)
(***************************************************************************)
EXTENDS RunCommands, TLAPS

LEMMA InitEstablishes == Init => RunInv
<1> SUFFICES ASSUME Init PROVE RunInv
  OBVIOUS
<1>1. TypeOK
  BY RunCommandsAssumption DEF Init, TypeOK, Final
<1>2. ClaimsConsistent
  BY DEF Init, ClaimsConsistent, ClaimsDisjoint
<1>3. RunsConsistent /\ FinalStatusTruthful
  BY DEF Init, RunsConsistent, FinalStatusTruthful, Final
<1> QED
  BY <1>1, <1>2, <1>3 DEF RunInv

\* EnqueueRuns only touches rows that are not visible to any claim before.
LEMMA TriggerPreserves ==
    ASSUME RunInv, InsertsConsistent, NEW t \in Triggers, TriggerStep(t)
    PROVE  RunInv'
<1> USE DEF RunInv, enqueue, claim, work
<1>1. ASSUME NEW c \in Cmds, InsertBegins(t, c)
      PROVE  RunInv'
  <2> USE <1>1 DEF InsertBegins
  <2>1. TypeOK'
    <3>1. Request[t].host \in Hosts
      BY RunCommandsAssumption
    <3>2. host' \in [Cmds -> Hosts \cup {None}]
      BY <3>1 DEF TypeOK
    <3>3. /\ clock' \in Nat /\ requestedAt' \in [Cmds -> Nat]
          /\ inserting' \in [Triggers -> SUBSET Cmds]
      BY DEF TypeOK
    <3> QED
      BY <3>2, <3>3 DEF TypeOK
  <2>2. ClaimsConsistent' /\ RunsConsistent' /\ FinalStatusTruthful'
    BY DEF ClaimsConsistent, ClaimsDisjoint, RunsConsistent, FinalStatusTruthful
  <2> QED
    BY <2>1, <2>2
<1>2. ASSUME NEW c \in Cmds, InsertCommits(t, c)
      PROVE  RunInv'
  <2> USE <1>2 DEF InsertCommits
  <2>1. status[c] = "none"
    BY DEF InsertsConsistent
  <2>2. TypeOK'
    <3>1. status' \in [Cmds -> {"none", "pending", "dispatched"} \cup Final]
      BY DEF TypeOK
    <3>2. queued' \in [Triggers -> Nat] /\ inserting' \in [Triggers -> SUBSET Cmds]
      BY DEF TypeOK
    <3> QED
      BY <3>1, <3>2 DEF TypeOK
  <2>3. ClaimsConsistent'
    BY <2>1 DEF ClaimsConsistent, ClaimsDisjoint, TypeOK
  <2>4. RunsConsistent' /\ FinalStatusTruthful'
    BY <2>1 DEF RunsConsistent, FinalStatusTruthful, Final, TypeOK
  <2> QED
    BY <2>2, <2>3, <2>4
<1>3. ASSUME EnqueueError(t) \/ EnqueueDone(t)
      PROVE  RunInv'
  <2> USE <1>3 DEF EnqueueError, EnqueueDone, Fault
  <2>1. TypeOK'
    <3>1. faults' \in 0..MaxFaults
      BY RunCommandsAssumption DEF TypeOK
    <3>2. trigger' \in [Triggers -> {"running", "accepted", "rejected"}]
      BY DEF TypeOK
    <3>3. inserting' \in [Triggers -> SUBSET Cmds]
      BY DEF TypeOK
    <3>4. UNCHANGED <<status, host, requestedAt, queued, clock, claim, work, lost>>
      OBVIOUS
    <3> QED
      BY <3>1, <3>2, <3>3, <3>4 DEF TypeOK
  <2>2. ClaimsConsistent' /\ RunsConsistent' /\ FinalStatusTruthful'
    BY DEF ClaimsConsistent, ClaimsDisjoint, RunsConsistent, FinalStatusTruthful
  <2> QED
    BY <2>1, <2>2
<1> QED
  BY <1>1, <1>2, <1>3 DEF TriggerStep

\* Rows locked by a claim are pending and free, so claims stay disjoint.
LEMMA PickPreserves ==
    ASSUME RunInv, NEW p \in Polls, NEW S \in SUBSET Cmds, PickPending(p, S)
    PROVE  RunInv'
<1> USE DEF RunInv, enqueue, work, PickPending
<1>1. S \subseteq Claimable(p)
  BY DEF Oldest
<1>2. TypeOK'
  <2>1. Overlooked(p) \subseteq Cmds
    BY DEF Overlooked
  <2> QED
    BY <2>1 DEF TypeOK
<1>3. \A c \in S : /\ status[c] = "pending"
                   /\ \A q \in Polls : c \notin picked[q]
  BY <1>1 DEF Claimable, ClaimsConsistent, TypeOK
<1>4. ClaimsConsistent'
  BY <1>3 DEF ClaimsConsistent, ClaimsDisjoint, TypeOK
<1>5. RunsConsistent' /\ FinalStatusTruthful'
  BY DEF RunsConsistent, FinalStatusTruthful
<1> QED
  BY <1>2, <1>4, <1>5

LEMMA CommitPreserves ==
    ASSUME RunInv, NEW p \in Polls, ClaimPending(p)
    PROVE  RunInv'
<1> USE DEF RunInv, enqueue, work
<1>1. \A c \in picked[p] : status[c] = "pending" /\ run[c] = "none"
  BY DEF ClaimPending, ClaimsConsistent, RunsConsistent, TypeOK
<1>2. TypeOK'
  BY DEF ClaimPending, Release, TypeOK
<1>3. ClaimsConsistent'
  <2>1. ClaimsDisjoint'
    BY DEF ClaimPending, Release, ClaimsConsistent, ClaimsDisjoint, TypeOK
  <2>2. ASSUME NEW q \in Polls, q # p
        PROVE  /\ at'[q] = at[q]
               /\ picked'[q] = picked[q]
               /\ \A c \in picked[q] : c \in Cmds /\ status'[c] = status[c]
    BY <2>2 DEF ClaimPending, Release, ClaimsConsistent, ClaimsDisjoint, TypeOK
  <2>3. \/ at'[p] = "free" /\ picked'[p] = {}
        \/ /\ at'[p] = "replied" /\ picked'[p] = picked[p]
           /\ \A c \in picked[p] : status'[c] = "dispatched" /\ run'[c] = "none"
    BY <1>1 DEF ClaimPending, Release, TypeOK
  <2>4. run' = run
    BY DEF ClaimPending
  <2> QED
    BY <2>1, <2>2, <2>3, <2>4 DEF ClaimsConsistent
<1>4. RunsConsistent' /\ FinalStatusTruthful'
  BY <1>1 DEF ClaimPending, RunsConsistent, FinalStatusTruthful, Final, TypeOK
<1> QED
  BY <1>2, <1>3, <1>4

\* The steps of a claim that change no command.
LEMMA ClaimPreserves ==
    ASSUME RunInv, NEW p \in Polls,
           \/ \E h \in Hosts : ClaimRunCommands(h, p)
           \/ ClaimRollback(p)
           \/ PollLost(p)
    PROVE  RunInv'
<1> USE DEF RunInv, enqueue, work, ClaimRunCommands, ClaimRollback, PollLost,
            Release, Fault
<1>1. TypeOK'
  <2>1. faults' \in 0..MaxFaults
    BY RunCommandsAssumption DEF TypeOK
  <2>2. at' \in [Polls -> {"free", "sent", "locked", "replied"}]
    BY DEF TypeOK
  <2>3. forHost' \in [Polls -> Hosts \cup {None}]
    BY DEF TypeOK
  <2>4. waiting' \in [Polls -> BOOLEAN]
    BY DEF TypeOK
  <2>5. picked' \in [Polls -> SUBSET Cmds] /\ lost' \subseteq Cmds
    BY DEF TypeOK
  <2> QED
    BY <2>1, <2>2, <2>3, <2>4, <2>5 DEF TypeOK
<1>2. ClaimsConsistent'
  <2>1. CASE \E h \in Hosts : ClaimRunCommands(h, p)
    BY <2>1 DEF ClaimsConsistent, ClaimsDisjoint, TypeOK
  <2>2. CASE ClaimRollback(p)
    BY <2>2 DEF ClaimsConsistent, ClaimsDisjoint, TypeOK
  <2>3. CASE PollLost(p)
    BY <2>3 DEF ClaimsConsistent, ClaimsDisjoint, TypeOK
  <2> QED
    BY <2>1, <2>2, <2>3
<1>3. RunsConsistent' /\ FinalStatusTruthful'
  BY DEF RunsConsistent, FinalStatusTruthful
<1> QED
  BY <1>1, <1>2, <1>3

\* The goroutines of an answer are new.
LEMMA PollOKPreserves ==
    ASSUME RunInv, NEW p \in Polls, PollOK(p)
    PROVE  RunInv'
<1> USE DEF RunInv, enqueue, PollOK, Release
<1>1. \A c \in picked[p] : status[c] = "dispatched" /\ run[c] = "none"
  BY DEF ClaimsConsistent, TypeOK
<1>2. TypeOK'
  BY DEF TypeOK
<1>3. ClaimsConsistent'
  BY DEF ClaimsConsistent, ClaimsDisjoint, TypeOK
<1>4. RunsConsistent' /\ FinalStatusTruthful'
  BY <1>1 DEF RunsConsistent, FinalStatusTruthful, Final, TypeOK
<1> QED
  BY <1>2, <1>3, <1>4

LEMMA RunPreserves ==
    ASSUME RunInv, NEW c \in Cmds, RunStep(c)
    PROVE  RunInv'
<1> USE DEF RunInv, enqueue, claim
<1>1. ASSUME StartCommand(c)
      PROVE  RunInv'
  <2> USE <1>1 DEF StartCommand, WriteLocal, Fault
  <2>1. TypeOK'
    <3>1. faults' \in 0..MaxFaults
      BY RunCommandsAssumption DEF TypeOK
    <3>2. local' \in [Cmds -> {"none", "running"} \cup Final]
      BY DEF TypeOK
    <3>3. run' \in [Cmds -> {"none", "start", "exec", "save", "buffer", "complete",
                            "done", "dead"}]
      BY DEF TypeOK
    <3>4. execs' \in [Cmds -> Nat]
      BY DEF TypeOK
    <3> QED
      BY <3>1, <3>2, <3>3, <3>4 DEF TypeOK
  <2>2. ClaimsConsistent'
    BY DEF ClaimsConsistent, ClaimsDisjoint, TypeOK
  <2>3. RunsConsistent' /\ FinalStatusTruthful'
    BY DEF RunsConsistent, FinalStatusTruthful, Final, TypeOK
  <2> QED
    BY <2>1, <2>2, <2>3
<1>2. ASSUME NEW o \in {"success", "failed"}, FinishCommand(c, o)
      PROVE  RunInv'
  <2> USE <1>2 DEF FinishCommand
  <2>1. TypeOK'
    BY DEF TypeOK, Final
  <2>2. ClaimsConsistent'
    BY DEF ClaimsConsistent, ClaimsDisjoint, TypeOK
  <2>3. RunsConsistent' /\ FinalStatusTruthful'
    BY DEF RunsConsistent, FinalStatusTruthful, Final, TypeOK
  <2> QED
    BY <2>1, <2>2, <2>3
<1>3. ASSUME SaveLocalExecution(c)
      PROVE  RunInv'
  <2> USE <1>3 DEF SaveLocalExecution, WriteLocal, Fault
  <2>1. TypeOK'
    <3>1. faults' \in 0..MaxFaults
      BY RunCommandsAssumption DEF TypeOK
    <3>2. local' \in [Cmds -> {"none", "running"} \cup Final]
      BY DEF TypeOK, RunsConsistent
    <3> QED
      BY <3>1, <3>2 DEF TypeOK
  <2>2. ClaimsConsistent'
    BY DEF ClaimsConsistent, ClaimsDisjoint, TypeOK
  <2>3. RunsConsistent' /\ FinalStatusTruthful'
    BY DEF RunsConsistent, FinalStatusTruthful, Final, TypeOK
  <2> QED
    BY <2>1, <2>2, <2>3
<1>4. ASSUME BufferOutcome(c)
      PROVE  RunInv'
  <2> USE <1>4 DEF BufferOutcome, Fault
  <2>1. TypeOK'
    <3>1. faults' \in 0..MaxFaults
      BY RunCommandsAssumption DEF TypeOK
    <3>2. buffered' \in [Cmds -> {"no", "yes", "refused"}]
      BY DEF TypeOK
    <3> QED
      BY <3>1, <3>2 DEF TypeOK
  <2>2. ClaimsConsistent'
    BY DEF ClaimsConsistent, ClaimsDisjoint, TypeOK
  <2>3. RunsConsistent' /\ FinalStatusTruthful'
    BY DEF RunsConsistent, FinalStatusTruthful, Final, TypeOK
  <2> QED
    BY <2>1, <2>2, <2>3
<1>5. ASSUME Complete(c)
      PROVE  RunInv'
  <2> USE <1>5 DEF Complete
  <2>1. outcome[c] \in Final /\ execs[c] = 1 /\ buffered[c] # "no" /\ status[c] = "dispatched"
    BY DEF RunsConsistent
  <2>2. TypeOK'
    BY <2>1 DEF TypeOK
  <2>3. ClaimsConsistent'
    BY <2>1 DEF ClaimsConsistent, ClaimsDisjoint, TypeOK
  <2>4. RunsConsistent' /\ FinalStatusTruthful'
    BY <2>1 DEF RunsConsistent, FinalStatusTruthful, Final, TypeOK
  <2> QED
    BY <2>2, <2>3, <2>4
<1>6. ASSUME CompleteLost(c)
      PROVE  RunInv'
  <2> USE <1>6 DEF CompleteLost, Fault
  <2>1. TypeOK'
    BY RunCommandsAssumption DEF TypeOK
  <2>2. ClaimsConsistent'
    BY DEF ClaimsConsistent, ClaimsDisjoint, TypeOK
  <2>3. RunsConsistent' /\ FinalStatusTruthful'
    BY DEF RunsConsistent, FinalStatusTruthful, Final, TypeOK
  <2> QED
    BY <2>1, <2>2, <2>3
<1> QED
  BY <1>1, <1>2, <1>3, <1>4, <1>5, <1>6 DEF RunStep

LEMMA RestartPreserves ==
    ASSUME RunInv, NEW h \in Hosts, Restart(h)
    PROVE  RunInv'
<1> USE DEF RunInv, enqueue, Restart, Fault
<1>1. TypeOK'
  <2>1. faults' \in 0..MaxFaults
    BY RunCommandsAssumption DEF TypeOK
  <2>2. lost' \subseteq Cmds
    <3>1. lost \subseteq Cmds /\ Busy(h) \subseteq Cmds
      BY DEF TypeOK, Busy
    <3>2. \A p \in Polls : picked[p] \subseteq Cmds
      BY DEF TypeOK
    <3>3. UNION {picked[p] : p \in Answers(h)} \subseteq Cmds
      BY <3>2 DEF Answers
    <3> QED
      BY <3>1, <3>3
  <2>3. waiting' \in [Polls -> BOOLEAN]
    BY DEF TypeOK
  <2>4. /\ at' \in [Polls -> {"free", "sent", "locked", "replied"}]
        /\ forHost' \in [Polls -> Hosts \cup {None}]
        /\ picked' \in [Polls -> SUBSET Cmds]
    BY DEF TypeOK
  <2>5. run' \in [Cmds -> {"none", "start", "exec", "save", "buffer", "complete",
                          "done", "dead"}]
    BY DEF TypeOK
  <2> QED
    BY <2>1, <2>2, <2>3, <2>4, <2>5 DEF TypeOK
<1>2. ClaimsConsistent'
  BY DEF ClaimsConsistent, ClaimsDisjoint, Busy, TypeOK
<1>3. RunsConsistent' /\ FinalStatusTruthful'
  BY DEF RunsConsistent, FinalStatusTruthful, Final, Busy, TypeOK
<1> QED
  BY <1>1, <1>2, <1>3

LEMMA StepPreserves ==
    ASSUME RunInv, InsertsConsistent, [Next]_vars
    PROVE  RunInv'
<1>1. ASSUME NEW p \in Polls, ClaimStep(p)
      PROVE  RunInv'
  BY <1>1, PickPreserves, CommitPreserves, ClaimPreserves, PollOKPreserves
     DEF ClaimStep
<1>2. ASSUME UNCHANGED vars
      PROVE  RunInv'
  BY <1>2 DEF vars, enqueue, claim, work, RunInv, TypeOK, ClaimsConsistent,
              ClaimsDisjoint, RunsConsistent, FinalStatusTruthful
<1> QED
  BY <1>1, <1>2, TriggerPreserves, RunPreserves, RestartPreserves DEF Next

-----------------------------------------------------------------------------
(* Commands that are not finished, and the order they are handed out in.   *)

LEMMA NeverStrandedStep ==
    ASSUME RunInv, NeverStranded, [Next]_vars
    PROVE  NeverStranded'
<1> USE DEF RunInv, TypeOK, NeverStranded, ClaimsConsistent, RunsConsistent, Final, enqueue, claim, work
<1>1. ASSUME NEW t \in Triggers, TriggerStep(t)
      PROVE  NeverStranded'
  <2>1. CASE \E c \in Cmds : InsertBegins(t, c)
    BY <2>1 DEF InsertBegins
  <2>2. CASE \E c \in Cmds : InsertCommits(t, c)
    BY <2>2 DEF InsertCommits
  <2>3. CASE EnqueueError(t) \/ EnqueueDone(t)
    BY <2>3 DEF EnqueueError, EnqueueDone
  <2> QED
    BY <1>1, <2>1, <2>2, <2>3 DEF TriggerStep
<1>2. ASSUME NEW p \in Polls, ClaimStep(p)
      PROVE  NeverStranded'
  <2>1. CASE \E h \in Hosts : ClaimRunCommands(h, p)
    BY <2>1 DEF ClaimRunCommands
  <2>2. CASE \E S \in SUBSET Cmds : PickPending(p, S)
    BY <2>2 DEF PickPending, Oldest, Claimable
  <2>3. CASE ClaimPending(p)
    BY <2>3 DEF ClaimPending, Release
  <2>4. CASE ClaimRollback(p)
    BY <2>4 DEF ClaimRollback, Release, Fault
  <2>5. CASE PollLost(p)
    BY <2>5 DEF PollLost, Release, Fault
  <2>6. CASE PollOK(p)
    BY <2>6 DEF PollOK, Release
  <2> QED
    BY <1>2, <2>1, <2>2, <2>3, <2>4, <2>5, <2>6 DEF ClaimStep
<1>3. ASSUME NEW c \in Cmds, RunStep(c)
      PROVE  NeverStranded'
  <2>1. CASE StartCommand(c)
    BY <2>1 DEF StartCommand, WriteLocal, Fault
  <2>2. CASE \E o \in {"success", "failed"} : FinishCommand(c, o)
    BY <2>2 DEF FinishCommand
  <2>3. CASE SaveLocalExecution(c)
    BY <2>3 DEF SaveLocalExecution, WriteLocal, Fault
  <2>4. CASE BufferOutcome(c)
    BY <2>4 DEF BufferOutcome, Fault
  <2>5. CASE Complete(c)
    BY <2>5 DEF Complete
  <2>6. CASE CompleteLost(c)
    BY <2>6 DEF CompleteLost, Fault
  <2> QED
    BY <1>3, <2>1, <2>2, <2>3, <2>4, <2>5, <2>6 DEF RunStep
<1>4. ASSUME NEW h \in Hosts, Restart(h)
      PROVE  NeverStranded'
  BY <1>4 DEF Restart, Busy, Answers, Fault
<1>5. ASSUME UNCHANGED vars
      PROVE  NeverStranded'
  BY <1>5 DEF vars
<1> QED
  BY <1>1, <1>2, <1>3, <1>4, <1>5 DEF Next

\* An insert is of a row that nothing else inserts, and it ends when the row
\* becomes visible.
LEMMA InsertsStep ==
    ASSUME RunInv, InsertsConsistent, [Next]_vars
    PROVE  InsertsConsistent'
<1> USE DEF RunInv, TypeOK, InsertsConsistent, RunsConsistent, ClaimsConsistent, Final,
            enqueue, claim, work
<1>1. ASSUME NEW t \in Triggers, TriggerStep(t)
      PROVE  InsertsConsistent'
  <2>1. CASE \E c \in Cmds : InsertBegins(t, c)
    BY <2>1 DEF InsertBegins
  <2>2. CASE \E c \in Cmds : InsertCommits(t, c)
    BY <2>2 DEF InsertCommits
  <2>3. CASE EnqueueError(t) \/ EnqueueDone(t)
    <3>1. status' = status
      BY <2>3 DEF EnqueueError, EnqueueDone
    <3>2. inserting' = inserting \/ inserting' = [inserting EXCEPT ![t] = {}]
      BY <2>3 DEF EnqueueError, EnqueueDone
    <3>3. inserting \in [Triggers -> SUBSET Cmds]
      OBVIOUS
    <3>4. \A u \in Triggers : inserting'[u] = inserting[u] \/ inserting'[u] = {}
      BY <3>2, <3>3
    <3> QED
      BY <3>1, <3>4
  <2> QED
    BY <1>1, <2>1, <2>2, <2>3 DEF TriggerStep
<1>2. ASSUME NEW p \in Polls, ClaimStep(p)
      PROVE  InsertsConsistent'
  <2>1. CASE ClaimPending(p)
    BY <2>1 DEF ClaimPending
  <2>2. CASE ~ClaimPending(p)
    BY <1>2, <2>2 DEF ClaimStep, ClaimRunCommands, PickPending, ClaimRollback, PollLost, PollOK
  <2> QED
    BY <2>1, <2>2
<1>3. ASSUME NEW c \in Cmds, RunStep(c)
      PROVE  InsertsConsistent'
  <2>1. CASE Complete(c)
    BY <2>1 DEF Complete
  <2>2. CASE ~Complete(c)
    BY <1>3, <2>2 DEF RunStep, StartCommand, FinishCommand, SaveLocalExecution,
                      BufferOutcome, CompleteLost
  <2> QED
    BY <2>1, <2>2
<1>4. ASSUME (\E h \in Hosts : Restart(h)) \/ UNCHANGED vars
      PROVE  InsertsConsistent'
  BY <1>4 DEF Restart, vars
<1> QED
  BY <1>1, <1>2, <1>3, <1>4 DEF Next

LEMMA StampedStep ==
    ASSUME RunInv, Stamped, [Next]_vars
    PROVE  Stamped'
<1> USE DEF RunInv, TypeOK, Stamped, enqueue, claim, work
<1>1. ASSUME NEW t \in Triggers, TriggerStep(t)
      PROVE  Stamped'
  <2>1. CASE \E c \in Cmds : InsertBegins(t, c)
    BY <2>1 DEF InsertBegins
  <2>2. CASE ~\E c \in Cmds : InsertBegins(t, c)
    BY <1>1, <2>2 DEF TriggerStep, InsertCommits, EnqueueError, EnqueueDone
  <2> QED
    BY <2>1, <2>2
<1>2. ASSUME ~\E t \in Triggers : TriggerStep(t)
      PROVE  UNCHANGED <<requestedAt, clock>>
  BY <1>2 DEF Next, ClaimStep, RunStep, ClaimRunCommands, PickPending, ClaimPending,
              ClaimRollback, PollLost, PollOK, StartCommand, FinishCommand,
              SaveLocalExecution, BufferOutcome, Complete, CompleteLost, Restart, vars
<1> QED
  BY <1>1, <1>2

\* Where a step makes no command wait or taken that was not, keeps the hosts,
\* the times and the locks, and forgets no overlooked command, the order stays.
LEMMA OrderKept ==
    ASSUME TypeOK, OlderFirst,
           \A c \in Cmds : (Waits(c)' => Waits(c)) /\ (Taken(c)' => Taken(c)),
           host' = host, requestedAt' = requestedAt, passed \subseteq passed',
           \A p \in Polls : at[p] = "locked" => at'[p] = "locked" /\ picked'[p] = picked[p]
    PROVE  OlderFirst'
BY DEF OlderFirst

\* A new row has a later time than every command that is taken, and none is
\* visible in a claim before its insert commits.
LEMMA TriggerOrder ==
    ASSUME RunInv, OrderInv, NEW t \in Triggers, TriggerStep(t)
    PROVE  OlderFirst'
<1> USE DEF RunInv, enqueue, claim, work
<1>1. ASSUME NEW c \in Cmds, InsertBegins(t, c)
      PROVE  OlderFirst'
  <2> USE <1>1 DEF InsertBegins
  <2>1. ~Taken(c)
    BY DEF Taken, Final, ClaimsConsistent
  <2>2. \A d \in Cmds : /\ Taken(d)' <=> Taken(d)
                        /\ d # c => (Waits(d)' <=> Waits(d))
    BY DEF Taken, Waits, TypeOK
  <2>3. \A d \in Cmds : d # c => host'[d] = host[d] /\ requestedAt'[d] = requestedAt[d]
    BY DEF TypeOK
  <2>4. \A d \in Cmds : requestedAt[d] < requestedAt'[c] /\ requestedAt[d] \in Nat
    BY DEF TypeOK, OrderInv, Stamped
  <2>5. UNCHANGED <<at, picked, passed>>
    OBVIOUS
  <2> QED
    BY <2>1, <2>2, <2>3, <2>4, <2>5 DEF OrderInv, OlderFirst
<1>2. ASSUME NEW c \in Cmds, InsertCommits(t, c)
      PROVE  OlderFirst'
  <2> USE <1>2 DEF InsertCommits
  <2>1. \A d \in Cmds : (Taken(d)' => Taken(d)) /\ (Waits(d)' => Waits(d))
    BY DEF Taken, Waits, TypeOK, Final
  <2> QED
    BY <2>1, OrderKept DEF OrderInv
<1>3. ASSUME EnqueueError(t) \/ EnqueueDone(t)
      PROVE  OlderFirst'
  <2> USE <1>3 DEF EnqueueError, EnqueueDone
  <2>1. \A d \in Cmds : (Taken(d)' => Taken(d)) /\ (Waits(d)' => Waits(d))
    BY DEF Taken, Waits, TypeOK
  <2> QED
    BY <2>1, OrderKept DEF OrderInv
<1> QED
  BY <1>1, <1>2, <1>3 DEF TriggerStep

\* What a claim leaves behind is later than what it takes, or overlooked.
LEMMA PickOrder ==
    ASSUME RunInv, OrderInv, NEW p \in Polls, NEW S \in SUBSET Cmds, PickPending(p, S)
    PROVE  OlderFirst'
<1> USE DEF RunInv, enqueue, work, PickPending
<1>1. ASSUME NEW c \in Cmds, NEW d \in Cmds, host[c] = host[d], Waits(c), d \in S
      PROVE  \/ requestedAt[d] < requestedAt[c]
             \/ c \in passed'
             \/ c \in S
  <2>1. host[d] = forHost[p] /\ d \in Claimable(p)
    BY <1>1 DEF Oldest, Claimable
  <2>2. CASE c \in Claimable(p)
    BY <1>1, <2>1, <2>2 DEF Oldest
  <2>3. CASE c \notin Claimable(p)
    BY <1>1, <2>1, <2>3 DEF Claimable, Overlooked, Waits
  <2> QED
    BY <2>2, <2>3
<1>2. \A c \in Cmds : /\ Waits(c)' <=> Waits(c)
                      /\ Taken(c)' => Taken(c) \/ c \in S
  BY DEF Waits, Taken, TypeOK
<1>3. /\ at'[p] = "locked" /\ picked'[p] = S /\ at[p] = "sent"
      /\ \A q \in Polls : q # p => at'[q] = at[q] /\ picked'[q] = picked[q]
      /\ passed \subseteq passed'
      /\ UNCHANGED <<host, requestedAt>>
  BY DEF TypeOK
<1> QED
  BY <1>1, <1>2, <1>3 DEF OrderInv, OlderFirst

\* A commit hands out all that the claim has locked, and nothing else.
LEMMA CommitOrder ==
    ASSUME RunInv, OrderInv, NEW p \in Polls, ClaimPending(p)
    PROVE  OlderFirst'
<1> USE DEF RunInv, enqueue, work, ClaimPending, Release
<1>1. \A c \in Cmds : /\ Waits(c)' => Waits(c)
                      /\ c \in picked[p] => ~Waits(c)'
                      /\ Taken(c)' => Taken(c)
  <2>1. inserting' = inserting /\ \A c \in Cmds : c \in picked[p] => status'[c] = "dispatched"
    BY DEF TypeOK
  <2>2. \A c \in picked[p], t \in Triggers : c \notin inserting[t]
    BY DEF OrderInv, InsertsConsistent, ClaimsConsistent
  <2>3. \A c \in Cmds : Waits(c)' => Waits(c)
    BY <2>1 DEF Waits, TypeOK
  <2>4. \A c \in Cmds : c \in picked[p] => ~Waits(c)'
    BY <2>1, <2>2 DEF Waits
  <2>5. \A c \in Cmds : Taken(c)' => Taken(c)
    BY DEF Taken, TypeOK
  <2> QED
    BY <2>3, <2>4, <2>5
<1>2. /\ \A q \in Polls : q # p => at'[q] = at[q] /\ picked'[q] = picked[q]
      /\ UNCHANGED <<host, requestedAt, passed>>
  BY DEF TypeOK
<1> QED
  BY <1>1, <1>2 DEF OrderInv, OlderFirst

\* A rollback gives up all that the claim has locked.
LEMMA RollbackOrder ==
    ASSUME RunInv, OrderInv, NEW p \in Polls, ClaimRollback(p)
    PROVE  OlderFirst'
<1> USE DEF RunInv, enqueue, work, ClaimRollback, Release
<1>1. /\ at'[p] = "free"
      /\ \A q \in Polls : q # p => at'[q] = at[q] /\ picked'[q] = picked[q]
      /\ UNCHANGED <<host, requestedAt, passed, status, inserting>>
  BY DEF TypeOK
<1>2. \A c \in Cmds : Waits(c)' = Waits(c) /\ (Taken(c)' => Taken(c))
  BY <1>1 DEF Waits, Taken
<1>3. ASSUME NEW c \in Cmds, c \in picked[p], Taken(c)'
      PROVE  at[p] # "locked"
  BY <1>1, <1>3 DEF Taken, ClaimsConsistent, ClaimsDisjoint, Final, TypeOK
<1> QED
  BY <1>1, <1>2, <1>3 DEF OrderInv, OlderFirst

LEMMA OrderStep ==
    ASSUME RunInv, OrderInv, [Next]_vars
    PROVE  OlderFirst'
<1> USE DEF RunInv, enqueue, claim, work
<1>1. ASSUME NEW p \in Polls, ClaimStep(p)
      PROVE  OlderFirst'
  <2>1. CASE \/ \E h \in Hosts : ClaimRunCommands(h, p)
             \/ PollLost(p) \/ PollOK(p)
    <3>1. /\ UNCHANGED <<host, requestedAt, passed, status, inserting>>
          /\ \A q \in Polls : (at[q] = "locked" => at'[q] = "locked" /\ picked'[q] = picked[q])
          /\ \A q \in Polls : at'[q] = "locked" => at[q] = "locked"
      BY <2>1 DEF ClaimRunCommands, PollLost, PollOK, Release, TypeOK
    <3>2. \A c \in Cmds : (Waits(c)' => Waits(c)) /\ (Taken(c)' => Taken(c))
      BY <3>1 DEF Waits, Taken
    <3> QED
      BY <3>1, <3>2, OrderKept DEF OrderInv
  <2> QED
    BY <1>1, <2>1, PickOrder, CommitOrder, RollbackOrder DEF ClaimStep
<1>2. ASSUME NEW c \in Cmds, RunStep(c)
      PROVE  OlderFirst'
  <2>1. /\ UNCHANGED <<host, requestedAt, passed, inserting, at, picked>>
        /\ \A d \in Cmds : (status'[d] = "pending" => status[d] = "pending")
        /\ \A d \in Cmds : status'[d] # status[d] => status[d] = "dispatched"
    BY <1>2 DEF RunStep, StartCommand, FinishCommand, SaveLocalExecution, BufferOutcome,
                Complete, CompleteLost, TypeOK, RunsConsistent, Final
  <2>2. \A d \in Cmds : (Waits(d)' => Waits(d)) /\ (Taken(d)' => Taken(d))
    BY <2>1 DEF Waits, Taken
  <2> QED
    BY <2>1, <2>2, OrderKept DEF OrderInv
<1>3. ASSUME (\E h \in Hosts : Restart(h)) \/ UNCHANGED vars
      PROVE  OlderFirst'
  <2>1. /\ UNCHANGED <<host, requestedAt, passed, status, inserting>>
        /\ \A q \in Polls : (at[q] = "locked" => at'[q] = "locked" /\ picked'[q] = picked[q])
        /\ \A q \in Polls : at'[q] = "locked" => at[q] = "locked"
    BY <1>3 DEF Restart, Answers, vars
  <2>2. \A c \in Cmds : (Waits(c)' => Waits(c)) /\ (Taken(c)' => Taken(c))
    BY <2>1 DEF Waits, Taken
  <2> QED
    BY <2>1, <2>2, OrderKept DEF OrderInv
<1> QED
  BY <1>1, <1>2, <1>3, TriggerOrder DEF Next

\* The inductive invariant holds in every reachable state.
THEOREM RunInvariant == Spec => [](RunInv /\ InsertsConsistent)
<1>1. Init => RunInv /\ InsertsConsistent
  BY InitEstablishes DEF Init, InsertsConsistent
<1>2. RunInv /\ InsertsConsistent /\ [Next]_vars => RunInv' /\ InsertsConsistent'
  BY StepPreserves, InsertsStep
<1> QED
  BY <1>1, <1>2, PTL DEF Spec

\* The command table, the claims and the goroutines keep their types for any
\* number of commands, polls and workers.
THEOREM TypeTheorem == Spec => []TypeOK
<1>1. RunInv => TypeOK
  BY DEF RunInv
<1> QED
  BY <1>1, RunInvariant, PTL

\* A dispatched command that is not lost is in an answer on its way or in the
\* hands of a goroutine, whatever fails.
THEOREM NeverStrandedTheorem == Spec => []NeverStranded
<1>1. Init => NeverStranded
  BY DEF Init, NeverStranded
<1>2. RunInv /\ NeverStranded /\ [Next]_vars => NeverStranded'
  BY NeverStrandedStep
<1> QED
  BY <1>1, <1>2, RunInvariant, PTL DEF Spec

\* Whatever claims with SKIP LOCKED overlap, time out or are rolled back, the
\* commands of a host are handed out in the order of requested_at, except past
\* one that was not committed or was locked when a claim looked.
THEOREM RequestOrderTheorem == Spec => []RequestOrder
<1>1. Init => OrderInv
  BY DEF Init, OrderInv, InsertsConsistent, Stamped, OlderFirst, Taken, Final
<1>2. RunInv /\ OrderInv /\ [Next]_vars => OrderInv'
  BY InsertsStep, StampedStep, OrderStep DEF OrderInv
<1>3. OrderInv => RequestOrder
  BY DEF OrderInv, OlderFirst, RequestOrder, Waits, Taken
<1> QED
  BY <1>1, <1>2, <1>3, RunInvariant, PTL DEF Spec

\* However polls overlap, time out or roll back and however often the agent
\* restarts, a queued command is started at most once.
THEOREM AtMostOnceTheorem == Spec => []ExecutedAtMostOnce
<1>1. RunInv => ExecutedAtMostOnce
  BY DEF RunInv, RunsConsistent, ExecutedAtMostOnce
<1> QED
  BY <1>1, RunInvariant, PTL

\* A final status is the outcome of the command's one execution, whose event
\* is in the agent's buffer.
THEOREM TruthfulTheorem == Spec => []FinalStatusTruthful
<1>1. RunInv => FinalStatusTruthful
  BY DEF RunInv
<1> QED
  BY <1>1, RunInvariant, PTL

-----------------------------------------------------------------------------
(* The refinement of CommandLifecycle.                                     *)

LEMMA InitRefines == Init => L!Init
  BY DEF Init, L!Init

LEMMA CommitRefines ==
    ASSUME RunInv, NEW p \in Polls, ClaimPending(p)
    PROVE  L!Next
<1>1. picked[p] \in SUBSET Cmds /\ \A c \in picked[p] : status[c] = "pending"
  BY DEF RunInv, TypeOK, ClaimsConsistent, ClaimPending
<1>2. L!Dispatch(picked[p])
  BY <1>1 DEF L!Dispatch, ClaimPending, work
<1> QED
  BY <1>1, <1>2 DEF L!Next

LEMMA RunRefines ==
    ASSUME RunInv, NEW c \in Cmds, RunStep(c)
    PROVE  L!Next \/ UNCHANGED L!vars
<1>1. ASSUME NEW o \in {"success", "failed"}, FinishCommand(c, o)
      PROVE  L!Next
  <2>1. status[c] = "dispatched" /\ outcome[c] = "none"
    BY <1>1 DEF RunInv, RunsConsistent, FinishCommand
  <2>2. L!Execute(c, o)
    BY <1>1, <2>1 DEF L!Execute, FinishCommand
  <2> QED
    BY <2>2 DEF L!Next
<1>2. ASSUME Complete(c)
      PROVE  L!Next
  <2>1. status[c] = "dispatched" /\ outcome[c] # "none"
    BY <1>2 DEF RunInv, RunsConsistent, Complete, Final
  <2>2. L!Settle(c)
    BY <1>2, <2>1 DEF L!Settle, Complete
  <2> QED
    BY <2>2 DEF L!Next
<1> QED
  BY <1>1, <1>2 DEF RunStep, StartCommand, SaveLocalExecution, BufferOutcome,
                    CompleteLost, L!vars

LEMMA StepRefines ==
    ASSUME RunInv, InsertsConsistent, [Next]_vars
    PROVE  L!Next \/ UNCHANGED L!vars
<1>1. ASSUME NEW t \in Triggers, NEW c \in Cmds, InsertCommits(t, c)
      PROVE  L!Next
  <2>1. L!Queue(c)
    BY <1>1 DEF L!Queue, InsertsConsistent, InsertCommits, work
  <2> QED
    BY <2>1 DEF L!Next
<1>2. ASSUME NEW t \in Triggers, TriggerStep(t)
      PROVE  L!Next \/ UNCHANGED L!vars
  BY <1>1, <1>2 DEF TriggerStep, InsertBegins, EnqueueError, EnqueueDone, L!vars, work
<1>3. ASSUME NEW p \in Polls, ClaimStep(p)
      PROVE  L!Next \/ UNCHANGED L!vars
  BY <1>3, CommitRefines DEF ClaimStep, ClaimRunCommands, PickPending,
     ClaimRollback, PollLost, PollOK, L!vars, work
<1>4. ASSUME NEW h \in Hosts, Restart(h)
      PROVE  UNCHANGED L!vars
  BY <1>4 DEF Restart, L!vars
<1>5. ASSUME UNCHANGED vars
      PROVE  UNCHANGED L!vars
  BY <1>5 DEF vars, work, L!vars
<1> QED
  BY <1>2, <1>3, <1>4, <1>5, RunRefines DEF Next

\* From dashboard to agent and back, a command goes through the life cycle that
\* CommandLifecycle promises: one dispatch, one execution, one truthful result.
THEOREM LifecycleRefinement == Spec => Lifecycle
<1>1. Init => L!Init
  BY InitRefines
<1>2. RunInv /\ InsertsConsistent /\ [Next]_vars => [L!Next]_(L!vars)
  BY StepRefines
<1> QED
  BY <1>1, <1>2, RunInvariant, PTL DEF Spec, Lifecycle, L!Spec
=============================================================================
