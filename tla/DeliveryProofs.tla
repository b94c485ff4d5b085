--------------------------- MODULE DeliveryProofs ---------------------------
(***************************************************************************)
(* Proofs about Delivery, for any number of events, jobs, goroutines,      *)
(* requests and failures.                                                  *)
(***************************************************************************)
EXTENDS Delivery, FiniteSetTheorems, WellFoundedInduction, TLAPS

\* A non-empty batch has a first event: bbolt's key order is a well-order.
LEMMA FirstIsMember ==
    ASSUME NEW S \in SUBSET Ids, S # {}
    PROVE  First(S) \in S
<1>1. S \subseteq Nat
  BY DeliveryAssumption
<1> DEFINE R == {ss \in Nat \X Nat : ss[1] < ss[2]}
<1>2. OpToRel(<, Nat) = R
  BY Zenon DEF OpToRel
<1>3. IsWellFoundedOn(R, Nat)
  BY <1>2, NatLessThanWellFounded, Zenon
<1>4. PICK x \in S : \A y \in S : ~(<<y, x>> \in R)
  BY <1>1, <1>3, WFMin
<1>5. ASSUME NEW y \in S
      PROVE  x <= y
  <2>1. x \in Nat /\ y \in Nat
    BY <1>1
  <2>2. <<y, x>> \in Nat \X Nat /\ <<y, x>>[1] = y /\ <<y, x>>[2] = x
    BY <2>1
  <2>3. y < x => <<y, x>> \in R
    BY <2>2
  <2> QED
    BY <1>4, <2>1, <2>3
<1> QED
  BY <1>5 DEF First

LEMMA InitEstablishes == Init => DeliveryInv
<1> SUFFICES ASSUME Init PROVE DeliveryInv
  OBVIOUS
<1>1. TypeOK
  BY DeliveryAssumption DEF Init, TypeOK
<1>2. RequestsConsistent
  BY DEF Init, RequestsConsistent, Current
<1>3. DeletesCovered
  BY DEF Init, DeletesCovered
<1>4. RowsConsistent
  BY FS_EmptySet DEF Init, RowsConsistent, Stored
<1>5. pending \subseteq Saved /\ NoSilentLoss
  BY DEF Init, Saved, NoSilentLoss
<1> QED
  BY <1>1, <1>2, <1>3, <1>4, <1>5 DEF DeliveryInv

\* Saving an event touches neither the batches nor the rows.
LEMMA BufferPreserves ==
    ASSUME DeliveryInv, NEW f \in Flushers, NEW e \in Ids, NEW p \in Payloads,
           BufferExecution(f, e, p)
    PROVE  DeliveryInv'
<1> USE DEF DeliveryInv, handler, db
<1>1. p # None /\ Saved' = Saved \cup {e}
  BY DeliveryAssumption DEF BufferExecution, TypeOK, Saved
<1>2. Stored' = Stored
  BY DEF BufferExecution, Stored
<1>3. TypeOK'
  BY DEF BufferExecution, TypeOK
<1>4. RequestsConsistent'
  BY <1>1, <1>2 DEF BufferExecution, RequestsConsistent, TypeOK, Current
<1>5. DeletesCovered'
  BY <1>2 DEF BufferExecution, DeletesCovered, TypeOK
<1>6. RowsConsistent'
  BY <1>1, <1>2 DEF BufferExecution, RowsConsistent
<1>7. (pending \subseteq Saved)' /\ NoSilentLoss'
  BY <1>1, <1>2 DEF BufferExecution, NoSilentLoss
<1> QED
  BY <1>3, <1>4, <1>5, <1>6, <1>7

\* The agent's other steps leave payloads and rows alone.
LEMMA FlushPreserves ==
    ASSUME DeliveryInv, NEW f \in Flushers, NEW r \in Slots,
           FlushExecutions(f, r)
    PROVE  DeliveryInv'
<1> USE DEF DeliveryInv, db, FlushExecutions
<1>1. Saved' = Saved /\ Stored' = Stored
  BY DEF Saved, Stored
<1>2. TypeOK'
  BY DEF TypeOK
<1>3. \A q \in Slots : owner[q] # f
  BY DeliveryAssumption DEF RequestsConsistent, TypeOK, Current
<1>4. RequestsConsistent'
  <2>1. None \notin Flushers
    BY DeliveryAssumption
  <2> QED
    BY <1>1, <1>3, <2>1 DEF RequestsConsistent, TypeOK, Current
<1>5. DeletesCovered'
  BY <1>1 DEF DeletesCovered, TypeOK
<1>6. RowsConsistent' /\ (pending \subseteq Saved)' /\ NoSilentLoss'
  BY <1>1 DEF RowsConsistent, NoSilentLoss
<1> QED
  BY <1>2, <1>4, <1>5, <1>6

\* A worker that enters or skips the flush without an event of its own.
LEMMA NoEventPreserves ==
    ASSUME DeliveryInv, NEW f \in Flushers, FlushNothing(f) \/ BufferFails(f)
    PROVE  DeliveryInv'
<1> USE DEF DeliveryInv, handler, db, FlushNothing, BufferFails, Fault
<1>1. Saved' = Saved /\ Stored' = Stored
  BY DEF Saved, Stored
<1>2. TypeOK'
  <2>1. faults' \in 0..MaxFaults
    BY DeliveryAssumption DEF TypeOK
  <2>2. pc' \in [Flushers -> {"idle", "flush", "wait", "delete"}]
    BY DEF TypeOK
  <2> QED
    BY <2>1, <2>2 DEF TypeOK
<1>3. RequestsConsistent'
  BY <1>1 DEF RequestsConsistent, TypeOK, Current
<1>4. DeletesCovered'
  BY <1>1 DEF DeletesCovered, TypeOK
<1>5. RowsConsistent' /\ (pending \subseteq Saved)' /\ NoSilentLoss'
  BY <1>1 DEF RowsConsistent, NoSilentLoss
<1> QED
  BY <1>2, <1>3, <1>4, <1>5

LEMMA ReceivePreserves ==
    ASSUME DeliveryInv, NEW f \in Flushers, NEW r \in Slots, ReceiveOK(f, r)
    PROVE  DeliveryInv'
<1> USE DEF DeliveryInv, db, ReceiveOK, Release
<1>1. Saved' = Saved /\ Stored' = Stored
  BY DEF Saved, Stored
<1>2. TypeOK'
  BY DEF TypeOK
<1>3. RequestsConsistent'
  BY <1>1, DeliveryAssumption DEF RequestsConsistent, TypeOK, Current
<1>4. held[f] # {} /\ held[f] \subseteq Stored \cup refused
  BY DeliveryAssumption DEF RequestsConsistent, TypeOK, Current
<1>5. DeletesCovered'
  BY <1>1, <1>4 DEF DeletesCovered, TypeOK
<1>6. RowsConsistent' /\ (pending \subseteq Saved)' /\ NoSilentLoss'
  BY <1>1 DEF RowsConsistent, NoSilentLoss
<1> QED
  BY <1>2, <1>3, <1>5, <1>6

LEMMA GiveUpPreserves ==
    ASSUME DeliveryInv, NEW f \in Flushers, NEW r \in Slots, GiveUp(f, r)
    PROVE  DeliveryInv'
<1> USE DEF DeliveryInv, db, GiveUp, Fault
<1>1. Saved' = Saved /\ Stored' = Stored
  BY DEF Saved, Stored
<1>2. TypeOK'
  BY DeliveryAssumption DEF TypeOK
<1>3. RequestsConsistent'
  BY <1>1, DeliveryAssumption DEF RequestsConsistent, TypeOK, Current
<1>4. DeletesCovered'
  BY <1>1 DEF DeletesCovered, TypeOK
<1>5. RowsConsistent' /\ (pending \subseteq Saved)' /\ NoSilentLoss'
  BY <1>1 DEF RowsConsistent, NoSilentLoss
<1> QED
  BY <1>2, <1>3, <1>4, <1>5

LEMMA RestartPreserves ==
    ASSUME DeliveryInv, Restart
    PROVE  DeliveryInv'
<1> USE DEF DeliveryInv, db, Restart, Fault
<1>1. Saved' = Saved /\ Stored' = Stored
  BY DEF Saved, Stored
<1>2. TypeOK'
  BY DeliveryAssumption DEF TypeOK
<1>3. RequestsConsistent'
  BY <1>1 DEF RequestsConsistent, TypeOK, Current
<1>4. DeletesCovered'
  BY DEF DeletesCovered
<1>5. RowsConsistent' /\ (pending \subseteq Saved)' /\ NoSilentLoss'
  BY <1>1 DEF RowsConsistent, NoSilentLoss
<1> QED
  BY <1>2, <1>3, <1>4, <1>5

\* What is deleted is covered by an answer, so nothing is lost.
LEMMA DeletePreserves ==
    ASSUME DeliveryInv, NEW f \in Flushers, DeleteExecution(f)
    PROVE  DeliveryInv'
<1> USE DEF DeliveryInv, handler, db
<1>1. Saved' = Saved /\ Stored' = Stored
  BY DEF DeleteExecution, Saved, Stored
<1>2. /\ First(held[f]) \in Stored \cup refused
      /\ pending' = pending \/ pending' = pending \ {First(held[f])}
  <2>1. held[f] \subseteq Ids /\ held[f] # {} /\ held[f] \subseteq Stored \cup refused
    BY DEF DeleteExecution, DeletesCovered, TypeOK
  <2>2. First(held[f]) \in held[f]
    BY <2>1, FirstIsMember
  <2> QED
    BY <2>1, <2>2 DEF DeleteExecution
<1>3. TypeOK'
  <2>1. faults' \in 0..MaxFaults
    BY DeliveryAssumption DEF DeleteExecution, Fault, TypeOK
  <2>2. pc' \in [Flushers -> {"idle", "flush", "wait", "delete"}]
    BY DEF DeleteExecution, TypeOK
  <2>3. held' \in [Flushers -> SUBSET Ids]
    BY DEF DeleteExecution, TypeOK
  <2>4. pending' \subseteq Ids
    BY <1>2 DEF TypeOK
  <2> QED
    BY <2>1, <2>2, <2>3, <2>4 DEF DeleteExecution, TypeOK
<1>4. RequestsConsistent'
  BY <1>1 DEF DeleteExecution, RequestsConsistent, TypeOK, Current
<1>5. DeletesCovered'
  BY <1>1 DEF DeleteExecution, DeletesCovered, TypeOK
<1>6. RowsConsistent' /\ (pending \subseteq Saved)'
  BY <1>1, <1>2 DEF DeleteExecution, RowsConsistent
<1>7. NoSilentLoss'
  BY <1>1, <1>2 DEF DeleteExecution, NoSilentLoss
<1> QED
  BY <1>3, <1>4, <1>5, <1>6, <1>7

LEMMA UpsertJobPreserves ==
    ASSUME DeliveryInv, NEW j \in Jobs, UpsertJob(j)
    PROVE  DeliveryInv'
<1> USE DEF DeliveryInv, agent, handler, UpsertJob
<1>1. Saved' = Saved /\ Stored' = Stored
  BY DEF Saved, Stored
<1>2. TypeOK'
  BY DEF TypeOK
<1>3. RequestsConsistent' /\ DeletesCovered'
  BY <1>1 DEF RequestsConsistent, DeletesCovered, Current
<1>4. RowsConsistent' /\ (pending \subseteq Saved)' /\ NoSilentLoss'
  BY <1>1 DEF RowsConsistent, NoSilentLoss
<1> QED
  BY <1>2, <1>3, <1>4

\* The event a handler works on is a saved event of its batch.
LEMMA CurrentIsSaved ==
    ASSUME DeliveryInv, NEW r \in Slots, todo[r] # {}
    PROVE  /\ Current(r) \in todo[r]
           /\ Current(r) \in Ids
           /\ Current(r) \in Saved
           /\ payload[Current(r)] \in Payloads
<1>1. todo[r] \subseteq Ids /\ todo[r] \subseteq Saved
  BY DEF DeliveryInv, RequestsConsistent, TypeOK
<1>2. Current(r) \in todo[r]
  BY <1>1, FirstIsMember DEF Current
<1> QED
  BY <1>1, <1>2 DEF DeliveryInv, TypeOK, Saved

\* Insert adds one row, of the current event.
LEMMA InsertPreserves ==
    ASSUME DeliveryInv, NEW r \in Slots, Insert(r)
    PROVE  DeliveryInv'
<1> USE DEF DeliveryInv, agent
<1>1. /\ Current(r) \in todo[r]
      /\ Current(r) \in Ids
      /\ Current(r) \in Saved
  BY CurrentIsSaved DEF Insert
<1>2. PICK x : /\ x = [event |-> Current(r), n |-> Cardinality(RowsOf(Current(r))),
                       linked |-> payload[Current(r)].job \in jobs]
               /\ rows' = rows \cup {x}
  BY DEF Insert
<1>3. Saved' = Saved /\ Stored' = Stored \cup {Current(r)}
  BY <1>2 DEF Insert, Saved, Stored
<1>4. x \in Row
  <2>1. RowsOf(Current(r)) \subseteq rows
    BY DEF RowsOf
  <2>2. Cardinality(RowsOf(Current(r))) \in Nat
    BY <2>1, FS_Subset, FS_CardinalityType DEF RowsConsistent
  <2> QED
    BY <1>1, <1>2, <2>2 DEF Row
<1>5. ASSUME payload[Current(r)].job \in jobs
      PROVE  TypeOK' /\ RequestsConsistent'
  <2> USE <1>5 DEF Insert
  <2>1. TypeOK'
    BY <1>2, <1>4 DEF TypeOK
  <2>2. RequestsConsistent'
    BY <1>1, <1>3 DEF RequestsConsistent, TypeOK, Current
  <2> QED
    BY <2>1, <2>2
<1>6. ASSUME payload[Current(r)].job \notin jobs
      PROVE  TypeOK' /\ RequestsConsistent'
  <2>1. /\ NextEvent(r)
        /\ UNCHANGED <<pending, payload, pc, held, owner, batch, failed, jobs,
                       jobState, refused, born, faults>>
    BY <1>6 DEF Insert
  <2>2. TypeOK'
    BY <1>2, <1>4, <2>1 DEF NextEvent, TypeOK
  <2>3. RequestsConsistent'
    BY <1>1, <1>3, <2>1 DEF NextEvent, RequestsConsistent, TypeOK, Current
  <2> QED
    BY <2>2, <2>3
<1>7. DeletesCovered'
  BY <1>3 DEF Insert, DeletesCovered
<1>8. RowsConsistent'
  BY <1>1, <1>2, <1>3, FS_AddElement DEF RowsConsistent
<1>9. (pending \subseteq Saved)' /\ NoSilentLoss'
  BY <1>3 DEF Insert, NoSilentLoss
<1> QED
  BY <1>5, <1>6, <1>7, <1>8, <1>9

LEMMA InsertUnlinkedPreserves ==
    ASSUME DeliveryInv, NEW r \in Slots, InsertUnlinked(r)
    PROVE  DeliveryInv'
<1> USE DEF DeliveryInv, agent
<1>1. /\ Current(r) \in todo[r]
      /\ Current(r) \in Ids
      /\ Current(r) \in Saved
  BY CurrentIsSaved DEF InsertUnlinked
<1>2. PICK x : /\ x = [event |-> Current(r), n |-> Cardinality(RowsOf(Current(r))),
                       linked |-> FALSE]
               /\ rows' = rows \cup {x}
  BY DEF InsertUnlinked
<1>3. Saved' = Saved /\ Stored' = Stored \cup {Current(r)}
  BY <1>2 DEF InsertUnlinked, Saved, Stored
<1>4. x \in Row
  <2>1. RowsOf(Current(r)) \subseteq rows
    BY DEF RowsOf
  <2>2. Cardinality(RowsOf(Current(r))) \in Nat
    BY <2>1, FS_Subset, FS_CardinalityType DEF RowsConsistent
  <2> QED
    BY <1>1, <1>2, <2>2 DEF Row
<1>5. TypeOK'
  <2>1. faults' \in 0..MaxFaults
    BY DeliveryAssumption DEF InsertUnlinked, Fault, TypeOK
  <2>2. rows' \subseteq Row
    BY <1>2, <1>4 DEF TypeOK
  <2> QED
    BY <2>1, <2>2 DEF InsertUnlinked, NextEvent, TypeOK
<1>6. RequestsConsistent'
  BY <1>1, <1>3 DEF InsertUnlinked, NextEvent, RequestsConsistent, TypeOK, Current
<1>7. DeletesCovered'
  BY <1>3 DEF InsertUnlinked, DeletesCovered
<1>8. RowsConsistent'
  BY <1>1, <1>2, <1>3, FS_AddElement DEF RowsConsistent
<1>9. (pending \subseteq Saved)' /\ NoSilentLoss'
  BY <1>3 DEF InsertUnlinked, NoSilentLoss
<1> QED
  BY <1>5, <1>6, <1>7, <1>8, <1>9

LEMMA InsertFailsPreserves ==
    ASSUME DeliveryInv, NEW r \in Slots, InsertFails(r)
    PROVE  DeliveryInv'
<1> USE DEF DeliveryInv, agent, db, InsertFails, NextEvent, Fault
<1>1. Current(r) \in todo[r] /\ Current(r) \in Ids
  BY CurrentIsSaved
<1>2. Saved' = Saved /\ Stored' = Stored
  BY DEF Saved, Stored
<1>3. TypeOK'
  BY <1>1, DeliveryAssumption DEF TypeOK
<1>4. RequestsConsistent'
  BY <1>1, <1>2 DEF RequestsConsistent, TypeOK, Current
<1>5. DeletesCovered' /\ RowsConsistent' /\ (pending \subseteq Saved)' /\ NoSilentLoss'
  BY <1>2 DEF DeletesCovered, RowsConsistent, NoSilentLoss
<1> QED
  BY <1>3, <1>4, <1>5

LEMMA FailureCountType ==
    ASSUME IsFiniteSet(rows), NEW j
    PROVE  /\ IsFiniteSet(FailingRows(j))
           /\ CountRecentFailures(j) \in Nat
<1>1. FailingRows(j) \subseteq rows
  BY DEF FailingRows
<1> QED
  BY <1>1, FS_Subset, FS_CardinalityType DEF CountRecentFailures

LEMMA CountPreserves ==
    ASSUME DeliveryInv, NEW r \in Slots, CountFailures(r)
    PROVE  DeliveryInv'
<1> USE DEF DeliveryInv, agent, db, CountFailures
<1>1. Saved' = Saved /\ Stored' = Stored
  BY DEF Saved, Stored
<1>2. CountRecentFailures(payload[Current(r)].job) \in Nat
  BY FailureCountType DEF RowsConsistent
<1>3. TypeOK'
  BY <1>2 DEF TypeOK
<1>4. RequestsConsistent'
  BY <1>1 DEF RequestsConsistent, TypeOK, Current
<1>5. DeletesCovered' /\ RowsConsistent' /\ (pending \subseteq Saved)' /\ NoSilentLoss'
  BY <1>1 DEF DeletesCovered, RowsConsistent, NoSilentLoss
<1> QED
  BY <1>3, <1>4, <1>5

\* A handler that is updating the job state has stored its current event.
LEMMA UpsertStatePreserves ==
    ASSUME DeliveryInv, NEW r \in Slots, UpsertCurrentState(r)
    PROVE  DeliveryInv'
<1> USE DEF DeliveryInv, agent
<1>1. /\ Current(r) \in todo[r]
      /\ Current(r) \in Stored
      /\ payload[Current(r)] \in Payloads
  BY CurrentIsSaved DEF UpsertCurrentState, RequestsConsistent
<1>2. Saved' = Saved /\ Stored' = Stored
  BY DEF UpsertCurrentState, Saved, Stored
<1>3. TypeOK'
  <2>1. [status |-> payload[Current(r)].status, fails |-> count[r]]
          \in [status : {"running", "partial", "success", "failed"}, fails : Nat]
    BY <1>1, DeliveryAssumption DEF Payloads, Observed, Outcomes, TypeOK
  <2>2. jobState' \in [Jobs -> JobStates \cup {None}]
    BY <2>1 DEF UpsertCurrentState, TypeOK, JobStates
  <2> QED
    BY <2>2 DEF UpsertCurrentState, NextEvent, TypeOK
<1>4. RequestsConsistent'
  BY <1>1, <1>2 DEF UpsertCurrentState, NextEvent, RequestsConsistent, TypeOK, Current
<1>5. DeletesCovered' /\ RowsConsistent' /\ (pending \subseteq Saved)' /\ NoSilentLoss'
  BY <1>2 DEF UpsertCurrentState, DeletesCovered, RowsConsistent, NoSilentLoss
<1> QED
  BY <1>3, <1>4, <1>5

LEMMA UpdateFailsPreserves ==
    ASSUME DeliveryInv, NEW r \in Slots, UpdateFails(r)
    PROVE  DeliveryInv'
<1> USE DEF DeliveryInv, agent, db, UpdateFails, Fault
<1>1. Current(r) \in todo[r] /\ Current(r) \in Stored
  BY CurrentIsSaved DEF RequestsConsistent
<1>2. Saved' = Saved /\ Stored' = Stored
  BY DEF Saved, Stored
<1>3. TypeOK'
  BY DeliveryAssumption DEF NextEvent, TypeOK
<1>4. RequestsConsistent'
  BY <1>1, <1>2 DEF NextEvent, RequestsConsistent, TypeOK, Current
<1>5. DeletesCovered' /\ RowsConsistent' /\ (pending \subseteq Saved)' /\ NoSilentLoss'
  BY <1>2 DEF DeletesCovered, RowsConsistent, NoSilentLoss
<1> QED
  BY <1>3, <1>4, <1>5

LEMMA ReplyPreserves ==
    ASSUME DeliveryInv, NEW r \in Slots, Reply(r)
    PROVE  DeliveryInv'
<1> USE DEF DeliveryInv, agent, db, Reply
<1>1. Saved' = Saved /\ Stored' = Stored
  BY DEF Saved, Stored
<1>2. TypeOK'
  BY DEF TypeOK
<1>3. RequestsConsistent'
  BY <1>1 DEF RequestsConsistent, TypeOK, Current
<1>4. DeletesCovered' /\ RowsConsistent' /\ (pending \subseteq Saved)' /\ NoSilentLoss'
  BY <1>1 DEF DeletesCovered, RowsConsistent, NoSilentLoss
<1> QED
  BY <1>2, <1>3, <1>4

LEMMA AbandonPreserves ==
    ASSUME DeliveryInv, NEW r \in Slots, Abandon(r)
    PROVE  DeliveryInv'
<1> USE DEF DeliveryInv, agent, db, Abandon, Release
<1>1. Saved' = Saved /\ Stored' = Stored
  BY DEF Saved, Stored
<1>2. TypeOK'
  BY DEF TypeOK
<1>3. RequestsConsistent'
  BY <1>1, DeliveryAssumption DEF RequestsConsistent, TypeOK, Current
<1>4. DeletesCovered' /\ RowsConsistent' /\ (pending \subseteq Saved)' /\ NoSilentLoss'
  BY <1>1 DEF DeletesCovered, RowsConsistent, NoSilentLoss
<1> QED
  BY <1>2, <1>3, <1>4

LEMMA StutterPreserves ==
    ASSUME DeliveryInv, UNCHANGED vars
    PROVE  DeliveryInv'
<1> USE DEF vars, agent, handler, db
<1>1. Saved' = Saved /\ Stored' = Stored
  BY DEF Saved, Stored
<1>2. TypeOK'
  BY DEF DeliveryInv, TypeOK
<1>3. RequestsConsistent' /\ DeletesCovered' /\ RowsConsistent'
  BY <1>1 DEF DeliveryInv, RequestsConsistent, DeletesCovered, RowsConsistent, Current
<1> QED
  BY <1>1, <1>2, <1>3 DEF DeliveryInv, NoSilentLoss

LEMMA StepPreserves ==
    ASSUME DeliveryInv, [Next]_vars
    PROVE  DeliveryInv'
<1>1. ASSUME NEW f \in Flushers, AgentStep(f)
      PROVE  DeliveryInv'
  BY <1>1, BufferPreserves, FlushPreserves, ReceivePreserves, GiveUpPreserves,
     NoEventPreserves, DeletePreserves DEF AgentStep
<1>2. ASSUME NEW r \in Slots, ServerStep(r)
      PROVE  DeliveryInv'
  BY <1>2, InsertPreserves, InsertUnlinkedPreserves, InsertFailsPreserves, CountPreserves,
     UpsertStatePreserves, UpdateFailsPreserves, ReplyPreserves, AbandonPreserves
     DEF ServerStep
<1> QED
  BY <1>1, <1>2, UpsertJobPreserves, RestartPreserves, StutterPreserves DEF Next

\* The inductive invariant holds in every reachable state.
THEOREM DeliveryInvariant == Spec => []DeliveryInv
<1>1. Init => DeliveryInv
  BY InitEstablishes
<1>2. DeliveryInv /\ [Next]_vars => DeliveryInv'
  BY StepPreserves
<1> QED
  BY <1>1, <1>2, PTL DEF Spec

\* The variables keep their types, the handlers' counts included.
THEOREM TypeCorrect == Spec => []TypeOK
<1>1. DeliveryInv => TypeOK
  BY DEF DeliveryInv
<1> QED
  BY <1>1, DeliveryInvariant, PTL

\* However flushes overlap, fail and restart, an event that BufferExecution
\* saved is in the buffer or on the server, or the server answered for it.
THEOREM NoSilentLossTheorem == Spec => []NoSilentLoss
<1>1. DeliveryInv => NoSilentLoss
  BY DEF DeliveryInv
<1> QED
  BY <1>1, DeliveryInvariant, PTL

-----------------------------------------------------------------------------
(* The failure count of a job.                                             *)

FailInv == FailCountBounded /\ CountsConsistent

\* The failing rows of a job only grow: rows are never deleted, and the
\* payload of an event that has a row never changes.
LEMMA CountGrows ==
    ASSUME DeliveryInv, DeliveryInv', NEW j,
           rows \subseteq rows', \A e \in Saved : payload'[e] = payload[e]
    PROVE  /\ CountRecentFailures(j) \in Nat
           /\ CountRecentFailures(j)' \in Nat
           /\ CountRecentFailures(j) <= CountRecentFailures(j)'
<1>1. IsFiniteSet(rows) /\ IsFiniteSet(rows')
  BY DEF DeliveryInv, RowsConsistent
<1>2. \A x \in rows : x.event \in Saved
  BY DEF DeliveryInv, RowsConsistent, Stored
<1>3. FailingRows(j) \subseteq FailingRows(j)'
  BY <1>2 DEF FailingRows
<1>4. FailingRows(j)' \subseteq rows'
  BY DEF FailingRows
<1>5. IsFiniteSet(FailingRows(j)')
  BY <1>1, <1>4, FS_Subset
<1> QED
  BY <1>3, <1>5, FS_Subset, FS_CardinalityType DEF CountRecentFailures

\* A step that writes no job state and takes no new count.
LEMMA QuietStep ==
    ASSUME DeliveryInv, DeliveryInv', FailInv,
           rows \subseteq rows', \A e \in Saved : payload'[e] = payload[e],
           jobState' = jobState,
           \A r \in Slots : at'[r] = "upsert" =>
             at[r] = "upsert" /\ count'[r] = count[r] /\ todo'[r] = todo[r]
    PROVE  FailInv'
<1>1. \A j : /\ CountRecentFailures(j) \in Nat
             /\ CountRecentFailures(j)' \in Nat
             /\ CountRecentFailures(j) <= CountRecentFailures(j)'
  BY CountGrows
<1>2. FailCountBounded'
  <2> SUFFICES ASSUME NEW j \in Jobs, jobState[j] # None
               PROVE  jobState[j].fails <= CountRecentFailures(j)'
    BY DEF FailCountBounded
  <2>1. jobState[j].fails \in Nat
    BY DEF DeliveryInv, TypeOK, JobStates
  <2>2. jobState[j].fails <= CountRecentFailures(j)
    BY DEF FailInv, FailCountBounded
  <2> QED
    BY <1>1, <2>1, <2>2
<1>3. CountsConsistent'
  <2> SUFFICES ASSUME NEW r \in Slots, at'[r] = "upsert"
               PROVE  (count[r] <= CountRecentFailures(payload[Current(r)].job))'
    BY DEF CountsConsistent
  <2>1. Current(r)' = Current(r) /\ count'[r] = count[r]
    BY DEF Current
  <2>2. payload'[Current(r)] = payload[Current(r)]
    BY CurrentIsSaved DEF DeliveryInv, RequestsConsistent
  <2>3. count[r] \in Nat
    BY DEF DeliveryInv, TypeOK
  <2>4. count[r] <= CountRecentFailures(payload[Current(r)].job)
    BY DEF FailInv, CountsConsistent
  <2>5. PICK j : j = payload[Current(r)].job
    OBVIOUS
  <2>6. FailingRows(payload[Current(r)].job)' = FailingRows(j)'
    BY <2>1, <2>2, <2>5 DEF FailingRows
  <2>7. CountRecentFailures(payload[Current(r)].job)' = CountRecentFailures(j)'
    BY <2>6 DEF CountRecentFailures
  <2>8. count[r] <= CountRecentFailures(j)'
    BY <1>1, <2>3, <2>4, <2>5
  <2> QED
    BY <2>1, <2>7, <2>8
<1> QED
  BY <1>2, <1>3 DEF FailInv

LEMMA CountTaken ==
    ASSUME DeliveryInv, DeliveryInv', FailInv, NEW r \in Slots, CountFailures(r)
    PROVE  FailInv'
<1> USE DEF CountFailures, agent, db
<1>1. \A j : CountRecentFailures(j)' = CountRecentFailures(j)
  BY DEF CountRecentFailures, FailingRows
<1>2. FailCountBounded'
  BY <1>1 DEF FailInv, FailCountBounded
<1>3. ASSUME NEW q \in Slots, at'[q] = "upsert"
      PROVE  (count[q] <= CountRecentFailures(payload[Current(q)].job))'
  <2>1. Current(q)' = Current(q) /\ payload' = payload /\ rows' = rows
    BY DEF Current
  <2>2. CountRecentFailures(payload[Current(q)].job)'
          = CountRecentFailures(payload[Current(q)].job)
    BY <2>1 DEF CountRecentFailures, FailingRows
  <2>3. CountRecentFailures(payload[Current(q)].job) \in Nat
    BY FailureCountType DEF DeliveryInv, RowsConsistent
  <2>4. count'[q] <= CountRecentFailures(payload[Current(q)].job)
    BY <1>3, <2>3 DEF FailInv, CountsConsistent, DeliveryInv, TypeOK
  <2> QED
    BY <2>2, <2>4
<1> QED
  BY <1>2, <1>3 DEF FailInv, CountsConsistent

LEMMA CountWritten ==
    ASSUME DeliveryInv, DeliveryInv', FailInv, NEW r \in Slots, UpsertCurrentState(r)
    PROVE  FailInv'
<1>1. /\ rows' = rows /\ payload' = payload
      /\ NextEvent(r)
      /\ jobState' = [jobState EXCEPT ![payload[Current(r)].job] =
                        [status |-> payload[Current(r)].status, fails |-> count[r]]]
  BY DEF UpsertCurrentState
<1>2. \A j : CountRecentFailures(j)' = CountRecentFailures(j)
  BY <1>1 DEF CountRecentFailures, FailingRows
<1>3. FailCountBounded'
  <2>1. count[r] <= CountRecentFailures(payload[Current(r)].job)
    BY DEF UpsertCurrentState, FailInv, CountsConsistent
  <2>2. ASSUME NEW j \in Jobs, jobState'[j] # None
        PROVE  jobState'[j].fails <= CountRecentFailures(j)
    BY <1>1, <2>1, <2>2 DEF FailInv, FailCountBounded, DeliveryInv, TypeOK
  <2> QED
    BY <1>2, <2>2 DEF FailCountBounded
<1>4. ASSUME NEW q \in Slots, at'[q] = "upsert"
      PROVE  (count[q] <= CountRecentFailures(payload[Current(q)].job))'
  <2>1. q # r /\ at[q] = "upsert" /\ count'[q] = count[q] /\ todo'[q] = todo[q]
    BY <1>1, <1>4 DEF NextEvent, DeliveryInv, TypeOK
  <2>2. Current(q)' = Current(q)
    BY <2>1 DEF Current
  <2>3. CountRecentFailures(payload[Current(q)].job)'
          = CountRecentFailures(payload[Current(q)].job)
    BY <1>1, <2>2 DEF CountRecentFailures, FailingRows
  <2> QED
    BY <2>1, <2>3 DEF FailInv, CountsConsistent
<1> QED
  BY <1>3, <1>4 DEF FailInv, CountsConsistent

LEMMA FailStep ==
    ASSUME DeliveryInv, DeliveryInv', FailInv, [Next]_vars
    PROVE  FailInv'
<1> USE DEF agent, handler, db
<1>1. ASSUME NEW f \in Flushers, AgentStep(f)
      PROVE  FailInv'
  <2>1. ASSUME NEW e \in Ids, NEW p \in Payloads, BufferExecution(f, e, p)
        PROVE  FailInv'
    BY <2>1, QuietStep DEF BufferExecution, Saved, DeliveryInv, TypeOK
  <2>2. ASSUME NEW r \in Slots, FlushExecutions(f, r)
        PROVE  FailInv'
    BY <2>2, QuietStep DEF FlushExecutions, DeliveryInv, TypeOK
  <2>3. ASSUME NEW r \in Slots, ReceiveOK(f, r)
        PROVE  FailInv'
    BY <2>3, QuietStep DEF ReceiveOK, Release, DeliveryInv, TypeOK
  <2>4. ASSUME NEW r \in Slots, GiveUp(f, r)
        PROVE  FailInv'
    BY <2>4, QuietStep DEF GiveUp
  <2>5. ASSUME BufferFails(f) \/ FlushNothing(f) \/ DeleteExecution(f)
        PROVE  FailInv'
    BY <2>5, QuietStep DEF BufferFails, FlushNothing, DeleteExecution
  <2> QED
    BY <1>1, <2>1, <2>2, <2>3, <2>4, <2>5 DEF AgentStep
<1>2. ASSUME NEW r \in Slots, ServerStep(r)
      PROVE  FailInv'
  <2>1. ASSUME Insert(r)
        PROVE  FailInv'
    BY <2>1, QuietStep DEF Insert, NextEvent, DeliveryInv, TypeOK
  <2>5. ASSUME InsertUnlinked(r)
        PROVE  FailInv'
    BY <2>5, QuietStep DEF InsertUnlinked, NextEvent, DeliveryInv, TypeOK
  <2>2. ASSUME InsertFails(r) \/ UpdateFails(r)
        PROVE  FailInv'
    BY <2>2, QuietStep DEF InsertFails, UpdateFails, NextEvent, DeliveryInv, TypeOK
  <2>3. ASSUME Reply(r)
        PROVE  FailInv'
    BY <2>3, QuietStep DEF Reply, DeliveryInv, TypeOK
  <2>4. ASSUME Abandon(r)
        PROVE  FailInv'
    BY <2>4, QuietStep DEF Abandon, Release, DeliveryInv, TypeOK
  <2> QED
    BY <1>2, <2>1, <2>2, <2>3, <2>4, <2>5, CountTaken, CountWritten DEF ServerStep
<1>3. ASSUME NEW j \in Jobs, UpsertJob(j)
      PROVE  FailInv'
  BY <1>3, QuietStep DEF UpsertJob
<1>4. ASSUME Restart
      PROVE  FailInv'
  BY <1>4, QuietStep DEF Restart
<1>5. ASSUME UNCHANGED vars
      PROVE  FailInv'
  BY <1>5, QuietStep DEF vars
<1> QED
  BY <1>1, <1>2, <1>3, <1>4, <1>5 DEF Next

\* consecutive_fail never claims more failures than the table holds, although
\* it is counted and written in two statements that other handlers interleave.
THEOREM FailCountTheorem == Spec => []FailCountBounded
<1>1. Init => FailInv
  BY DEF Init, FailInv, FailCountBounded, CountsConsistent
<1>2. DeliveryInv /\ DeliveryInv' /\ FailInv /\ [Next]_vars => FailInv'
  BY FailStep
<1>3. FailInv => FailCountBounded
  BY DEF FailInv
<1> QED
  BY <1>1, <1>2, <1>3, DeliveryInvariant, PTL DEF Spec

-----------------------------------------------------------------------------
(* The failure count of a job when batches are handled one at a time.      *)

\* Apart from the job whose state is being updated, the state of a job has the
\* number of its failing rows; a count that is about to be written is exact.
SerialInv ==
    Serial =>
      /\ \A r \in Slots : at[r] # "free" => owner[r] # None
      /\ \A r \in Slots : at[r] = "upsert" =>
           count[r] = CountRecentFailures(payload[Current(r)].job)
      /\ \A j \in Jobs :
           \/ \E r \in Slots : Updating(r) /\ payload[Current(r)].job = j
           \/ CountRecentFailures(j) =
                IF jobState[j] = None THEN 0 ELSE jobState[j].fails

\* A failure ends the serial part of a behaviour.
LEMMA FaultEndsSerial ==
    ASSUME TypeOK, NEW kind, Fault(kind)
    PROVE  ~Serial'
  BY DEF TypeOK, Fault, Serial

\* A step that neither updates a job state nor adds a linked row.
LEMMA SerialQuiet ==
    ASSUME DeliveryInv, SerialInv, Serial' => Serial,
           \A j : FailingRows(j)' = FailingRows(j),
           \A e \in Saved : payload'[e] = payload[e],
           jobState' = jobState,
           \A r \in Slots :
             /\ at'[r] # "free" => owner'[r] # None \/ (owner[r] = None /\ at[r] # "free")
             /\ Updating(r)' \/ Updating(r) =>
                  at'[r] = at[r] /\ count'[r] = count[r] /\ todo'[r] = todo[r]
    PROVE  SerialInv'
<1> SUFFICES ASSUME Serial' PROVE SerialInv'
  BY DEF SerialInv
<1>1. \A j : CountRecentFailures(j)' = CountRecentFailures(j)
  BY DEF CountRecentFailures
<1>2. ASSUME NEW r \in Slots, Updating(r) \/ Updating(r)'
      PROVE  /\ Current(r)' = Current(r) /\ at'[r] = at[r] /\ count'[r] = count[r]
             /\ payload'[Current(r)] = payload[Current(r)]
             /\ Updating(r)' <=> Updating(r)
  <2>1. at'[r] = at[r] /\ todo'[r] = todo[r] /\ count'[r] = count[r]
    BY <1>2
  <2>2. Current(r)' = Current(r) /\ Updating(r)
    BY <1>2, <2>1 DEF Current, Updating
  <2>3. payload'[Current(r)] = payload[Current(r)]
    BY <2>2, CurrentIsSaved DEF Updating, DeliveryInv, RequestsConsistent
  <2> QED
    BY <1>2, <2>1, <2>2, <2>3 DEF Updating
<1>3. \A r \in Slots : at'[r] # "free" => owner'[r] # None
  BY DEF SerialInv
<1>4. ASSUME NEW r \in Slots, at'[r] = "upsert"
      PROVE  (count[r] = CountRecentFailures(payload[Current(r)].job))'
  <2>1. at[r] = "upsert" /\ count'[r] = count[r] /\ Current(r)' = Current(r)
        /\ payload'[Current(r)] = payload[Current(r)]
    BY <1>2, <1>4 DEF Updating
  <2>2. PICK j : j = payload[Current(r)].job
    OBVIOUS
  <2>3. count[r] = CountRecentFailures(j)
    BY <2>1, <2>2 DEF SerialInv
  <2>4. FailingRows(payload[Current(r)].job)' = FailingRows(j)'
    BY <2>1, <2>2 DEF FailingRows
  <2> QED
    BY <1>1, <2>1, <2>3, <2>4 DEF CountRecentFailures
<1>5. ASSUME NEW j \in Jobs,
             ~\E r \in Slots : Updating(r)' /\ payload'[Current(r)'].job = j
      PROVE  CountRecentFailures(j)' =
               IF jobState'[j] = None THEN 0 ELSE jobState'[j].fails
  <2>1. ~\E r \in Slots : Updating(r) /\ payload[Current(r)].job = j
    BY <1>2, <1>5
  <2> QED
    BY <1>1, <2>1 DEF SerialInv
<1> QED
  BY <1>3, <1>4, <1>5 DEF SerialInv

\* What Insert adds: nothing to the failing rows of another job, and nothing
\* at all without the link.
LEMMA InsertAdds ==
    ASSUME DeliveryInv, NEW r \in Slots, Insert(r)
    PROVE  /\ payload[Current(r)].job \in jobs <=> at'[r] = "count"
           /\ \A j : \/ payload[Current(r)].job = j /\ j \in jobs
                     \/ FailingRows(j)' = FailingRows(j)
<1>1. PICK x : /\ x = [event |-> Current(r), n |-> Cardinality(RowsOf(Current(r))),
                       linked |-> payload[Current(r)].job \in jobs]
               /\ rows' = rows \cup {x} /\ payload' = payload
  BY DEF Insert
<1>2. x.event = Current(r) /\ (x.linked <=> payload[Current(r)].job \in jobs)
  BY <1>1
<1>3. payload[Current(r)].job \in jobs <=> at'[r] = "count"
  BY DEF Insert, NextEvent, DeliveryInv, TypeOK
<1>4. ASSUME NEW j, ~(payload[Current(r)].job = j /\ j \in jobs)
      PROVE  FailingRows(j)' = FailingRows(j)
  BY <1>1, <1>2, <1>4 DEF FailingRows
<1> QED
  BY <1>3, <1>4

LEMMA SerialInsert ==
    ASSUME DeliveryInv, SerialInv, NEW r \in Slots, Insert(r)
    PROVE  SerialInv'
<1> SUFFICES ASSUME Serial' PROVE SerialInv'
  BY DEF SerialInv
<1> USE DEF Insert
<1>1. Serial /\ Slots = {r}
  BY DEF Serial
<1>2. payload' = payload /\ jobState' = jobState /\ owner' = owner
  OBVIOUS
<1>3. CASE payload[Current(r)].job \notin jobs
  <2>1. \A j : FailingRows(j)' = FailingRows(j)
    BY <1>3, InsertAdds
  <2>2. at'[r] = "insert" /\ owner'[r] = owner[r]
    BY <1>3 DEF NextEvent, DeliveryInv, TypeOK
  <2> QED
    BY <1>1, <1>2, <2>1, <2>2, SerialQuiet DEF Updating
<1>4. CASE payload[Current(r)].job \in jobs
  <2>1. at'[r] = "count" /\ Current(r)' = Current(r)
    BY <1>4 DEF Current, DeliveryInv, TypeOK, NextEvent
  <2>2. ASSUME NEW j \in Jobs, payload[Current(r)].job # j
        PROVE  CountRecentFailures(j)' =
                 IF jobState[j] = None THEN 0 ELSE jobState[j].fails
    <3>1. CountRecentFailures(j)' = CountRecentFailures(j)
      BY <2>2, InsertAdds DEF CountRecentFailures
    <3>2. ~\E q \in Slots : Updating(q)
      BY <1>1 DEF Updating
    <3> QED
      BY <1>1, <3>1, <3>2 DEF SerialInv
  <2>3. owner'[r] # None
    BY <1>1, <1>2 DEF SerialInv
  <2> QED
    BY <1>1, <1>2, <2>1, <2>2, <2>3 DEF SerialInv, Updating
<1> QED
  BY <1>3, <1>4

LEMMA SerialCount ==
    ASSUME DeliveryInv, SerialInv, NEW r \in Slots, CountFailures(r)
    PROVE  SerialInv'
<1> SUFFICES ASSUME Serial' PROVE SerialInv'
  BY DEF SerialInv
<1> USE DEF CountFailures, agent, db
<1>1. Serial /\ Slots = {r}
  BY DEF Serial
<1>2. /\ payload' = payload /\ jobState' = jobState /\ owner' = owner
      /\ todo' = todo /\ rows' = rows
      /\ at'[r] = "upsert"
      /\ count'[r] = CountRecentFailures(payload[Current(r)].job)
  BY DEF DeliveryInv, TypeOK
<1>3. Current(r)' = Current(r)
  BY <1>2 DEF Current
<1>4. CountRecentFailures(payload[Current(r)].job)'
        = CountRecentFailures(payload[Current(r)].job)
  BY <1>2, <1>3 DEF CountRecentFailures, FailingRows
<1>5. \A j : CountRecentFailures(j)' = CountRecentFailures(j)
  BY <1>2 DEF CountRecentFailures, FailingRows
<1>6. owner'[r] # None
  BY <1>1, <1>2 DEF SerialInv
<1>7. ASSUME NEW j \in Jobs, payload[Current(r)].job # j
      PROVE  CountRecentFailures(j) =
               IF jobState[j] = None THEN 0 ELSE jobState[j].fails
  BY <1>1, <1>7 DEF SerialInv
<1>8. (count[r] = CountRecentFailures(payload[Current(r)].job))'
  BY <1>2, <1>4
<1> QED
  BY <1>1, <1>2, <1>3, <1>5, <1>6, <1>7, <1>8 DEF SerialInv, Updating

LEMMA SerialUpsert ==
    ASSUME DeliveryInv, SerialInv, NEW r \in Slots, UpsertCurrentState(r)
    PROVE  SerialInv'
<1> SUFFICES ASSUME Serial' PROVE SerialInv'
  BY DEF SerialInv
<1>1. Serial /\ Slots = {r} /\ at[r] = "upsert"
  BY DEF Serial, UpsertCurrentState
<1>2. /\ payload' = payload /\ rows' = rows /\ owner' = owner
      /\ at'[r] = "insert"
      /\ jobState' = [jobState EXCEPT ![payload[Current(r)].job] =
                        [status |-> payload[Current(r)].status, fails |-> count[r]]]
  BY DEF UpsertCurrentState, NextEvent, DeliveryInv, TypeOK
<1>3. \A j : CountRecentFailures(j)' = CountRecentFailures(j)
  BY <1>2 DEF CountRecentFailures, FailingRows
<1>4. count[r] = CountRecentFailures(payload[Current(r)].job) /\ owner[r] # None
  BY <1>1 DEF SerialInv
<1>5. ASSUME NEW j \in Jobs
      PROVE  CountRecentFailures(j) =
               IF jobState'[j] = None THEN 0 ELSE jobState'[j].fails
  <2>1. CASE payload[Current(r)].job = j
    <3>1. jobState'[j].fails = CountRecentFailures(j)
      BY <1>2, <1>4, <1>5, <2>1 DEF DeliveryInv, TypeOK
    <3>2. jobState'[j] # None
      <4>1. Current(r) \in Ids /\ payload[Current(r)] \in Payloads
        BY <1>1, CurrentIsSaved DEF DeliveryInv, RequestsConsistent
      <4>2. jobState'[j] = [status |-> payload[Current(r)].status, fails |-> count[r]]
        BY <1>2, <1>5, <2>1 DEF DeliveryInv, TypeOK
      <4>3. jobState'[j] \in JobStates
        BY <4>1, <4>2, DeliveryAssumption
           DEF DeliveryInv, TypeOK, JobStates, Payloads, Observed, Outcomes
      <4> QED
        BY <4>3, DeliveryAssumption
    <3> QED
      BY <3>1, <3>2
  <2>2. CASE payload[Current(r)].job # j
    <3>1. jobState'[j] = jobState[j]
      BY <1>2, <2>2 DEF DeliveryInv, TypeOK
    <3> QED
      BY <1>1, <2>2, <3>1 DEF SerialInv
  <2> QED
    BY <2>1, <2>2
<1> QED
  BY <1>1, <1>2, <1>3, <1>4, <1>5 DEF SerialInv

LEMMA SerialStep ==
    ASSUME DeliveryInv, SerialInv, [Next]_vars
    PROVE  SerialInv'
<1> SUFFICES ASSUME Serial' PROVE SerialInv'
  BY DEF SerialInv
<1> USE DEF agent, handler, db
<1>1. ASSUME NEW kind, Fault(kind)
      PROVE  FALSE
  BY <1>1, FaultEndsSerial DEF DeliveryInv
<1>2. ASSUME NEW f \in Flushers, AgentStep(f)
      PROVE  SerialInv'
  <2>1. ASSUME NEW e \in Ids, NEW p \in Payloads, BufferExecution(f, e, p)
        PROVE  SerialInv'
    <3>1. /\ \A x \in Saved : payload'[x] = payload[x]
          /\ rows' = rows /\ faults' = faults /\ jobState' = jobState /\ owner' = owner
          /\ at' = at /\ count' = count /\ todo' = todo
      BY <2>1 DEF BufferExecution, Saved, DeliveryInv, TypeOK
    <3>2. \A x \in rows : x.event \in Saved
      BY DEF DeliveryInv, RowsConsistent, Stored
    <3>3. \A j : FailingRows(j)' = FailingRows(j)
      BY <3>1, <3>2 DEF FailingRows
    <3> QED
      BY <3>1, <3>3, SerialQuiet DEF Serial, Updating
  <2>2. ASSUME NEW r \in Slots, FlushExecutions(f, r)
        PROVE  SerialInv'
    <3>1. /\ payload' = payload /\ rows' = rows /\ faults' = faults
          /\ jobState' = jobState /\ count' = count
          /\ at[r] = "free" /\ at'[r] = "insert" /\ owner'[r] = f /\ f # None
          /\ \A q \in Slots \ {r} : at'[q] = at[q] /\ owner'[q] = owner[q]
                                    /\ todo'[q] = todo[q]
      BY <2>2, DeliveryAssumption DEF FlushExecutions, DeliveryInv, TypeOK
    <3>2. \A j : FailingRows(j)' = FailingRows(j)
      BY <3>1 DEF FailingRows
    <3>3. Serial' => Serial
      BY <3>1 DEF Serial
    <3>4. ASSUME NEW q \in Slots
          PROVE  /\ at'[q] # "free" => owner'[q] # None \/ (owner[q] = None /\ at[q] # "free")
                 /\ Updating(q)' \/ Updating(q) =>
                      /\ at'[q] = at[q] /\ count'[q] = count[q]
                      /\ todo'[q] = todo[q]
      BY <3>1 DEF Updating
    <3> QED
      BY <3>1, <3>2, <3>3, <3>4, SerialQuiet
  <2>3. ASSUME NEW r \in Slots, ReceiveOK(f, r)
        PROVE  SerialInv'
    <3>1. /\ payload' = payload /\ rows' = rows /\ faults' = faults
          /\ jobState' = jobState
          /\ at[r] = "replied" /\ at'[r] = "free"
          /\ \A q \in Slots \ {r} : at'[q] = at[q] /\ owner'[q] = owner[q]
                                    /\ todo'[q] = todo[q] /\ count'[q] = count[q]
      BY <2>3 DEF ReceiveOK, Release, DeliveryInv, TypeOK
    <3>2. \A j : FailingRows(j)' = FailingRows(j)
      BY <3>1 DEF FailingRows
    <3> QED
      BY <3>1, <3>2, SerialQuiet DEF Serial, Updating
  <2>4. ASSUME FlushNothing(f) \/ DeleteExecution(f)
        PROVE  SerialInv'
    <3>1. UNCHANGED <<payload, handler, db, faults>>
      BY <1>1, <2>4 DEF FlushNothing, DeleteExecution
    <3>2. \A j : FailingRows(j)' = FailingRows(j)
      BY <3>1 DEF FailingRows
    <3> QED
      BY <3>1, <3>2, SerialQuiet DEF Serial, Updating
  <2> QED
    BY <1>1, <1>2, <2>1, <2>2, <2>3, <2>4 DEF AgentStep, GiveUp, BufferFails
<1>3. ASSUME NEW r \in Slots, ServerStep(r)
      PROVE  SerialInv'
  <2>1. ~InsertUnlinked(r) /\ ~InsertFails(r) /\ ~UpdateFails(r)
    BY <1>1 DEF InsertUnlinked, InsertFails, UpdateFails
  <2>2. ~Abandon(r)
    BY DEF Abandon, SerialInv, Serial
  <2>3. ASSUME Reply(r)
        PROVE  SerialInv'
    <3>1. /\ payload' = payload /\ rows' = rows /\ faults' = faults
          /\ jobState' = jobState /\ owner' = owner /\ todo' = todo /\ count' = count
          /\ at[r] = "insert" /\ at'[r] = "replied"
          /\ \A q \in Slots \ {r} : at'[q] = at[q]
      BY <2>3 DEF Reply, DeliveryInv, TypeOK
    <3>2. \A j : FailingRows(j)' = FailingRows(j)
      BY <3>1 DEF FailingRows
    <3>3. owner[r] # None
      BY <2>3 DEF Reply
    <3> QED
      BY <3>1, <3>2, <3>3, SerialQuiet DEF Serial, Updating
  <2> QED
    BY <1>3, <2>1, <2>2, <2>3, SerialInsert, SerialCount, SerialUpsert DEF ServerStep
<1>4. ASSUME (\E j \in Jobs : UpsertJob(j)) \/ UNCHANGED vars
      PROVE  SerialInv'
  <2>1. UNCHANGED <<payload, handler, rows, jobState, faults>>
    BY <1>4 DEF UpsertJob, vars
  <2>2. \A j : FailingRows(j)' = FailingRows(j)
    BY <2>1 DEF FailingRows
  <2> QED
    BY <2>1, <2>2, SerialQuiet DEF Serial, Updating
<1> QED
  BY <1>1, <1>2, <1>3, <1>4 DEF Next, Restart

\* With one handler at a time and no failed statement, consecutive_fail is the
\* number of failing rows of its job whenever no update is under way.
THEOREM FailsOfWindowTheorem == Spec => []FailsOfWindow
<1>1. Init => SerialInv
  <2>1. Init => \A j : FailingRows(j) = {}
    BY DEF Init, FailingRows
  <2> QED
    BY <2>1, FS_EmptySet DEF Init, SerialInv, CountRecentFailures, Updating
<1>2. DeliveryInv /\ SerialInv /\ [Next]_vars => SerialInv'
  BY SerialStep
<1>3. SerialInv => FailsOfWindow
  BY DEF SerialInv, FailsOfWindow
<1> QED
  BY <1>1, <1>2, <1>3, DeliveryInvariant, PTL DEF Spec

-----------------------------------------------------------------------------
(* Duplicates.                                                             *)

\* Goroutines that can send an event, now or once it is saved, without a
\* failure in between: not those that wait for an answer or delete.
CanSend(e) ==
    {f \in Flushers :
       \/ e \notin Saved
       \/ e \in pending /\ ~(pc[f] \in {"wait", "delete"} /\ e \in held[f])}

\* Requests that may still add a row of an event.
InFlight(e) == {r \in Slots : e \in todo[r] /\ ~(Updating(r) /\ e = Current(r))}

Allowance == Cardinality(Flushers) * (1 + faults)

\* A goroutine that sends an event hands its turn to the request, and the
\* request hands it to the row; only a failure gives turns back.
DuplicationInv ==
    \A e \in Ids :
      /\ IsFiniteSet(InFlight(e))
      /\ Cardinality(RowsOf(e)) + Cardinality(InFlight(e)) + Cardinality(CanSend(e))
           <= Allowance

LEMMA FlushersFinite ==
    /\ IsFiniteSet(Flushers)
    /\ Cardinality(Flushers) \in Nat
    /\ \A e : IsFiniteSet(CanSend(e)) /\ Cardinality(CanSend(e)) \in Nat
              /\ Cardinality(CanSend(e)) <= Cardinality(Flushers)
<1>1. Flushers = Workers \cup {MainLoop}
  BY DEF Flushers
<1>2. IsFiniteSet(Flushers)
  BY <1>1, FS_AddElement, DeliveryAssumption
<1>3. \A e : CanSend(e) \in SUBSET Flushers
  BY DEF CanSend
<1> QED
  BY <1>2, <1>3, FS_Subset, FS_CardinalityType

LEMMA AllowanceType ==
    ASSUME TypeOK
    PROVE  /\ Allowance \in Nat
           /\ faults' = faults => Allowance' = Allowance
           /\ faults' = faults + 1 => Allowance' = Allowance + Cardinality(Flushers)
<1>1. faults \in Nat
  BY DeliveryAssumption DEF TypeOK
<1>2. PICK n \in Nat : n = Cardinality(Flushers)
  BY FlushersFinite
<1>3. n * (1 + faults) \in Nat /\ n * (1 + (faults + 1)) = n * (1 + faults) + n
  BY <1>1, <1>2
<1> QED
  BY <1>1, <1>2, <1>3 DEF Allowance

LEMMA RowsFinite ==
    ASSUME RowsConsistent, NEW e
    PROVE  IsFiniteSet(RowsOf(e)) /\ Cardinality(RowsOf(e)) \in Nat
<1>1. RowsOf(e) \in SUBSET rows
  BY DEF RowsOf
<1> QED
  BY <1>1, FS_Subset, FS_CardinalityType DEF RowsConsistent

\* A step without new rows and requests, with fewer goroutines that can send
\* or one more failure.
LEMMA NoDuplicate ==
    ASSUME DeliveryInv, NEW e \in Ids, IsFiniteSet(InFlight(e)),
           Cardinality(RowsOf(e)) + Cardinality(InFlight(e)) + Cardinality(CanSend(e))
             <= Allowance,
           RowsOf(e)' = RowsOf(e), InFlight(e)' \subseteq InFlight(e),
           \/ faults' = faults /\ CanSend(e)' \subseteq CanSend(e)
           \/ faults' = faults + 1
    PROVE  /\ IsFiniteSet(InFlight(e)')
           /\ (Cardinality(RowsOf(e)) + Cardinality(InFlight(e)) + Cardinality(CanSend(e))
                 <= Allowance)'
<1>1. Cardinality(RowsOf(e)) \in Nat
  BY RowsFinite DEF DeliveryInv
<1>2. RowsOf(e)' = RowsOf(e)
  OBVIOUS
<1>3. /\ IsFiniteSet(InFlight(e)')
      /\ Cardinality(InFlight(e)) \in Nat /\ Cardinality(InFlight(e)') \in Nat
      /\ Cardinality(InFlight(e)') <= Cardinality(InFlight(e))
  BY FS_Subset, FS_CardinalityType
<1>4. /\ Cardinality(CanSend(e)) \in Nat /\ IsFiniteSet(CanSend(e))
      /\ Cardinality(Flushers) \in Nat
  BY FlushersFinite
<1>5. CanSend(e)' \in SUBSET Flushers
  BY DEF CanSend
<1>6. /\ Cardinality(CanSend(e)') \in Nat
      /\ Cardinality(CanSend(e)') <= Cardinality(Flushers)
  BY <1>5, FlushersFinite, FS_Subset, FS_CardinalityType
<1>7. TypeOK
  BY DEF DeliveryInv
<1>8. CASE faults' = faults /\ CanSend(e)' \subseteq CanSend(e)
  <2>1. Cardinality(CanSend(e)') <= Cardinality(CanSend(e))
    BY <1>4, <1>8, FS_Subset
  <2> QED
    BY <1>1, <1>2, <1>3, <1>4, <1>6, <1>7, <1>8, <2>1, AllowanceType
<1>9. CASE faults' = faults + 1
  BY <1>1, <1>2, <1>3, <1>4, <1>6, <1>7, <1>9, AllowanceType
<1> QED
  BY <1>8, <1>9

\* Requests whose slot a step leaves alone.
LEMMA SlotUntouched ==
    ASSUME NEW e, NEW r \in Slots, at'[r] = at[r], todo'[r] = todo[r]
    PROVE  r \in InFlight(e)' <=> r \in InFlight(e)
  BY DEF InFlight, Updating, Current

\* The turn goes from the goroutine to the request.
LEMMA FlushDuplication ==
    ASSUME DeliveryInv, DuplicationInv, NEW f \in Flushers, NEW r \in Slots,
           FlushExecutions(f, r)
    PROVE  DuplicationInv'
<1>1. /\ rows' = rows /\ payload' = payload /\ pending' = pending /\ faults' = faults
      /\ pc[f] \notin {"wait", "delete"} /\ pc'[f] = "wait" /\ held'[f] = pending
      /\ \A g \in Flushers \ {f} : pc'[g] = pc[g] /\ held'[g] = held[g]
      /\ at'[r] = "insert" /\ todo'[r] = pending
      /\ \A q \in Slots \ {r} : at'[q] = at[q] /\ todo'[q] = todo[q]
  BY DEF FlushExecutions, DeliveryInv, TypeOK, db
<1> SUFFICES ASSUME NEW e \in Ids
             PROVE  /\ IsFiniteSet(InFlight(e)')
                    /\ (Cardinality(RowsOf(e)) + Cardinality(InFlight(e))
                          + Cardinality(CanSend(e)) <= Allowance)'
  BY DEF DuplicationInv
<1>2. /\ IsFiniteSet(InFlight(e))
      /\ Cardinality(RowsOf(e)) + Cardinality(InFlight(e)) + Cardinality(CanSend(e))
           <= Allowance
  BY DEF DuplicationInv
<1>3. RowsOf(e)' = RowsOf(e) /\ Saved' = Saved
  BY <1>1 DEF RowsOf, Saved
<1>4. CASE e \in pending
  <2>1. e \in Saved
    BY <1>4 DEF DeliveryInv
  <2>2. f \in CanSend(e) /\ CanSend(e)' = CanSend(e) \ {f}
    BY <1>1, <1>3, <1>4, <2>1 DEF CanSend
  <2>3. InFlight(e)' = InFlight(e) \cup {r}
    <3>1. r \in InFlight(e)'
      BY <1>1, <1>4 DEF InFlight, Updating
    <3>2. \A q \in Slots \ {r} : q \in InFlight(e)' <=> q \in InFlight(e)
      BY <1>1, SlotUntouched
    <3>3. InFlight(e) \subseteq Slots /\ InFlight(e)' \subseteq Slots
      BY DEF InFlight
    <3> QED
      BY <3>1, <3>2, <3>3
  <2>4. /\ IsFiniteSet(InFlight(e)')
        /\ Cardinality(InFlight(e)) \in Nat /\ Cardinality(InFlight(e)') \in Nat
        /\ Cardinality(InFlight(e)') <= Cardinality(InFlight(e)) + 1
    <3>1. Cardinality(InFlight(e)) \in Nat
      BY <1>2, FS_CardinalityType
    <3>2. /\ IsFiniteSet(InFlight(e) \cup {r})
          /\ \/ Cardinality(InFlight(e) \cup {r}) = Cardinality(InFlight(e))
             \/ Cardinality(InFlight(e) \cup {r}) = Cardinality(InFlight(e)) + 1
      BY <1>2, FS_AddElement
    <3> QED
      BY <2>3, <3>1, <3>2
  <2>5. /\ Cardinality(CanSend(e)) \in Nat
        /\ Cardinality(CanSend(e)') = Cardinality(CanSend(e)) - 1
    BY <2>2, FlushersFinite, FS_RemoveElement
  <2>6. Cardinality(RowsOf(e)) \in Nat
    BY RowsFinite DEF DeliveryInv
  <2>7. Allowance' = Allowance /\ Allowance \in Nat
    BY <1>1, AllowanceType DEF DeliveryInv
  <2> QED
    BY <1>2, <1>3, <2>4, <2>5, <2>6, <2>7
<1>5. CASE e \notin pending
  <2>1. CanSend(e)' \subseteq CanSend(e)
    BY <1>1, <1>3, <1>5 DEF CanSend
  <2>2. InFlight(e)' \subseteq InFlight(e)
    <3>1. r \notin InFlight(e)'
      BY <1>1, <1>5 DEF InFlight
    <3>2. \A q \in Slots \ {r} : q \in InFlight(e)' <=> q \in InFlight(e)
      BY <1>1, SlotUntouched
    <3>3. InFlight(e)' \subseteq Slots
      BY DEF InFlight
    <3> QED
      BY <3>1, <3>2, <3>3
  <2> QED
    BY <1>1, <1>2, <1>3, <2>1, <2>2, NoDuplicate
<1> QED
  BY <1>4, <1>5

\* The request is done with its current event, or goes on to update its job.
LEMMA CurrentDone ==
    ASSUME DeliveryInv, NEW r \in Slots, at[r] \in {"insert", "count", "upsert"},
           \/ NextEvent(r)
           \/ at' = [at EXCEPT ![r] = "count"] /\ todo' = todo
    PROVE  \A e : /\ InFlight(e)' \subseteq InFlight(e)
                  /\ e = Current(r) => r \notin InFlight(e)'
<1>1. \A q \in Slots \ {r} : at'[q] = at[q] /\ todo'[q] = todo[q]
  BY DEF NextEvent, DeliveryInv, TypeOK
<1>2. ASSUME NEW e, r \in InFlight(e)'
      PROVE  r \in InFlight(e) /\ e # Current(r)
  <2>1. CASE NextEvent(r)
    BY <1>2, <2>1 DEF InFlight, NextEvent, Updating, DeliveryInv, TypeOK
  <2>2. CASE at' = [at EXCEPT ![r] = "count"] /\ todo' = todo
    <3>1. Current(r)' = Current(r) /\ Updating(r)'
      BY <2>2 DEF Current, Updating, DeliveryInv, TypeOK
    <3> QED
      BY <1>2, <2>2, <3>1 DEF InFlight
  <2> QED
    BY <2>1, <2>2
<1>3. ASSUME NEW e
      PROVE  InFlight(e)' \subseteq InFlight(e)
  <2>1. \A q \in Slots \ {r} : q \in InFlight(e)' <=> q \in InFlight(e)
    BY <1>1, SlotUntouched
  <2>2. InFlight(e)' \subseteq Slots
    BY DEF InFlight
  <2> QED
    BY <1>2, <2>1, <2>2
<1> QED
  BY <1>2, <1>3

\* The turn goes from the request to the row.
LEMMA InsertDuplication ==
    ASSUME DeliveryInv, DuplicationInv, NEW r \in Slots, Insert(r) \/ InsertUnlinked(r)
    PROVE  DuplicationInv'
<1>1. PICK x : x.event = Current(r) /\ rows' = rows \cup {x}
  BY DEF Insert, InsertUnlinked
<1>2. /\ payload' = payload /\ pending' = pending /\ pc' = pc /\ held' = held
      /\ at[r] = "insert" /\ todo[r] # {}
      /\ faults' = faults \/ faults' = faults + 1
  BY DEF Insert, InsertUnlinked, Fault, agent
<1>3. NextEvent(r) \/ (at' = [at EXCEPT ![r] = "count"] /\ todo' = todo)
  BY DEF Insert, InsertUnlinked
<1>4. \A e : /\ InFlight(e)' \subseteq InFlight(e)
             /\ e = Current(r) => r \notin InFlight(e)'
  BY <1>2, <1>3, CurrentDone
<1> SUFFICES ASSUME NEW e \in Ids
             PROVE  /\ IsFiniteSet(InFlight(e)')
                    /\ (Cardinality(RowsOf(e)) + Cardinality(InFlight(e))
                          + Cardinality(CanSend(e)) <= Allowance)'
  BY DEF DuplicationInv
<1>5. /\ IsFiniteSet(InFlight(e))
      /\ Cardinality(RowsOf(e)) + Cardinality(InFlight(e)) + Cardinality(CanSend(e))
           <= Allowance
  BY DEF DuplicationInv
<1>6. CanSend(e)' = CanSend(e)
  BY <1>2 DEF CanSend, Saved
<1>7. CASE e # Current(r)
  <2>1. RowsOf(e)' = RowsOf(e)
    BY <1>1, <1>7 DEF RowsOf
  <2> QED
    BY <1>2, <1>4, <1>5, <1>6, <2>1, NoDuplicate
<1>8. CASE e = Current(r)
  <2>1. RowsOf(e)' = RowsOf(e) \cup {x}
    BY <1>1, <1>8 DEF RowsOf
  <2>2. Cardinality(RowsOf(e)) \in Nat /\ IsFiniteSet(RowsOf(e))
    BY RowsFinite DEF DeliveryInv
  <2>3. \/ Cardinality(RowsOf(e) \cup {x}) = Cardinality(RowsOf(e))
        \/ Cardinality(RowsOf(e) \cup {x}) = Cardinality(RowsOf(e)) + 1
    BY <2>2, FS_AddElement
  <2>4. Current(r) \in todo[r]
    BY <1>2, CurrentIsSaved
  <2>5. r \in InFlight(e)
    BY <1>2, <1>8, <2>4 DEF InFlight, Updating
  <2>6. /\ IsFiniteSet(InFlight(e) \ {r}) /\ Cardinality(InFlight(e)) \in Nat
        /\ Cardinality(InFlight(e) \ {r}) = Cardinality(InFlight(e)) - 1
    BY <1>5, <2>5, FS_RemoveElement, FS_CardinalityType
  <2>7. InFlight(e)' \in SUBSET (InFlight(e) \ {r})
    BY <1>4, <1>8
  <2>8. /\ IsFiniteSet(InFlight(e)') /\ Cardinality(InFlight(e)') \in Nat
        /\ Cardinality(InFlight(e)') <= Cardinality(InFlight(e)) - 1
    <3>1. /\ IsFiniteSet(InFlight(e)')
          /\ Cardinality(InFlight(e)') <= Cardinality(InFlight(e) \ {r})
      BY <2>6, <2>7, FS_Subset
    <3> QED
      BY <2>6, <3>1, FS_CardinalityType
  <2>9. Cardinality(CanSend(e)) \in Nat /\ Cardinality(Flushers) \in Nat
    BY FlushersFinite
  <2>10. Allowance \in Nat /\ (Allowance' = Allowance \/ Allowance' = Allowance + Cardinality(Flushers))
    BY <1>2, AllowanceType DEF DeliveryInv
  <2> QED
    BY <1>5, <1>6, <2>1, <2>2, <2>3, <2>6, <2>8, <2>9, <2>10
<1> QED
  BY <1>7, <1>8

\* Steps without new rows and requests.
LEMMA QuietDuplication ==
    ASSUME DeliveryInv, DuplicationInv, rows' = rows,
           \A e \in Ids : InFlight(e)' \subseteq InFlight(e),
           \/ faults' = faults /\ \A e \in Ids : CanSend(e)' \subseteq CanSend(e)
           \/ faults' = faults + 1
    PROVE  DuplicationInv'
<1> SUFFICES ASSUME NEW e \in Ids
             PROVE  /\ IsFiniteSet(InFlight(e)')
                    /\ (Cardinality(RowsOf(e)) + Cardinality(InFlight(e))
                          + Cardinality(CanSend(e)) <= Allowance)'
  BY DEF DuplicationInv
<1>1. RowsOf(e)' = RowsOf(e)
  BY DEF RowsOf
<1> QED
  BY <1>1, NoDuplicate DEF DuplicationInv

\* Steps that leave one slot at most, and nothing there to insert.
LEMMA SlotEmptied ==
    ASSUME NEW r \in Slots, todo'[r] = {},
           \A q \in Slots \ {r} : at'[q] = at[q] /\ todo'[q] = todo[q]
    PROVE  \A e : InFlight(e)' \subseteq InFlight(e)
<1> SUFFICES ASSUME NEW e, NEW q \in InFlight(e)' PROVE q \in InFlight(e)
  OBVIOUS
<1>1. q \in Slots \ {r}
  BY DEF InFlight
<1> QED
  BY <1>1, SlotUntouched

LEMMA AgentDuplication ==
    ASSUME DeliveryInv, DuplicationInv, NEW f \in Flushers, AgentStep(f)
    PROVE  DuplicationInv'
<1> USE DEF db, handler, agent
<1>1. ASSUME NEW e \in Ids, NEW p \in Payloads, BufferExecution(f, e, p)
      PROVE  DuplicationInv'
  <2>1. /\ payload[e] = None /\ payload' = [payload EXCEPT ![e] = p]
        /\ pending' = pending \cup {e} /\ held' = held
        /\ pc[f] = "idle" /\ pc'[f] \in {"idle", "flush"}
        /\ \A g \in Flushers \ {f} : pc'[g] = pc[g]
        /\ rows' = rows /\ faults' = faults /\ at' = at /\ todo' = todo
    BY <1>1 DEF BufferExecution, DeliveryInv, TypeOK
  <2>2. \A x \in Ids : InFlight(x)' \subseteq InFlight(x)
    BY <2>1, SlotUntouched DEF InFlight
  <2>3. ASSUME NEW x \in Ids
        PROVE  CanSend(x)' \subseteq CanSend(x)
    <3>1. CASE x = e
      <4>1. CanSend(x) = Flushers
        BY <2>1, <3>1 DEF CanSend, Saved
      <4> QED
        BY <4>1 DEF CanSend
    <3>2. CASE x # e
      <4>1. x \in Saved' <=> x \in Saved
        BY <2>1, <3>2 DEF Saved, DeliveryInv, TypeOK
      <4> QED
        BY <2>1, <3>2, <4>1 DEF CanSend
    <3> QED
      BY <3>1, <3>2
  <2> QED
    BY <2>1, <2>2, <2>3, QuietDuplication
<1>2. ASSUME NEW r \in Slots, ReceiveOK(f, r)
      PROVE  DuplicationInv'
  <2>1. pc[f] = "wait"
    BY <1>2, DeliveryAssumption DEF ReceiveOK, DeliveryInv, RequestsConsistent
  <2>2. /\ payload' = payload /\ pending' = pending /\ held' = held
        /\ pc'[f] = "delete" /\ \A g \in Flushers \ {f} : pc'[g] = pc[g]
        /\ rows' = rows /\ faults' = faults
        /\ todo'[r] = {}
        /\ \A q \in Slots \ {r} : at'[q] = at[q] /\ todo'[q] = todo[q]
    BY <1>2 DEF ReceiveOK, Release, DeliveryInv, TypeOK
  <2>3. \A e : InFlight(e)' \subseteq InFlight(e)
    BY <2>2, SlotEmptied
  <2>4. \A e : CanSend(e)' \subseteq CanSend(e)
    BY <2>1, <2>2 DEF CanSend, Saved
  <2> QED
    BY <2>2, <2>3, <2>4, QuietDuplication
<1>3. ASSUME (\E r \in Slots : GiveUp(f, r)) \/ BufferFails(f) \/ FlushNothing(f)
             \/ DeleteExecution(f),
             faults' = faults + 1
      PROVE  DuplicationInv'
  <2>1. rows' = rows /\ at' = at /\ todo' = todo
    BY <1>3 DEF GiveUp, BufferFails, FlushNothing, DeleteExecution
  <2>2. \A e : InFlight(e)' \subseteq InFlight(e)
    BY <2>1, SlotUntouched DEF InFlight
  <2> QED
    BY <1>3, <2>1, <2>2, QuietDuplication
<1>4. ASSUME FlushNothing(f) \/ DeleteExecution(f), faults' = faults
      PROVE  DuplicationInv'
  <2>1. /\ rows' = rows /\ at' = at /\ todo' = todo /\ payload' = payload
        /\ \A g \in Flushers \ {f} : pc'[g] = pc[g] /\ held'[g] = held[g]
        /\ pending' \subseteq pending
    BY <1>4 DEF FlushNothing, DeleteExecution, DeliveryInv, TypeOK
  <2>2. \A e : InFlight(e)' \subseteq InFlight(e)
    BY <2>1, SlotUntouched DEF InFlight
  <2>3. ASSUME NEW e \in Ids, e \in pending', f \in CanSend(e)'
        PROVE  f \in CanSend(e)
    <3>1. CASE FlushNothing(f)
      BY <2>1, <2>3, <3>1 DEF FlushNothing, CanSend
    <3>2. CASE DeleteExecution(f)
      <4>1. faults' # faults + 1
        BY <1>4, DeliveryAssumption DEF DeliveryInv, TypeOK
      <4>2. /\ pc[f] = "delete" /\ pending' = pending \ {First(held[f])}
            /\ held'[f] = held[f] \ {First(held[f])}
            /\ held'[f] # {} => pc'[f] = "delete"
        BY <3>2, <4>1 DEF DeleteExecution, Fault, DeliveryInv, TypeOK
      <4>3. e \in held[f] => e \in held'[f]
        BY <2>3, <4>2
      <4> QED
        BY <2>1, <2>3, <4>2, <4>3 DEF CanSend, Saved
    <3> QED
      BY <1>4, <3>1, <3>2
  <2>4. ASSUME NEW e \in Ids
        PROVE  CanSend(e)' \subseteq CanSend(e)
    BY <2>1, <2>3 DEF CanSend, Saved
  <2> QED
    BY <1>4, <2>1, <2>2, <2>4, QuietDuplication
<1>5. ASSUME (\E r \in Slots : GiveUp(f, r)) \/ BufferFails(f)
      PROVE  faults' = faults + 1
  BY <1>5 DEF GiveUp, BufferFails, Fault
<1>6. ASSUME FlushNothing(f) \/ DeleteExecution(f)
      PROVE  faults' = faults \/ faults' = faults + 1
  BY <1>6 DEF FlushNothing, DeleteExecution, Fault
<1> QED
  BY <1>1, <1>2, <1>3, <1>4, <1>5, <1>6, FlushDuplication DEF AgentStep

LEMMA ServerDuplication ==
    ASSUME DeliveryInv, DuplicationInv, NEW r \in Slots, ServerStep(r)
    PROVE  DuplicationInv'
<1> USE DEF db, agent
<1>1. ASSUME InsertFails(r) \/ UpdateFails(r) \/ UpsertCurrentState(r)
      PROVE  DuplicationInv'
  <2>1. /\ rows' = rows /\ payload' = payload /\ pending' = pending
        /\ pc' = pc /\ held' = held
        /\ faults' = faults \/ faults' = faults + 1
        /\ at[r] \in {"insert", "count", "upsert"} /\ NextEvent(r)
    BY <1>1 DEF InsertFails, UpdateFails, UpsertCurrentState, Fault
  <2>2. \A e : InFlight(e)' \subseteq InFlight(e)
    BY <2>1, CurrentDone
  <2>3. \A e : CanSend(e)' \subseteq CanSend(e)
    BY <2>1 DEF CanSend, Saved
  <2> QED
    BY <2>1, <2>2, <2>3, QuietDuplication
<1>2. ASSUME CountFailures(r)
      PROVE  DuplicationInv'
  <2>1. /\ rows' = rows /\ payload' = payload /\ pending' = pending
        /\ pc' = pc /\ held' = held /\ faults' = faults /\ todo' = todo
        /\ \A q \in Slots : Updating(q)' <=> Updating(q)
    BY <1>2 DEF CountFailures, Updating, DeliveryInv, TypeOK
  <2>2. \A e : InFlight(e)' \subseteq InFlight(e)
    BY <2>1 DEF InFlight, Current
  <2>3. \A e : CanSend(e)' \subseteq CanSend(e)
    BY <2>1 DEF CanSend, Saved
  <2> QED
    BY <2>1, <2>2, <2>3, QuietDuplication
<1>3. ASSUME Reply(r) \/ Abandon(r)
      PROVE  DuplicationInv'
  <2>1. /\ rows' = rows /\ payload' = payload /\ pending' = pending
        /\ pc' = pc /\ held' = held /\ faults' = faults /\ todo'[r] = {}
        /\ \A q \in Slots \ {r} : at'[q] = at[q] /\ todo'[q] = todo[q]
    BY <1>3 DEF Reply, Abandon, Release, DeliveryInv, TypeOK
  <2>2. \A e : InFlight(e)' \subseteq InFlight(e)
    BY <2>1, SlotEmptied
  <2>3. \A e : CanSend(e)' \subseteq CanSend(e)
    BY <2>1 DEF CanSend, Saved
  <2> QED
    BY <2>1, <2>2, <2>3, QuietDuplication
<1> QED
  BY <1>1, <1>2, <1>3, InsertDuplication DEF ServerStep

LEMMA DuplicationStep ==
    ASSUME DeliveryInv, DuplicationInv, [Next]_vars
    PROVE  DuplicationInv'
<1> USE DEF db, agent, handler
<1>1. ASSUME (\E j \in Jobs : UpsertJob(j)) \/ UNCHANGED vars \/ Restart
      PROVE  DuplicationInv'
  <2>1. /\ rows' = rows /\ at' = at /\ todo' = todo
        /\ \/ UNCHANGED <<payload, pending, pc, held, faults>>
           \/ faults' = faults + 1
    BY <1>1 DEF UpsertJob, vars, Restart, Fault
  <2>2. \A e : InFlight(e)' \subseteq InFlight(e)
    BY <2>1, SlotUntouched DEF InFlight
  <2>3. UNCHANGED <<payload, pending, pc, held>> => \A e : CanSend(e)' \subseteq CanSend(e)
    BY DEF CanSend, Saved
  <2> QED
    BY <2>1, <2>2, <2>3, QuietDuplication
<1> QED
  BY <1>1, AgentDuplication, ServerDuplication DEF Next

\* An event has at most one row for each goroutine of the agent and each
\* failure: overlapping flushes and failures are the only sources of duplicates.
THEOREM BoundedDuplicationTheorem == Spec => []BoundedDuplication
<1>1. Init => DuplicationInv
  <2> SUFFICES ASSUME Init, NEW e \in Ids
               PROVE  /\ IsFiniteSet(InFlight(e))
                      /\ Cardinality(RowsOf(e)) + Cardinality(InFlight(e))
                           + Cardinality(CanSend(e)) <= Allowance
    BY DEF DuplicationInv
  <2>1. RowsOf(e) = {} /\ InFlight(e) = {} /\ faults = 0
    BY DEF Init, RowsOf, InFlight
  <2>2. Allowance = Cardinality(Flushers)
    BY <2>1, FlushersFinite DEF Allowance
  <2> QED
    BY <2>1, <2>2, FlushersFinite, FS_EmptySet
<1>2. DeliveryInv /\ DuplicationInv /\ [Next]_vars => DuplicationInv'
  BY DuplicationStep
<1>3. DeliveryInv /\ DuplicationInv => BoundedDuplication
  <2> SUFFICES ASSUME DeliveryInv, DuplicationInv, NEW e \in Ids
               PROVE  Cardinality(RowsOf(e)) <= Allowance
    BY DEF BoundedDuplication, Allowance
  <2>1. /\ Cardinality(RowsOf(e)) \in Nat
        /\ Cardinality(CanSend(e)) \in Nat /\ Allowance \in Nat
    BY RowsFinite, FlushersFinite, AllowanceType DEF DeliveryInv
  <2>2. Cardinality(InFlight(e)) \in Nat
    BY FS_CardinalityType DEF DuplicationInv
  <2> QED
    BY <2>1, <2>2 DEF DuplicationInv
<1> QED
  BY <1>1, <1>2, <1>3, DeliveryInvariant, PTL DEF Spec

-----------------------------------------------------------------------------
(* Refinement.                                                             *)

\* Each step of the agent and of the server is a step of the outbox or leaves
\* the outbox alone.
LEMMA OutboxStep ==
    ASSUME DeliveryInv, [Next]_vars
    PROVE  [O!Next]_(O!vars)
<1> USE DEF agent, handler, db, O!vars
<1>1. ASSUME NEW f \in Flushers, AgentStep(f)
      PROVE  [O!Next]_(O!vars)
  <2>1. Stored' = Stored
    BY <1>1 DEF AgentStep, BufferExecution, FlushExecutions, ReceiveOK, GiveUp,
                BufferFails, FlushNothing, DeleteExecution, Stored
  <2>2. ASSUME NEW e \in Ids, NEW p \in Payloads, BufferExecution(f, e, p)
        PROVE  O!Save(e)
    BY <2>1, <2>2 DEF BufferExecution, O!Save
  <2>3. ASSUME DeleteExecution(f), pending' # pending
        PROVE  O!Forget(First(held[f])) /\ First(held[f]) \in Ids
    <3>1. /\ held[f] \subseteq Ids /\ held[f] # {}
          /\ held[f] \subseteq Stored \cup refused
      BY <2>3 DEF DeleteExecution, DeliveryInv, DeletesCovered, TypeOK
    <3>2. First(held[f]) \in held[f]
      BY <3>1, FirstIsMember
    <3> QED
      BY <2>1, <2>3, <3>1, <3>2 DEF DeleteExecution, O!Forget
  <2>4. ASSUME ~\E e \in Ids, p \in Payloads : BufferExecution(f, e, p),
               ~(DeleteExecution(f) /\ pending' # pending)
        PROVE  UNCHANGED <<pending, Stored, refused>>
    BY <1>1, <2>1, <2>4 DEF AgentStep, FlushExecutions, ReceiveOK, GiveUp,
                            BufferFails, FlushNothing, DeleteExecution
  <2> QED
    BY <2>2, <2>3, <2>4 DEF O!Next
<1>2. ASSUME NEW r \in Slots, ServerStep(r)
      PROVE  [O!Next]_(O!vars)
  <2>1. ASSUME Insert(r) \/ InsertUnlinked(r)
        PROVE  O!Store(Current(r)) /\ Current(r) \in Ids
    <3>1. Current(r) \in Ids
      BY <2>1, CurrentIsSaved DEF Insert, InsertUnlinked
    <3>2. \E x : x.event = Current(r) /\ rows' = rows \cup {x}
      BY <2>1 DEF Insert, InsertUnlinked
    <3>3. Stored' = Stored \cup {Current(r)}
      BY <3>2 DEF Stored
    <3> QED
      BY <2>1, <3>1, <3>3 DEF Insert, InsertUnlinked, O!Store
  <2>2. ASSUME Reply(r)
        PROVE  O!Refuse(failed[r]) /\ failed[r] \in SUBSET Ids
    BY <2>2 DEF Reply, O!Refuse, Stored, DeliveryInv, TypeOK
  <2>3. ASSUME ~Insert(r), ~InsertUnlinked(r), ~Reply(r)
        PROVE  UNCHANGED <<pending, Stored, refused>>
    BY <1>2, <2>3 DEF ServerStep, InsertFails, CountFailures, UpsertCurrentState,
                      UpdateFails, Abandon, Stored
  <2> QED
    BY <2>1, <2>2, <2>3 DEF O!Next
<1>3. ASSUME (\E j \in Jobs : UpsertJob(j)) \/ Restart \/ UNCHANGED vars
      PROVE  UNCHANGED <<pending, Stored, refused>>
  BY <1>3 DEF UpsertJob, Restart, vars, Stored
<1> QED
  BY <1>1, <1>2, <1>3 DEF Next

\* The reporter and the server together implement the outbox: the protocol
\* never lets an event out of the buffer before the server answered for it.
THEOREM OutboxRefinement == Spec => Outbox
<1>1. Init => O!Init
  BY DEF Init, O!Init, Stored
<1>2. DeliveryInv /\ [Next]_vars => [O!Next]_(O!vars)
  BY OutboxStep
<1> QED
  BY <1>1, <1>2, DeliveryInvariant, PTL DEF Spec, Outbox, O!Spec
=============================================================================
