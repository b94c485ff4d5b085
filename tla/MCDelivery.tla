----------------------------- MODULE MCDelivery -----------------------------
(* Small instances of Delivery for TLC, and the statistics over its rows. *)
EXTENDS Delivery, Statistics, TLC

\* The order of birth is history that only LatestState and ConsecutiveFailures
\* look at; no guard and no other property depends on it.
WithoutBirthOrder == <<pending, payload, agent, handler, db, refused, faults>>

\* The statistics of every history of up to five rows.
Histories == UNION {[1 .. n -> {"running", "success", "failed", "missed"}] : n \in 0 .. 5}

ASSUME StatisticsChecked ==
    \A h \in Histories :
        EpisodesAreStreaks(h) /\ FailingUntilSuccess(h) /\ FailsCountStreak(h)

ASSUME WindowChecked ==
    \A n \in 0 .. 3 : \A status \in [1 .. n -> Statuses] :
        WindowAddsUp({[id |-> i, status |-> status[i]] : i \in 1 .. n})
=============================================================================
