----------------------------- MODULE Statistics -----------------------------
(***************************************************************************)
(* What the dashboard's statistics compute from the executions table.      *)
(*                                                                         *)
(* A history h is the sequence of the statuses of a job's rows in the      *)
(* order of created_at, which the database sets to the time of the Insert; *)
(* positions stand for times.  Two rows of a job in the same microsecond   *)
(* are left out: ROW_NUMBER would order them arbitrarily.                  *)
(***************************************************************************)
EXTENDS Integers, FiniteSets, Sequences

\* The CHECK constraint of executions.status.
Statuses == {"running", "success", "failed", "unknown", "partial", "missed"}

-----------------------------------------------------------------------------
(* GetJobRecoveryStats: failure episodes by gaps and islands. *)

isBad(h, i) == h[i] \in {"failed", "unknown", "missed"}
BadRows(h)  == {i \in DOMAIN h : isBad(h, i)}

\* The number of a row among the rows of its kind; rn is the position.
typeRn(h, i) == Cardinality({k \in 1 .. i : isBad(h, k) <=> isBad(h, i)})
islandId(h, i) == i - typeRn(h, i)

\* GROUP BY island_id over the bad rows.
Episode(h, i) == {k \in BadRows(h) : islandId(h, k) = islandId(h, i)}
Episodes(h)   == {Episode(h, i) : i \in BadRows(h)}

episodeStart(E) == CHOOSE i \in E : \A k \in E : i <= k
episodeEnd(E)   == CHOOSE i \in E : \A k \in E : k <= i

\* The successes an episode is joined with; recovered_at is the first of them.
Recoveries(h, E) == {k \in DOMAIN h : k > episodeEnd(E) /\ h[k] = "success"}

\* Episodes come with the latest start first.
Latest(h) ==
    CHOOSE E \in Episodes(h) :
        \A F \in Episodes(h) : episodeStart(F) <= episodeStart(E)

\* Jobs without an episode are not in the result.
IsCurrentlyFailing(h)  == BadRows(h) # {} /\ Recoveries(h, Latest(h)) = {}
CurrentEpisodeFails(h) == IF IsCurrentlyFailing(h) THEN Cardinality(Latest(h)) ELSE 0

-----------------------------------------------------------------------------
(* GetWindowStats over the rows R of the window, a set of records with a   *)
(* field status.                                                           *)

Having(R, s) == Cardinality({x \in R : x.status = s})
Total(R)     == Cardinality({x \in R : x.status # "running"})

-----------------------------------------------------------------------------
(* What the statistics promise. *)

\* "consecutive failure runs": two bad rows are in one episode exactly when
\* every row between them is bad.  A row of a run that is still going, or that
\* ended with an unknown outcome (partial), separates episodes.
EpisodesAreStreaks(h) ==
    \A i, j \in BadRows(h) :
        i <= j => (Episode(h, i) = Episode(h, j) <=> \A k \in i .. j : isBad(h, k))

\* A job is shown as failing exactly while some failure has no later success,
\* although rows that are neither end an episode without ending the failure.
FailingUntilSuccess(h) ==
    IsCurrentlyFailing(h) <=>
        \E i \in BadRows(h) : \A k \in DOMAIN h : k > i => h[k] # "success"

\* The count of a job that is failing takes its failures back to the last row
\* that is not one, even when later rows are neither failures nor successes.
FailsCountStreak(h) ==
    \A i \in BadRows(h) :
        IsCurrentlyFailing(h) /\ (\A k \in BadRows(h) : k <= i) =>
            CurrentEpisodeFails(h) =
                Cardinality({j \in BadRows(h) : \A k \in j .. i : isBad(h, k)})

\* The columns of the window add up to its total.
WindowAddsUp(R) ==
    Total(R) = Having(R, "success") + Having(R, "failed") + Having(R, "partial")
               + Having(R, "unknown") + Having(R, "missed")
=============================================================================
