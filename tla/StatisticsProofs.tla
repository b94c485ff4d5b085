--------------------------- MODULE StatisticsProofs ---------------------------
(***************************************************************************)
(* The statistics of histories of any length.                              *)
(***************************************************************************)
EXTENDS Statistics, FiniteSetTheorems, WellFoundedInduction, TLAPS

\* A set of positions has a first and a last one.
LEMMA Smallest ==
    ASSUME NEW T, T \subseteq Nat, T # {}
    PROVE  \E x \in T : \A y \in T : x <= y
  <1>1. PICK x \in T : \A y \in T : ~(<<y, x>> \in OpToRel(<, Nat))
    BY NatLessThanWellFounded, WFMin
  <1>2. \A y \in T : ~(y < x)
    BY <1>1 DEF OpToRel
  <1> QED
    BY <1>2

LEMMA Extremes ==
    ASSUME NEW n \in Nat, NEW S, S \subseteq 1 .. n, S # {}
    PROVE  /\ \E x \in S : \A y \in S : x <= y
           /\ \E x \in S : \A y \in S : y <= x
  <1>0. S \subseteq Nat
    OBVIOUS
  <1>1. \E x \in S : \A y \in S : x <= y
    BY <1>0, Smallest
  <1> DEFINE T == {n - y : y \in S}
  <1>2. T \subseteq Nat /\ T # {}
    <2>1. \A y \in S : n - y \in Nat
      OBVIOUS
    <2>2. PICK y \in S : TRUE
      OBVIOUS
    <2>3. n - y \in T
      OBVIOUS
    <2> QED
      BY <2>1, <2>3
  <1>3. PICK d \in T : \A y \in T : d <= y
    BY <1>2, Smallest
  <1>4. PICK x \in S : d = n - x
    BY <1>3
  <1>5. ASSUME NEW y \in S PROVE y <= x
    <2>1. n - y \in T
      OBVIOUS
    <2>2. n - x <= n - y
      BY <2>1, <1>3, <1>4
    <2>3. x \in Nat /\ y \in Nat
      OBVIOUS
    <2> QED
      BY <2>2, <2>3
  <1> QED
    BY <1>1, <1>5

LEMMA BadRowsPositions ==
    ASSUME NEW h \in Seq(Statuses)
    PROVE  Len(h) \in Nat /\ DOMAIN h = 1 .. Len(h) /\ BadRows(h) \subseteq 1 .. Len(h)
  BY DEF BadRows

\* The rows up to i that are not bad.
GoodUpTo(h, i) == {k \in 1 .. i : ~isBad(h, k)}

\* rn - type_rn of a bad row counts the rows before it that are not bad.
LEMMA IslandCountsGood ==
    ASSUME NEW h \in Seq(Statuses), NEW i \in BadRows(h)
    PROVE  /\ IsFiniteSet(GoodUpTo(h, i))
           /\ islandId(h, i) = Cardinality(GoodUpTo(h, i))
  <1> DEFINE Same == {k \in 1 .. i : isBad(h, k) <=> isBad(h, i)}
  <1>1. i \in Nat /\ i >= 1 /\ isBad(h, i)
    BY BadRowsPositions DEF BadRows
  <1>2. IsFiniteSet(1 .. i) /\ Cardinality(1 .. i) = i
    BY <1>1, FS_Interval
  <1>3. Same \in SUBSET (1 .. i) /\ (1 .. i) \cap Same = Same
    OBVIOUS
  <1>4. IsFiniteSet(Same) /\ Cardinality(Same) \in Nat
    BY <1>2, <1>3, FS_Subset, FS_CardinalityType
  <1>5. GoodUpTo(h, i) = (1 .. i) \ Same
    BY <1>1 DEF GoodUpTo
  <1>6. /\ IsFiniteSet((1 .. i) \ Same)
        /\ Cardinality((1 .. i) \ Same) = Cardinality(1 .. i) - Cardinality((1 .. i) \cap Same)
    BY <1>2, FS_Difference
  <1> HIDE DEF Same
  <1>7. Cardinality(GoodUpTo(h, i)) = i - Cardinality(Same)
    BY <1>2, <1>3, <1>5, <1>6
  <1> QED
    BY <1>5, <1>6, <1>7 DEF islandId, typeRn, Same

\* Two bad rows have the same island_id exactly when all rows between are bad.
LEMMA SameIsland ==
    ASSUME NEW h \in Seq(Statuses), NEW i \in BadRows(h), NEW j \in BadRows(h), i <= j
    PROVE  islandId(h, i) = islandId(h, j) <=> \A k \in i .. j : isBad(h, k)
  <1>1. i \in Nat /\ j \in Nat /\ i >= 1 /\ isBad(h, i)
    BY BadRowsPositions DEF BadRows
  <1>2. /\ IsFiniteSet(GoodUpTo(h, i)) /\ IsFiniteSet(GoodUpTo(h, j))
        /\ islandId(h, i) = Cardinality(GoodUpTo(h, i))
        /\ islandId(h, j) = Cardinality(GoodUpTo(h, j))
    BY IslandCountsGood
  <1>3. GoodUpTo(h, i) \in SUBSET GoodUpTo(h, j)
    BY <1>1 DEF GoodUpTo
  <1>4. Cardinality(GoodUpTo(h, j)) = Cardinality(GoodUpTo(h, i))
          <=> GoodUpTo(h, j) = GoodUpTo(h, i)
    BY <1>2, <1>3, FS_Subset
  <1>5. GoodUpTo(h, j) = GoodUpTo(h, i) <=> \A k \in i .. j : isBad(h, k)
    BY <1>1 DEF GoodUpTo
  <1> QED
    BY <1>2, <1>4, <1>5

LEMMA SameEpisode ==
    ASSUME NEW h \in Seq(Statuses), NEW i \in BadRows(h), NEW j \in BadRows(h)
    PROVE  Episode(h, i) = Episode(h, j) <=> islandId(h, i) = islandId(h, j)
  BY DEF Episode

\* GetJobRecoveryStats' islands are the streaks of bad rows, for every history.
THEOREM IslandsAreStreaks ==
    ASSUME NEW h \in Seq(Statuses)
    PROVE  EpisodesAreStreaks(h)
  BY SameIsland, SameEpisode DEF EpisodesAreStreaks

-----------------------------------------------------------------------------
LEMMA StartOf ==
    ASSUME NEW h \in Seq(Statuses), NEW E \in Episodes(h)
    PROVE  /\ episodeStart(E) \in E /\ episodeStart(E) \in BadRows(h)
           /\ \A k \in E : episodeStart(E) <= k
           /\ E = Episode(h, episodeStart(E))
  <1>1. PICK i \in BadRows(h) : E = Episode(h, i)
    BY DEF Episodes
  <1>2. E \subseteq BadRows(h) /\ i \in E
    BY <1>1 DEF Episode
  <1>3. \E x \in E : \A y \in E : x <= y
    BY <1>2, BadRowsPositions, Extremes
  <1>4. episodeStart(E) \in E /\ \A k \in E : episodeStart(E) <= k
    BY <1>3 DEF episodeStart
  <1> QED
    BY <1>1, <1>2, <1>4 DEF Episode

\* The latest episode is the one with the last bad row.
LEMMA LatestHasLast ==
    ASSUME NEW h \in Seq(Statuses), NEW l \in BadRows(h), \A k \in BadRows(h) : k <= l
    PROVE  Latest(h) = Episode(h, l)
  <1> DEFINE L == Episode(h, l)
  <1>1. L \in Episodes(h)
    BY DEF Episodes
  <1>2. /\ episodeStart(L) \in BadRows(h)
        /\ L = Episode(h, episodeStart(L))
    BY <1>1, StartOf
  <1>3. \A k \in episodeStart(L) .. l : isBad(h, k)
    BY <1>2, SameIsland, SameEpisode
  <1>4. ASSUME NEW F \in Episodes(h) PROVE episodeStart(F) <= episodeStart(L)
    <2>1. /\ episodeStart(F) \in BadRows(h)
          /\ F = Episode(h, episodeStart(F))
          /\ \A k \in F : episodeStart(F) <= k
      BY StartOf
    <2>2. /\ episodeStart(F) \in Nat /\ episodeStart(L) \in Nat /\ l \in Nat
          /\ episodeStart(F) <= l
      BY <1>2, <2>1, BadRowsPositions
    <2>3. ASSUME episodeStart(F) > episodeStart(L) PROVE FALSE
      <3>1. \A k \in episodeStart(F) .. l : isBad(h, k)
        BY <1>3, <2>2, <2>3
      <3>2. F = L
        BY <3>1, <2>1, <2>2, SameIsland, SameEpisode
      <3> QED
        BY <3>2, <2>2, <2>3
    <2> QED
      BY <2>2, <2>3
  <1> HIDE DEF L
  <1>5. /\ Latest(h) \in Episodes(h)
        /\ \A F \in Episodes(h) : episodeStart(F) <= episodeStart(Latest(h))
    BY <1>1, <1>4 DEF Latest
  <1>6. episodeStart(Latest(h)) \in BadRows(h) /\ Latest(h) = Episode(h, episodeStart(Latest(h)))
    BY <1>5, StartOf
  <1>7. episodeStart(Latest(h)) = episodeStart(L)
    BY <1>1, <1>2, <1>4, <1>5, <1>6, BadRowsPositions
  <1> QED
    BY <1>2, <1>6, <1>7 DEF L

\* current_episode_fails counts the failures since the last row that is none.
THEOREM LatestIsStreak ==
    ASSUME NEW h \in Seq(Statuses)
    PROVE  FailsCountStreak(h)
  <1> SUFFICES ASSUME NEW i \in BadRows(h), \A k \in BadRows(h) : k <= i
               PROVE  Episode(h, i) = {j \in BadRows(h) : \A k \in j .. i : isBad(h, k)}
    BY LatestHasLast DEF FailsCountStreak, CurrentEpisodeFails
  <1>1. \A j \in BadRows(h) :
            islandId(h, j) = islandId(h, i) <=> \A k \in j .. i : isBad(h, k)
    BY SameIsland
  <1> QED
    BY <1>1 DEF Episode

\* is_currently_failing is set exactly when some failure has no later success.
THEOREM CurrentlyFailingExact ==
    ASSUME NEW h \in Seq(Statuses)
    PROVE  FailingUntilSuccess(h)
  <1>1. CASE BadRows(h) = {}
    BY <1>1 DEF FailingUntilSuccess, IsCurrentlyFailing
  <1>2. CASE BadRows(h) # {}
    <2>1. PICK l \in BadRows(h) : \A k \in BadRows(h) : k <= l
      BY <1>2, BadRowsPositions, Extremes
    <2>2. Latest(h) = Episode(h, l)
      BY <2>1, LatestHasLast
    <2>3. l \in Episode(h, l) /\ \A k \in Episode(h, l) : k <= l /\ k \in Nat
      BY <2>1, BadRowsPositions DEF Episode
    <2>4. episodeEnd(Episode(h, l)) = l
      <3>1. /\ episodeEnd(Episode(h, l)) \in Episode(h, l)
            /\ \A k \in Episode(h, l) : k <= episodeEnd(Episode(h, l))
        BY <2>3 DEF episodeEnd
      <3> QED
        BY <3>1, <2>3
    <2>5. IsCurrentlyFailing(h) <=> \A k \in DOMAIN h : k > l => h[k] # "success"
      BY <1>2, <2>2, <2>4 DEF IsCurrentlyFailing, Recoveries
    <2>6. ASSUME NEW i \in BadRows(h), \A k \in DOMAIN h : k > i => h[k] # "success"
          PROVE  \A k \in DOMAIN h : k > l => h[k] # "success"
      BY <2>1, <2>6, BadRowsPositions
    <2> QED
      BY <2>1, <2>5, <2>6 DEF FailingUntilSuccess
  <1> QED
    BY <1>1, <1>2

-----------------------------------------------------------------------------
LEMMA DisjointSum ==
    ASSUME NEW S, NEW T, IsFiniteSet(S), IsFiniteSet(T), S \cap T = {}
    PROVE  /\ IsFiniteSet(S \cup T)
           /\ Cardinality(S) \in Nat /\ Cardinality(T) \in Nat
           /\ Cardinality(S \cup T) = Cardinality(S) + Cardinality(T)
  BY FS_Union, FS_EmptySet, FS_CardinalityType

\* GetWindowStats' columns add up to total for every window of the table.
THEOREM WindowColumnsAddUp ==
    ASSUME NEW R, IsFiniteSet(R), \A x \in R : x.status \in Statuses
    PROVE  WindowAddsUp(R)
  <1> DEFINE Of(s) == {x \in R : x.status = s}
             A == Of("success") \cup Of("failed")
             B == A \cup Of("partial")
             C == B \cup Of("unknown")
             D == C \cup Of("missed")
  <1>1. \A s : IsFiniteSet(Of(s))
    <2> SUFFICES ASSUME NEW s PROVE IsFiniteSet(Of(s))
      OBVIOUS
    <2> QED
      BY FS_Subset, Of(s) \in SUBSET R
  <1>2. /\ Of("success") \cap Of("failed") = {}
        /\ A \cap Of("partial") = {} /\ B \cap Of("unknown") = {}
        /\ C \cap Of("missed") = {}
    OBVIOUS
  <1>3. {x \in R : x.status # "running"} = D
    BY DEF Statuses
  <1> HIDE DEF Of
  <1>4. /\ IsFiniteSet(A) /\ Cardinality(A) = Cardinality(Of("success")) + Cardinality(Of("failed"))
    BY <1>1, <1>2, DisjointSum
  <1>5. /\ IsFiniteSet(B) /\ Cardinality(B) = Cardinality(A) + Cardinality(Of("partial"))
    BY <1>1, <1>2, <1>4, DisjointSum
  <1>6. /\ IsFiniteSet(C) /\ Cardinality(C) = Cardinality(B) + Cardinality(Of("unknown"))
    BY <1>1, <1>2, <1>5, DisjointSum
  <1>7. Cardinality(D) = Cardinality(C) + Cardinality(Of("missed"))
    BY <1>1, <1>2, <1>6, DisjointSum
  <1>8. \A s : Having(R, s) = Cardinality(Of(s))
    BY DEF Having, Of
  <1>9. Total(R) = Cardinality(D)
    BY <1>3 DEF Total
  <1> HIDE DEF A, B, C, D
  <1> QED
    BY <1>4, <1>5, <1>6, <1>7, <1>8, <1>9 DEF WindowAddsUp
=============================================================================
