-------------------------- MODULE AuthManagerProofs --------------------------
(***************************************************************************)
(* The invariants and the action property of AuthManager, for any number   *)
(* of addresses, tokens and concurrent logins, and for any limits.         *)
(***************************************************************************)
EXTENDS AuthManager, FiniteSetTheorems, TLAPS

\* A login that is past its check is for some address.
AddrSet == \A t \in Threads : pc[t] = "checked" => addr[t] \in Addresses

\* An entry has a lockedAt exactly when its counter is at the limit: lockedAt
\* is set by the failure that reaches it, and the counter never goes down.
LockedAtSet ==
    \A a \in Addresses :
        failures[a] < MaxAttempts => lockAge[a] = MaxLockAge

Inv == TypeOK /\ AddrSet /\ OvershootBounded /\ LockedAtSet

USE AuthAssumption

\* The logins under way for an address are finitely many, and no more than
\* there are logins.
LEMMA PendingFinite ==
    ASSUME NEW a
    PROVE  /\ IsFiniteSet(Pending(a))
           /\ Cardinality(Pending(a)) \in Nat
           /\ Cardinality(Threads) \in Nat
           /\ Cardinality(Pending(a)) <= Cardinality(Threads)
  <1>1. Pending(a) \subseteq Threads
    BY DEF Pending
  <1> QED
    BY <1>1, FS_Subset, FS_CardinalityType

\* The same in the next state.
LEMMA PendingFinite2 ==
    ASSUME NEW a
    PROVE  /\ IsFiniteSet(Pending(a)')
           /\ Cardinality(Pending(a)') \in Nat
           /\ Cardinality(Pending(a)') <= Cardinality(Threads)
  <1>1. Pending(a)' \subseteq Threads
    BY DEF Pending
  <1> QED
    BY <1>1, FS_Subset, FS_CardinalityType

\* The bound survives a step that adds neither failures nor pending logins.
LEMMA BoundKept ==
    ASSUME TypeOK, OvershootBounded,
           NEW a \in Addresses,
           failures'[a] \in Nat,
           failures'[a] <= failures[a],
           Pending(a)' \subseteq Pending(a)
    PROVE  failures'[a] + Cardinality(Pending(a)')
               <= MaxAttempts - 1 + Cardinality(Threads)
  <1>1. Cardinality(Pending(a)') <= Cardinality(Pending(a))
    BY PendingFinite, FS_Subset
  <1>2. failures[a] \in Nat
    BY DEF TypeOK
  <1>3. failures[a] + Cardinality(Pending(a))
            <= MaxAttempts - 1 + Cardinality(Threads)
    BY DEF OvershootBounded
  <1>4. /\ Cardinality(Pending(a)) \in Nat
        /\ Cardinality(Pending(a)') \in Nat
        /\ Cardinality(Threads) \in Nat
    BY PendingFinite, PendingFinite2
  <1> QED
    BY <1>1, <1>2, <1>3, <1>4

\* Deleting entries keeps the type of the attempts and what a zero lockedAt
\* means, and adds no failure.
LEMMA ForgetType ==
    ASSUME TypeOK, LockedAtSet, NEW D, Forget(D)
    PROVE  /\ failures' \in [Addresses -> Nat]
           /\ lockAge' \in [Addresses -> 0 .. MaxLockAge]
           /\ LockedAtSet'
           /\ \A a \in Addresses : failures'[a] <= failures[a]
  <1>1. MaxLockAge \in Nat
    BY DEF MaxLockAge
  <1>2. failures' \in [Addresses -> Nat]
    BY DEF TypeOK, Forget
  <1>3. lockAge' \in [Addresses -> 0 .. MaxLockAge]
    BY <1>1 DEF TypeOK, Forget
  <1>4. LockedAtSet'
    BY DEF LockedAtSet, Forget, MaxLockAge
  <1>5. \A a \in Addresses : failures'[a] <= failures[a]
    BY DEF TypeOK, Forget
  <1> QED
    BY <1>2, <1>3, <1>4, <1>5

\* Without logins that change their place, the pending ones stay.
LEMMA PendingSame ==
    ASSUME UNCHANGED logins, NEW a
    PROVE  Pending(a)' = Pending(a)
  BY DEF logins, Pending

-----------------------------------------------------------------------------
LEMMA InitInv == Init => Inv
  <1> SUFFICES ASSUME Init PROVE Inv
    OBVIOUS
  <1>1. TypeOK
    BY DEF Init, TypeOK, MaxLockAge, MaxAge
  <1>2. AddrSet
    BY DEF Init, AddrSet
  <1>3. OvershootBounded
    <2> SUFFICES ASSUME NEW a \in Addresses
                 PROVE  failures[a] + Cardinality(Pending(a))
                            <= MaxAttempts - 1 + Cardinality(Threads)
      BY DEF OvershootBounded
    <2>1. Pending(a) = {} /\ failures[a] = 0
      BY DEF Init, Pending
    <2>2. Cardinality(Pending(a)) = 0
      BY <2>1, FS_EmptySet
    <2> QED
      BY <2>1, <2>2, PendingFinite
  <1>4. LockedAtSet
    BY DEF Init, LockedAtSet
  <1> QED
    BY <1>1, <1>2, <1>3, <1>4 DEF Inv

LEMMA LoginCheckedInv ==
    ASSUME Inv, NEW t \in Threads, NEW a \in Addresses, LoginChecked(t, a)
    PROVE  Inv'
  <1> DEFINE D == {b \in {a} : failures[b] >= MaxAttempts}
  <1>1. TypeOK /\ LockedAtSet /\ AddrSet /\ OvershootBounded /\ Forget(D)
    BY DEF Inv, LoginChecked
  <1>2. /\ failures' \in [Addresses -> Nat]
        /\ lockAge' \in [Addresses -> 0 .. MaxLockAge]
        /\ LockedAtSet'
        /\ \A b \in Addresses : failures'[b] <= failures[b]
    <2> HIDE DEF D
    <2> QED
      BY <1>1, ForgetType
  <1>3. TypeOK'
    <2>1. pc' \in [Threads -> {"idle", "checked", "cleared"}]
      BY <1>1 DEF LoginChecked, TypeOK
    <2>2. addr' \in [Threads -> Addresses \cup {None}]
      BY <1>1 DEF LoginChecked, TypeOK
    <2>3. UNCHANGED <<sessions, age, cleanup, lag>>
      BY DEF LoginChecked, loop
    <2> QED
      BY <1>1, <1>2, <2>1, <2>2, <2>3 DEF TypeOK, MaxAge, MaxLockAge
  <1>4. AddrSet'
    BY <1>1 DEF LoginChecked, AddrSet, TypeOK
  <1>5. OvershootBounded'
    <2> SUFFICES ASSUME NEW b \in Addresses
                 PROVE  failures'[b] + Cardinality(Pending(b)')
                            <= MaxAttempts - 1 + Cardinality(Threads)
      BY DEF OvershootBounded
    <2>1. CASE b = a
      <3>1. failures'[b] <= MaxAttempts - 1 /\ failures'[b] \in Nat
        BY <1>1, <2>1 DEF Forget, TypeOK
      <3> QED
        BY <3>1, PendingFinite, PendingFinite2
    <2>2. CASE b # a
      <3>1. Pending(b)' \subseteq Pending(b)
        BY <1>1, <2>2 DEF Pending, LoginChecked, TypeOK
      <3> QED
        BY <1>1, <1>2, <3>1, BoundKept
    <2> QED
      BY <2>1, <2>2
  <1> QED
    BY <1>2, <1>3, <1>4, <1>5 DEF Inv

LEMMA RecordFailureInv ==
    ASSUME Inv, NEW t \in Threads, recordFailure(t)
    PROVE  Inv'
  <1> DEFINE a == addr[t]
  <1>1. /\ TypeOK /\ LockedAtSet /\ AddrSet /\ OvershootBounded
        /\ a \in Addresses
        /\ pc[t] = "checked"
    BY DEF Inv, recordFailure, AddrSet
  <1>2. /\ failures' = [b \in Addresses |->
                           IF b = a THEN failures[a] + 1 ELSE failures[b]]
        /\ lockAge' = [b \in Addresses |->
                          IF b = a /\ failures[a] + 1 >= MaxAttempts THEN 0
                          ELSE lockAge[b]]
    BY <1>1 DEF recordFailure, AddFailure, TypeOK
  <1> HIDE DEF a
  <1>3. TypeOK'
    <2>1. failures' \in [Addresses -> Nat]
      BY <1>1, <1>2 DEF TypeOK
    <2>2. lockAge' \in [Addresses -> 0 .. MaxLockAge]
      BY <1>1, <1>2 DEF TypeOK, MaxLockAge
    <2>3. pc' \in [Threads -> {"idle", "checked", "cleared"}]
      BY <1>1 DEF recordFailure, Finish, TypeOK
    <2>4. addr' \in [Threads -> Addresses \cup {None}]
      BY <1>1 DEF recordFailure, Finish, TypeOK
    <2>5. UNCHANGED <<sessions, age, cleanup, lag>>
      BY DEF recordFailure, loop
    <2> QED
      BY <1>1, <2>1, <2>2, <2>3, <2>4, <2>5 DEF TypeOK, MaxAge, MaxLockAge
  <1>4. AddrSet'
    BY <1>1 DEF recordFailure, Finish, AddrSet, TypeOK
  <1>5. LockedAtSet'
    BY <1>1, <1>2 DEF LockedAtSet, TypeOK, MaxLockAge
  <1>6. OvershootBounded'
    <2> SUFFICES ASSUME NEW b \in Addresses
                 PROVE  failures'[b] + Cardinality(Pending(b)')
                            <= MaxAttempts - 1 + Cardinality(Threads)
      BY DEF OvershootBounded
    <2>1. CASE b = a
      <3>1. t \in Pending(b)
        BY <1>1, <2>1 DEF Pending, a
      <3>2. Pending(b)' = Pending(b) \ {t}
        BY <1>1, <2>1 DEF Pending, a, recordFailure, Finish, TypeOK
      <3>3. Cardinality(Pending(b)') = Cardinality(Pending(b)) - 1
        BY <3>1, <3>2, PendingFinite, FS_RemoveElement
      <3>4. failures[b] \in Nat /\ failures'[b] = failures[b] + 1
        BY <1>1, <1>2, <2>1 DEF TypeOK
      <3>5. failures[b] + Cardinality(Pending(b))
                <= MaxAttempts - 1 + Cardinality(Threads)
        BY <1>1 DEF OvershootBounded
      <3> QED
        BY <3>3, <3>4, <3>5, PendingFinite
    <2>2. CASE b # a
      <3>1. Pending(b)' \subseteq Pending(b)
        BY <1>1, <2>2 DEF Pending, a, recordFailure, Finish, TypeOK
      <3>2. failures'[b] = failures[b] /\ failures[b] \in Nat
        BY <1>1, <1>2, <2>2 DEF TypeOK
      <3>3. failures'[b] \in Nat /\ failures'[b] <= failures[b]
        BY <3>2
      <3> QED
        BY <1>1, <3>1, <3>3, BoundKept
    <2> QED
      BY <2>1, <2>2
  <1> QED
    BY <1>3, <1>4, <1>5, <1>6 DEF Inv

\* Every other step deletes entries or leaves the attempts alone.
LEMMA OtherInv ==
    ASSUME Inv, TypeOK', AddrSet',
           \A a \in Addresses : failures'[a] <= failures[a],
           \A a \in Addresses : Pending(a)' \subseteq Pending(a),
           LockedAtSet'
    PROVE  Inv'
  <1>1. OvershootBounded'
    <2> SUFFICES ASSUME NEW b \in Addresses
                 PROVE  failures'[b] + Cardinality(Pending(b)')
                            <= MaxAttempts - 1 + Cardinality(Threads)
      BY DEF OvershootBounded
    <2>1. failures'[b] \in Nat
      BY DEF TypeOK
    <2> QED
      BY <2>1, BoundKept DEF Inv
  <1> QED
    BY <1>1 DEF Inv

LEMMA ClearFailuresInv ==
    ASSUME Inv, NEW t \in Threads, clearFailures(t)
    PROVE  Inv'
  <1>1. TypeOK /\ LockedAtSet /\ AddrSet /\ Forget({addr[t]})
    BY DEF Inv, clearFailures
  <1>2. /\ failures' \in [Addresses -> Nat]
        /\ lockAge' \in [Addresses -> 0 .. MaxLockAge]
        /\ LockedAtSet'
        /\ \A b \in Addresses : failures'[b] <= failures[b]
    BY <1>1, ForgetType
  <1>3. TypeOK'
    <2>1. pc' \in [Threads -> {"idle", "checked", "cleared"}]
      BY <1>1 DEF clearFailures, TypeOK
    <2>2. UNCHANGED <<addr, sessions, age, cleanup, lag>>
      BY DEF clearFailures, loop
    <2> QED
      BY <1>1, <1>2, <2>1, <2>2 DEF TypeOK, MaxAge, MaxLockAge
  <1>4. AddrSet'
    BY <1>1 DEF clearFailures, AddrSet, TypeOK
  <1>5. \A b \in Addresses : Pending(b)' \subseteq Pending(b)
    BY <1>1 DEF Pending, clearFailures, TypeOK
  <1> QED
    BY <1>2, <1>3, <1>4, <1>5, OtherInv

\* The attempts, and the logins under way, are not touched by a step that
\* keeps the failures, the lock times and the places of the logins.
LEMMA AttemptsKept ==
    ASSUME Inv, UNCHANGED attempts, TypeOK', AddrSet',
           \A a \in Addresses : Pending(a)' \subseteq Pending(a)
    PROVE  Inv'
  <1>1. \A a \in Addresses : failures'[a] <= failures[a]
    BY DEF Inv, TypeOK, attempts
  <1>2. LockedAtSet'
    BY DEF Inv, LockedAtSet, attempts, MaxLockAge
  <1> QED
    BY <1>1, <1>2, OtherInv

LEMMA IssueSessionInv ==
    ASSUME Inv, NEW t \in Threads, IssueSession(t)
    PROVE  Inv'
  <1>1. TypeOK /\ AddrSet /\ UNCHANGED attempts
    BY DEF Inv, IssueSession
  <1>2. TypeOK'
    <2>1. pc' \in [Threads -> {"idle", "checked", "cleared"}]
      BY <1>1 DEF IssueSession, Finish, TypeOK
    <2>2. addr' \in [Threads -> Addresses \cup {None}]
      BY <1>1 DEF IssueSession, Finish, TypeOK
    <2>3. sessions' \in [Tokens -> {"unused", "live", "gone"}]
      BY <1>1 DEF IssueSession, TypeOK
    <2>4. age' \in [Tokens -> 0 .. MaxAge]
      BY <1>1 DEF IssueSession, TypeOK, MaxAge
    <2>5. UNCHANGED <<failures, lockAge, cleanup, lag>>
      BY DEF IssueSession, loop, attempts
    <2> QED
      BY <1>1, <2>1, <2>2, <2>3, <2>4, <2>5 DEF TypeOK, MaxAge, MaxLockAge
  <1>3. AddrSet'
    BY <1>1 DEF IssueSession, Finish, AddrSet, TypeOK
  <1>4. \A b \in Addresses : Pending(b)' \subseteq Pending(b)
    BY <1>1 DEF Pending, IssueSession, Finish, TypeOK
  <1> QED
    BY <1>1, <1>2, <1>3, <1>4, AttemptsKept

\* Sessions are dropped by a request, by Logout and by the clean-up loop.
LEMMA DropInv ==
    ASSUME Inv, NEW D, Drop(D), UNCHANGED <<attempts, age, logins, lag>>,
           cleanup' \in {"idle", "sessions", "attempts"}
    PROVE  Inv'
  <1>1. TypeOK /\ AddrSet
    BY DEF Inv
  <1>2. TypeOK'
    <2>1. sessions' \in [Tokens -> {"unused", "live", "gone"}]
      BY <1>1 DEF Drop, TypeOK
    <2>2. UNCHANGED <<failures, lockAge, age, pc, addr, lag>>
      BY DEF attempts, logins
    <2> QED
      BY <1>1, <2>1, <2>2 DEF TypeOK, MaxAge, MaxLockAge
  <1>3. AddrSet'
    BY <1>1 DEF AddrSet, logins
  <1> QED
    BY <1>2, <1>3, AttemptsKept, PendingSame

LEMMA CleanupTickInv ==
    ASSUME Inv, CleanupTick
    PROVE  Inv'
  <1>1. TypeOK /\ AddrSet /\ UNCHANGED attempts /\ UNCHANGED logins
    BY DEF Inv, CleanupTick
  <1>2. TypeOK'
    BY <1>1 DEF TypeOK, CleanupTick, attempts, logins, MaxAge, MaxLockAge
  <1>3. AddrSet'
    BY <1>1 DEF AddrSet, logins
  <1> QED
    BY <1>1, <1>2, <1>3, AttemptsKept, PendingSame

LEMMA CleanupAttemptsInv ==
    ASSUME Inv, CleanupAttempts
    PROVE  Inv'
  <1>1. /\ TypeOK /\ LockedAtSet /\ AddrSet /\ Forget(Stale)
        /\ UNCHANGED logins
    BY DEF Inv, CleanupAttempts
  <1>2. /\ failures' \in [Addresses -> Nat]
        /\ lockAge' \in [Addresses -> 0 .. MaxLockAge]
        /\ LockedAtSet'
        /\ \A b \in Addresses : failures'[b] <= failures[b]
    BY <1>1, ForgetType
  <1>3. TypeOK'
    <2>1. UNCHANGED <<sessions, age, pc, addr>> /\ cleanup' = "idle" /\ lag' = 0
      BY DEF CleanupAttempts, logins
    <2> QED
      BY <1>1, <1>2, <2>1 DEF TypeOK, MaxAge, MaxLockAge
  <1>4. AddrSet'
    BY <1>1 DEF AddrSet, logins
  <1> QED
    BY <1>1, <1>2, <1>3, <1>4, OtherInv, PendingSame

LEMMA TickInv ==
    ASSUME Inv, Tick
    PROVE  Inv'
  <1>1. /\ TypeOK /\ LockedAtSet /\ AddrSet
        /\ UNCHANGED logins /\ UNCHANGED failures
    BY DEF Inv, Tick
  <1>2. TypeOK'
    <2>1. lockAge' \in [Addresses -> 0 .. MaxLockAge]
      BY <1>1 DEF Tick, TypeOK, Older, MaxLockAge
    <2>2. age' \in [Tokens -> 0 .. MaxAge]
      BY <1>1 DEF Tick, TypeOK, Older, MaxAge
    <2>3. lag' \in 0 .. MaxLag
      BY <1>1 DEF Tick, TypeOK
    <2>4. UNCHANGED <<failures, sessions, pc, addr, cleanup>>
      BY DEF Tick, logins
    <2> QED
      BY <1>1, <2>1, <2>2, <2>3, <2>4 DEF TypeOK
  <1>3. AddrSet'
    BY <1>1 DEF AddrSet, logins
  <1>4. LockedAtSet'
    BY <1>1 DEF LockedAtSet, Tick, Older, MaxLockAge
  <1>5. \A b \in Addresses : failures'[b] <= failures[b]
    BY <1>1 DEF TypeOK
  <1> QED
    BY <1>1, <1>2, <1>3, <1>4, <1>5, OtherInv, PendingSame

LEMMA StutterInv == Inv /\ UNCHANGED vars => Inv'
  BY DEF Inv, TypeOK, AddrSet, OvershootBounded, LockedAtSet, Pending, vars,
         attempts, logins, loop, MaxAge, MaxLockAge

LEMMA StepInv == Inv /\ [Next]_vars => Inv'
  <1> SUFFICES ASSUME Inv, [Next]_vars PROVE Inv'
    OBVIOUS
  <1>1. ASSUME NEW t \in Threads, NEW a \in Addresses, LoginRefused(t, a)
        PROVE  Inv'
    BY <1>1, StutterInv DEF LoginRefused
  <1>2. ASSUME NEW t \in Threads, NEW a \in Addresses, LoginChecked(t, a)
        PROVE  Inv'
    BY <1>2, LoginCheckedInv
  <1>3. ASSUME NEW t \in Threads,
               recordFailure(t) \/ clearFailures(t) \/ IssueSession(t)
        PROVE  Inv'
    BY <1>3, RecordFailureInv, ClearFailuresInv, IssueSessionInv
  <1>4. ASSUME NEW s \in Tokens, Logout(s) \/ isSessionToken(s)
        PROVE  Inv'
    <2>1. Drop({s}) /\ UNCHANGED <<attempts, age, logins, lag>> /\ cleanup' = cleanup
      BY <1>4 DEF Logout, isSessionToken, loop
    <2>2. cleanup \in {"idle", "sessions", "attempts"}
      BY DEF Inv, TypeOK
    <2> QED
      BY <2>1, <2>2, DropInv
  <1>5. CASE CleanupTick
    BY <1>5, CleanupTickInv
  <1>6. CASE CleanupSessions
    <2> DEFINE D == {s \in Tokens : age[s] - lag > TTL}
    <2>1. /\ Drop(D) /\ UNCHANGED <<attempts, age, logins, lag>>
          /\ cleanup' = "attempts"
      BY <1>6 DEF CleanupSessions
    <2> HIDE DEF D
    <2> QED
      BY <2>1, DropInv
  <1>7. CASE CleanupAttempts
    BY <1>7, CleanupAttemptsInv
  <1>8. CASE Tick
    BY <1>8, TickInv
  <1>9. CASE UNCHANGED vars
    BY <1>9, StutterInv
  <1> QED
    BY <1>1, <1>2, <1>3, <1>4, <1>5, <1>6, <1>7, <1>8, <1>9 DEF Next

-----------------------------------------------------------------------------
\* The manager's maps and its goroutines keep their types.
THEOREM TypeCorrect == Spec => []TypeOK
  <1>1. Inv => TypeOK
    BY DEF Inv
  <1> QED
    BY <1>1, InitInv, StepInv, PTL DEF Spec

\* However many logins run at once between isLockedOut and recordFailure, the
\* number of wrong passwords counted for an address, and of those still to be
\* counted, is less than loginMaxAttempts plus the number of logins.
THEOREM OvershootIsBounded == Spec => []OvershootBounded
  <1>1. Inv => OvershootBounded
    BY DEF Inv
  <1> QED
    BY <1>1, InitInv, StepInv, PTL DEF Spec

\* Neither the clean-up loop, whatever it has been delayed by, nor any login
\* other than one that passed the check before and is right ends a lockout
\* before its time.
THEOREM LockIsHeld == Spec => LockHolds
  <1> DEFINE Held(a) == Locked(a) /\ ~Locked(a)' =>
                            \/ lockAge'[a] = Lockout
                            \/ \E t \in Pending(a) : pc'[t] = "cleared"
  <1>1. ASSUME TypeOK, [Next]_vars, NEW a \in Addresses
        PROVE  Held(a)
    <2> SUFFICES ASSUME Locked(a), ~Locked(a)'
                 PROVE  \/ lockAge'[a] = Lockout
                        \/ \E t \in Pending(a) : pc'[t] = "cleared"
      OBVIOUS
    <2>1. /\ failures[a] \in Nat /\ lockAge[a] \in Nat /\ lag \in Nat
          /\ failures[a] >= MaxAttempts /\ lockAge[a] < Lockout
      BY <1>1 DEF TypeOK, Locked, MaxLockAge
    <2>2. ~UNCHANGED attempts
      BY DEF Locked, attempts
    <2>3. ASSUME NEW t \in Threads, NEW b \in Addresses, LoginChecked(t, b)
          PROVE  FALSE
      BY <2>1, <2>3 DEF LoginChecked, Forget, Locked
    <2>4. ASSUME NEW t \in Threads, recordFailure(t)
          PROVE  FALSE
      <3>1. AddFailure(addr[t])
        BY <2>4 DEF recordFailure
      <3>2. failures'[a] >= MaxAttempts /\ lockAge'[a] < Lockout
        BY <1>1, <2>1, <3>1 DEF AddFailure, TypeOK
      <3> QED
        BY <3>2 DEF Locked
    <2>5. ASSUME NEW t \in Threads, clearFailures(t)
          PROVE  \E u \in Pending(a) : pc'[u] = "cleared"
      <3>1. addr[t] = a
        BY <2>1, <2>5 DEF clearFailures, Forget, Locked
      <3>2. t \in Pending(a) /\ pc'[t] = "cleared"
        BY <1>1, <2>5, <3>1 DEF clearFailures, Pending, TypeOK
      <3> QED
        BY <3>2
    <2>6. ~CleanupAttempts
      <3>1. a \notin Stale
        BY <2>1 DEF Stale
      <3> QED
        BY <2>1, <3>1 DEF CleanupAttempts, Forget, Locked
    <2>7. CASE Tick
      BY <1>1, <2>1, <2>7 DEF Tick, Older, Locked, MaxLockAge, TypeOK
    <2>8. ASSUME NEW t \in Threads, IssueSession(t)
          PROVE  FALSE
      BY <2>2, <2>8 DEF IssueSession
    <2>9. ASSUME NEW s \in Tokens, Logout(s) \/ isSessionToken(s)
          PROVE  FALSE
      BY <2>2, <2>9 DEF Logout, isSessionToken
    <2>10. ~CleanupTick /\ ~CleanupSessions
      BY <2>2 DEF CleanupTick, CleanupSessions
    <2>11. ASSUME NEW t \in Threads, NEW b \in Addresses, LoginRefused(t, b)
           PROVE  FALSE
      BY <2>2, <2>11 DEF LoginRefused, vars
    <2>12. ~UNCHANGED vars
      BY <2>2 DEF vars
    <2> QED
      BY <1>1, <2>3, <2>4, <2>5, <2>6, <2>7, <2>8, <2>9, <2>10, <2>11, <2>12
         DEF Next
  <1>2. TypeOK /\ [Next]_vars => [\A a \in Addresses : Held(a)]_vars
    BY <1>1
  <1> QED
    BY <1>2, TypeCorrect, PTL DEF Spec, LockHolds
=============================================================================
