----------------------------- MODULE AuthManager -----------------------------
(***************************************************************************)
(* Dashboard logins, the lockout of an address, and sessions.              *)
(*                                                                         *)
(* Login runs in one goroutine per request and takes attemptsMu twice:     *)
(* once to look whether the address is locked out and once to record or    *)
(* clear failures, so other requests, the clean-up loop and the passing of *)
(* time come in between.  The clean-up loop reads the clock once, then     *)
(* makes a pass over the sessions and a pass over the attempts.            *)
(*                                                                         *)
(* Times are kept as ages that stop growing when nothing can tell them     *)
(* apart any more.  The zero time has the greatest age.                    *)
(***************************************************************************)
EXTENDS Integers, FiniteSets

CONSTANTS Threads,     \* goroutines that can be in Login at the same time
          Addresses,   \* client addresses
          Tokens,      \* session tokens newSessionToken can still return
          MaxAttempts, \* loginMaxAttempts
          Lockout,     \* loginLockout, in ticks of the clock
          TTL,         \* sessionTTL, in ticks
          MaxLag,      \* bound on the ticks a clean-up pass lasts
          None

ASSUME AuthAssumption ==
    /\ IsFiniteSet(Threads)
    /\ MaxAttempts \in Nat \ {0}
    /\ Lockout \in Nat \ {0}
    /\ TTL \in Nat
    /\ MaxLag \in Nat
    /\ None \notin Addresses

VARIABLES failures,  \* attempts[ip].failures, 0 when there is no entry
          lockAge,   \* time since attempts[ip].lockedAt
          sessions,  \* whether a token is "unused", "live" or "gone"
          age,       \* time since sessions[token].createdAt
          pc,        \* where each Login is
          addr,      \* the address it is for
          cleanup,   \* where the clean-up loop is
          lag        \* time since it read the clock

attempts == <<failures, lockAge>>
logins   == <<pc, addr>>
loop     == <<cleanup, lag>>
vars     == <<attempts, sessions, age, logins, loop>>

MaxLockAge == Lockout + MaxLag + 1
MaxAge     == TTL + MaxLag + 1

Init ==
    /\ failures = [a \in Addresses |-> 0]
    /\ lockAge = [a \in Addresses |-> MaxLockAge]
    /\ sessions = [s \in Tokens |-> "unused"]
    /\ age = [s \in Tokens |-> 0]
    /\ pc = [t \in Threads |-> "idle"]
    /\ addr = [t \in Threads |-> None]
    /\ cleanup = "idle"
    /\ lag = 0

-----------------------------------------------------------------------------
(* Login *)

Locked(a) == failures[a] >= MaxAttempts /\ lockAge[a] < Lockout

\* Mutant: one failure is taken back.
ForgetOne(D) ==
    /\ failures' = [a \in Addresses |->
                       IF a \in D THEN failures[a] - 1 ELSE failures[a]]
    /\ lockAge' = [a \in Addresses |->
                      IF a \in D THEN MaxLockAge ELSE lockAge[a]]

\* delete(a.attempts, ip) for every address of D
Forget(D) ==
    /\ failures' = [a \in Addresses |-> IF a \in D THEN 0 ELSE failures[a]]
    /\ lockAge' = [a \in Addresses |->
                      IF a \in D THEN MaxLockAge ELSE lockAge[a]]

\* A login from a locked address returns before it counts anything.
LoginRefused(t, a) ==
    /\ pc[t] = "idle"
    /\ Locked(a)
    /\ UNCHANGED vars

\* Mutant: nothing is looked up before the password is compared.
LoginCheckedAlways(t, a) ==
    /\ pc[t] = "idle"
    /\ pc' = [pc EXCEPT ![t] = "checked"]
    /\ addr' = [addr EXCEPT ![t] = a]
    /\ UNCHANGED <<attempts, sessions, age, loop>>

\* Any other login goes on; it resets a lockout that is over.
LoginChecked(t, a) ==
    /\ pc[t] = "idle"
    /\ ~Locked(a)
    /\ Forget({b \in {a} : failures[b] >= MaxAttempts})
    /\ pc' = [pc EXCEPT ![t] = "checked"]
    /\ addr' = [addr EXCEPT ![t] = a]
    /\ UNCHANGED <<sessions, age, loop>>

AddFailure(a) ==
    /\ failures' = [failures EXCEPT ![a] = @ + 1]
    /\ lockAge' = [lockAge EXCEPT ![a] =
                      IF failures[a] + 1 >= MaxAttempts THEN 0 ELSE @]

Finish(t) == /\ pc' = [pc EXCEPT ![t] = "idle"]
             /\ addr' = [addr EXCEPT ![t] = None]

\* A user name or password that is not the configured one.
recordFailure(t) ==
    /\ pc[t] = "checked"
    /\ AddFailure(addr[t])
    /\ Finish(t)
    /\ UNCHANGED <<sessions, age, loop>>

\* The right ones.
clearFailures(t) ==
    /\ pc[t] = "checked"
    /\ Forget({addr[t]})
    /\ pc' = [pc EXCEPT ![t] = "cleared"]
    /\ UNCHANGED <<addr, sessions, age, loop>>

\* The session is stored, unless no token could be made.
IssueSession(t) ==
    /\ pc[t] = "cleared"
    /\ \/ \E s \in Tokens :
            /\ sessions[s] = "unused"
            /\ sessions' = [sessions EXCEPT ![s] = "live"]
            /\ age' = [age EXCEPT ![s] = 0]
       \/ UNCHANGED <<sessions, age>>
    /\ Finish(t)
    /\ UNCHANGED <<attempts, loop>>

-----------------------------------------------------------------------------
(* Requests with a session, the clean-up loop and the clock *)

Drop(D) == sessions' = [s \in Tokens |->
                           IF s \in D /\ sessions[s] = "live" THEN "gone"
                           ELSE sessions[s]]

\* Deletes the one token, if it is there.
Logout(s) ==
    /\ sessions[s] = "live"
    /\ Drop({s})
    /\ UNCHANGED <<attempts, age, logins, loop>>

\* A request that comes too late takes its session away.  Between reading the
\* entry and deleting it others can only delete it as well.
isSessionToken(s) ==
    /\ sessions[s] = "live"
    /\ age[s] > TTL
    /\ Drop({s})
    /\ UNCHANGED <<attempts, age, logins, loop>>

CleanupTick ==
    /\ cleanup = "idle"
    /\ cleanup' = "sessions"
    /\ lag' = 0
    /\ UNCHANGED <<attempts, sessions, age, logins>>

\* Mutant: the two times are subtracted the wrong way round.
CleanupSessionsSwapped ==
    /\ cleanup = "sessions"
    /\ Drop({s \in Tokens : lag - age[s] > TTL})
    /\ cleanup' = "attempts"
    /\ UNCHANGED <<attempts, age, logins, lag>>

CleanupSessions ==
    /\ cleanup = "sessions"
    /\ Drop({s \in Tokens : age[s] - lag > TTL})
    /\ cleanup' = "attempts"
    /\ UNCHANGED <<attempts, age, logins, lag>>

\* Mutant: a counter below the limit never had a lockedAt and is kept.
StaleLockedOnly ==
    {a \in Addresses : failures[a] >= MaxAttempts /\ lockAge[a] - lag >= Lockout}

\* Mutant: every counter at the limit is stale.
StaleAtLimit ==
    {a \in Addresses : failures[a] >= MaxAttempts \/ lockAge[a] - lag > Lockout}

\* The zero lockedAt of a counter below the limit is always long ago.
Stale == {a \in Addresses :
             \/ failures[a] >= MaxAttempts /\ lockAge[a] - lag >= Lockout
             \/ failures[a] < MaxAttempts /\ lockAge[a] - lag > Lockout}

CleanupAttempts ==
    /\ cleanup = "attempts"
    /\ Forget(Stale)
    /\ cleanup' = "idle"
    /\ lag' = 0
    /\ UNCHANGED <<sessions, age, logins>>

Older(n, limit) == IF n < limit THEN n + 1 ELSE n

Tick ==
    /\ cleanup = "idle" \/ lag < MaxLag
    /\ lockAge' = [a \in Addresses |-> Older(lockAge[a], MaxLockAge)]
    /\ age' = [s \in Tokens |->
                  IF sessions[s] = "live" THEN Older(age[s], MaxAge) ELSE age[s]]
    /\ lag' = IF cleanup = "idle" THEN 0 ELSE lag + 1
    /\ UNCHANGED <<failures, sessions, logins, cleanup>>

-----------------------------------------------------------------------------
Next ==
    \/ \E t \in Threads, a \in Addresses :
          LoginRefused(t, a) \/ LoginChecked(t, a)
    \/ \E t \in Threads :
          recordFailure(t) \/ clearFailures(t) \/ IssueSession(t)
    \/ \E s \in Tokens : Logout(s) \/ isSessionToken(s)
    \/ CleanupTick
    \/ CleanupSessions
    \/ CleanupAttempts
    \/ Tick

Spec == Init /\ [][Next]_vars

\* A request that started is finished, the ticker of the clean-up loop fires,
\* and time passes.  Nobody has to log in, log out or use a session.
Fairness ==
    /\ \A t \in Threads :
          /\ WF_vars(recordFailure(t) \/ clearFailures(t))
          /\ WF_vars(IssueSession(t))
    /\ WF_vars(CleanupTick)
    /\ WF_vars(CleanupSessions)
    /\ WF_vars(CleanupAttempts)
    /\ WF_vars(Tick)

FairSpec == Spec /\ Fairness

-----------------------------------------------------------------------------
\* The type of the manager's maps and of the goroutines around them.
TypeOK ==
    /\ failures \in [Addresses -> Nat]
    /\ lockAge \in [Addresses -> 0 .. MaxLockAge]
    /\ sessions \in [Tokens -> {"unused", "live", "gone"}]
    /\ age \in [Tokens -> 0 .. MaxAge]
    /\ pc \in [Threads -> {"idle", "checked", "cleared"}]
    /\ addr \in [Threads -> Addresses \cup {None}]
    /\ cleanup \in {"idle", "sessions", "attempts"}
    /\ lag \in 0 .. MaxLag

Pending(a) == {t \in Threads : pc[t] = "checked" /\ addr[t] = a}

\* isLockedOut and recordFailure take the mutex separately, so more than
\* loginMaxAttempts passwords can be tried: but never more than one for each
\* login that was under way when the limit was reached.
OvershootBounded ==
    \A a \in Addresses :
        failures[a] + Cardinality(Pending(a))
            <= MaxAttempts - 1 + Cardinality(Threads)

\* A lockout that is running ends by lasting its time, or because a login that
\* passed the check before it began turns out to have the right password: the
\* clean-up loop and other addresses never cut it short.
LockHolds ==
    [][\A a \in Addresses :
          Locked(a) /\ ~Locked(a)' =>
              \/ lockAge'[a] = Lockout
              \/ \E t \in Pending(a) : pc'[t] = "cleared"]_vars

\* Every entry of the attempts map goes away in the end: a lockout ends even
\* when logins keep coming, and the clean-up loop leaves nothing behind.
AttemptsEvicted ==
    \A a \in Addresses : failures[a] > 0 ~> failures[a] = 0

\* A session that is over disappears even if its token is never used again.
SessionsEvicted ==
    \A s \in Tokens : sessions[s] = "live" /\ age[s] > TTL ~> sessions[s] = "gone"
=============================================================================
