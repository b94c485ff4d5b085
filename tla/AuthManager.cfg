\* Two logins at a time from two addresses; two failures lock an address.
SPECIFICATION FairSpec
CONSTANTS
    Threads = {t1, t2}
    Addresses = {a1, a2}
    Tokens = {s1}
    MaxAttempts = 2
    Lockout = 2
    TTL = 1
    MaxLag = 1
    None = none
INVARIANTS TypeOK OvershootBounded
PROPERTIES LockHolds AttemptsEvicted SessionsEvicted
