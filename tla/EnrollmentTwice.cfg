\* Two hosts enroll with the same token at the same time; nothing fails.
SPECIFICATION Spec
CONSTANTS
    Machines = {m1, m2}
    Stable = {m1, m2}
    Attempts = {a1, a2}
    DbTokens = {t1}
    Static = static
    Unknown = unknown
    None = none
    Torn = torn
    FaultKinds = {"database", "timeout", "file", "crash"}
    MaxFaults = 0
INVARIANT SingleUse
CHECK_DEADLOCK FALSE
