\* Three runs of init on a machine with and one without a machine id, one token
\* besides the static one, two failures of any kind.
SPECIFICATION Spec
CONSTANTS
    Machines = {m1, m2}
    Stable = {m1}
    Attempts = {a1, a2, a3}
    DbTokens = {t1}
    Static = static
    Unknown = unknown
    None = none
    Torn = torn
    FaultKinds = {"database", "timeout", "file", "crash"}
    MaxFaults = 2
SYMMETRY AttemptSymmetry
INVARIANTS TypeOK AdmissionSound InstalledAccepted TokenNotBurned
CHECK_DEADLOCK FALSE
