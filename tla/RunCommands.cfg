\* Two requests of the dashboard, overlapping polls that claim one command at
\* a time, and one failure of any kind.
SPECIFICATION FairSpec
CONSTANTS
    h1 = h1 j1 = j1 j2 = j2 t1 = t1 t2 = t2
    Cmds = {c1, c2}
    Hosts = {h1}
    Jobs = {j1, j2}
    JobHost <- MCJobHost
    Triggers = {t1, t2}
    Request <- MCRequest
    Polls = {p1, p2}
    Limit = 1
    FaultKinds = {"database", "timeout", "crash", "store"}
    MaxFaults = 1
    None = none
INVARIANTS TypeOK ExecutedAtMostOnce FinalStatusTruthful RequestOrder NeverStranded
PROPERTIES Lifecycle EventuallySettled
CHECK_DEADLOCK FALSE
