\* A failure, then a success, delivered one after the other.
SPECIFICATION Spec
CONSTANTS
    Ids = {1, 2}
    Jobs = {j1}
    Inferred = {}
    MainLoop = main
    Workers = {w1}
    Slots = {s1}
    FaultKinds = {}
    MaxFaults = 0
    None = none
INVARIANT ConsecutiveFailures
CHECK_DEADLOCK FALSE
