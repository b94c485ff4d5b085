\* Events of one batch are applied in the order of their random keys.
SPECIFICATION Spec
CONSTANTS
    Ids = {1, 2}
    Jobs = {j1}
    Inferred = {"running", "partial"}
    MainLoop = main
    Workers = {}
    Slots = {s1}
    FaultKinds = {}
    MaxFaults = 0
    None = none
INVARIANT LatestState
CHECK_DEADLOCK FALSE
