\* The server rejects a row and answers 200.
SPECIFICATION Spec
CONSTANTS
    Ids = {1, 2}
    Jobs = {j1}
    Inferred = {"running", "partial"}
    MainLoop = main
    Workers = {w1}
    Slots = {s1}
    FaultKinds = {"insert"}
    MaxFaults = 1
    None = none
INVARIANT NothingLost
CHECK_DEADLOCK FALSE
