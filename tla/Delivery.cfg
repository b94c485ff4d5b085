\* Overlapping flushes of the main loop and one command goroutine, two
\* requests at the server, one failure of any kind.
SPECIFICATION FairSpec
CONSTANTS
    Ids = {1, 2}
    Jobs = {j1}
    Inferred = {"partial"}
    MainLoop = main
    Workers = {w1}
    Slots = {s1, s2}
    FaultKinds = {"timeout", "crash", "store", "insert", "lookup", "update"}
    MaxFaults = 1
    None = none
VIEW WithoutBirthOrder
INVARIANTS TypeOK NoSilentLoss BoundedDuplication FailCountBounded
PROPERTIES Outbox EventuallyDrained
CHECK_DEADLOCK FALSE
