\* Two hosts and one job, a threshold of one tick, one failure of any kind.
SPECIFICATION FairSpec
CONSTANTS
    Hosts = {h1, h2}
    Jobs = {j1}
    Threshold = 1
    MaxFails = 3
    FaultKinds = {"state", "database", "crash"}
    MaxFaults = 1
    None = none
INVARIANTS TypeOK OneActiveAlert StaleIsOld AlertsExact
PROPERTIES AlertRaised AlertCleared
