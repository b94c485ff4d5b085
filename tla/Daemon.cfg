\* Two commands at a time, three PIDs, four commands, two other processes.
SPECIFICATION Spec
CONSTANTS
    Commands = {c1, c2}
    Pids = {p1, p2, p3}
    MaxCommands = 4
    MaxOthers = 2
    None = none
INVARIANTS TypeOK Controllable StopHitsAgent
