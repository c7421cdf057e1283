\* One turn without faults: a node may still raise.
SPECIFICATION TurnSpec
CONSTANTS
    w1 = w1
    w2 = w2
    Workers <- MCWorkers
    Graphs <- MCGraphs
    MaxFaults = 0
    MaxRows = 2
INVARIANT WriteIsReported
CHECK_DEADLOCK FALSE
