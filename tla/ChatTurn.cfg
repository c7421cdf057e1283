\* One turn, two workers, one fault; at most two interrupts.
SPECIFICATION FairTurnSpec
CONSTANTS
    w1 = w1
    w2 = w2
    Workers <- MCWorkers
    Graphs <- MCGraphs
    MaxFaults = 1
    MaxRows = 2
INVARIANTS
    ReleasedIsUnbilled
    RunAndMessageAgree
    WritesAreApproved
PROPERTIES
    ImplementsLedger
    TurnEnds
CHECK_DEADLOCK FALSE
