\* One plan, a worker and two other sessions, one ordinary update, one fault.
SPECIFICATION FairSpec
CONSTANTS
    g1 = g1
    w1 = w1
    c1 = c1
    c2 = c2
    Base = Base
    Others = {}
    NoDoc = NoDoc
    NoPlan = NoPlan
    Plans <- OnePlan
    Workers <- MCWorkers
    Clients <- TwoClients
    MaxAttempts = 2
    MaxEdits = 1
    MaxFaults = 1
INVARIANTS
    StaleCacheIsTracked
PROPERTIES
    ImplementsChange
    MarkersSettle
CHECK_DEADLOCK FALSE
