\* Two buy cycles and one evaluate over two symbols, two profiles, one fault.
SPECIFICATION Spec
CONSTANTS
    b1 = b1
    b2 = b2
    e1 = e1
    p1 = p1
    p2 = p2
    NoProfile = NoProfile
    BuyCycles <- TwoBuyers
    EvaluateCycles <- Evaluator
    Profiles <- MCProfiles
    Candidates = 2
    MaxPositions = 2
    MaxPerAsset = 2
    MaxBuys = 1
    EngineLimit = 1
    MaxAttempts = 2
    MaxFaults = 1
INVARIANTS
    NoLateOrder
    OneTradePerSymbol
    OrdersAreBooked
    OverrunIsBounded
SYMMETRY MCSymmetry
CHECK_DEADLOCK FALSE
