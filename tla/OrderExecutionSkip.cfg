\* One buy cycle, two symbols of one profile, no fault.
SPECIFICATION Spec
CONSTANTS
    b1 = b1
    b2 = b2
    e1 = e1
    p1 = p1
    p2 = p2
    NoProfile = NoProfile
    BuyCycles <- OneBuyer
    EvaluateCycles <- NoEvaluator
    Profiles <- OneProfile
    Candidates = 2
    MaxPositions = 2
    MaxPerAsset = 2
    MaxBuys = 2
    EngineLimit = 10
    MaxAttempts = 2
    MaxFaults = 0
INVARIANTS
    SkipNeverBlocks
CHECK_DEADLOCK FALSE
