\* Four messages through a queue of one slot and two workers, with a shutdown.
SPECIFICATION FairSpec
CONSTANTS
    s1 = s1
    s2 = s2
    c1 = c1
    g1 = g1
    w1 = w1
    w2 = w2
    price = price
    spread = spread
    volume = volume
    candle = candle
    Message = {s1, s2, c1, g1}
    NoMessage = NoMessage
    Category <- MCCategory
    Field = {price, spread, volume, candle}
    Writes <- MCWrites
    InsertOnly = {c1}
    Worker = {w1, w2}
    MaxSize = 1
    MaxAttempts = 2
    MaxFaults = 2
INVARIANTS JoinIsExact DrainLosesNothing DisjointFieldsSurvive
PROPERTIES ImplementsWrites EveryMessageSettles ShutdownEnds
CHECK_DEADLOCK FALSE
