\* Liveness: a direct and a consolidated event of one profile, whose transactions can deadlock.
SPECIFICATION FairSpec
CONSTANTS
    c1 = c1
    c2 = c2
    d1 = d1
    d2 = d2
    p1 = p1
    p2 = p2
    s1 = s1
    k1 = k1
    r1 = r1
    r2 = r2
    NoDecision = NoDecision
    Decision = {d1, d2}
    Profile = {p1}
    Symbol = {s1}
    Candle = {k1}
    Scan = {r1, r2}
    Consumer = {c1, c2}
    ProfileOf <- TwinProfileOf
    SymbolOf <- PairSymbolOf
    CandleOf <- PairCandleOf
    ScanOf <- PairScanOf
    Rank <- PairRank
    Required = {d1, d2}
    Malformed = {}
    MaxChanges = 1
    MaxFaults = 0
PROPERTIES EveryEventAnswered
CHECK_DEADLOCK FALSE
