\* Safety of the hand-off: two profiles compete, two overlapping consumers.
SPECIFICATION Spec
CONSTANTS
    d1 = d1
    d2 = d2
    p1 = p1
    p2 = p2
    s1 = s1
    k1 = k1
    r1 = r1
    r2 = r2
    c1 = c1
    c2 = c2
    NoDecision = NoDecision
    Decision = {d1, d2}
    Profile = {p1, p2}
    Symbol = {s1}
    Candle = {k1}
    Scan = {r1}
    Consumer = {c1, c2}
    ProfileOf <- PairProfileOf
    SymbolOf <- PairSymbolOf
    CandleOf <- PairCandleOf
    ScanOf <- PairScanOf
    Rank <- PairRank
    Malformed = {}
    Required = {d1, d2}
    MaxChanges = 1
    MaxFaults = 2
INVARIANTS OneShadowPerDecision OneConsolidatedPosition CreatedIsBacked
    DirectIsAtomic SuppressionIsAudited
PROPERTIES AnswerIsFinal CaptureUnderActiveProfile ImplementsHandoff
SYMMETRY ConsumerSymmetry
CHECK_DEADLOCK FALSE
