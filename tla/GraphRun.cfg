\* One run, two workers, two faults; at most two interrupts.
SPECIFICATION FairSpec
CONSTANTS
    w1 = w1
    w2 = w2
    Workers <- MCWorkers
    Graphs <- MCGraphs
    MaxFaults = 2
    MaxRows = 2
INVARIANTS
    RepeatsAreFaults
    DecisionsTakenOnce
    ExclusiveUnlessStalled
    GatesGovern
    AnswersMeetTheirGate
PROPERTIES
    TerminalIsFinal
    RunEnds
CHECK_DEADLOCK FALSE
