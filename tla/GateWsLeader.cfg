\* Two replicas: safety of the election and failover.
SPECIFICATION FairSpec
CONSTANTS
    i1 = i1
    i2 = i2
    Instance = {i1, i2}
    NoInstance = NoInstance
    MaxFaults = 2
    MaxLapses = 1
    MaxStops = 1
    MaxTime = 2
INVARIANTS OneLeader
PROPERTIES ImplementsLease StaleLeaderStepsDown SomeoneServes RefreshSettles
CHECK_DEADLOCK FALSE
