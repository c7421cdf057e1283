\* Whether a refresh that meets a database error keeps the subscriptions.
SPECIFICATION Spec
CONSTANTS
    i1 = i1
    i2 = i2
    Instance = {i1, i2}
    NoInstance = NoInstance
    MaxFaults = 1
    MaxLapses = 0
    MaxStops = 0
    MaxTime = 2
INVARIANT SubscriptionsKept
CHECK_DEADLOCK FALSE
