\* One thread, one collection per update: only the host that fails is charged, and the turn passes it.
CONSTANTS
    t1 = t1
    t2 = t2
    Threads <- OneThread
    Hosts <- TwoHosts
    Seeds <- TwoSeeds
    Calls <- SimpleCalls
    MaxRetries = 2
    AdminRequests = FALSE
    Odd <- AnyError
    MaxCalls = 4
    MaxFlips = 3
    MaxHours = 1
SPECIFICATION Spec
INVARIANTS
    FaultyMeansFailed
    OneDownTolerated
CHECK_DEADLOCK FALSE
