\* Two threads share the proxy, hosts and admin requests fail.
CONSTANTS
    t1 = t1
    t2 = t2
    Threads <- TwoThreads
    Hosts <- TwoHosts
    Seeds <- TwoSeeds
    Calls <- EveryCall
    MaxRetries = 1
    AdminRequests = TRUE
    Odd <- NoError
    MaxCalls = 2
    MaxFlips = 1
    MaxHours = 0
SPECIFICATION FairSpec
INVARIANTS
    TypeOK
    GivesUpInTime
PROPERTIES
    EveryCallEnds
CHECK_DEADLOCK FALSE
