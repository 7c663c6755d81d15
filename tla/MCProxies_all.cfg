\* Calls with every error, with and without shards, under each wrapper.
CONSTANTS
    sh1 = sh1
    sh2 = sh2
    p1 = p1
    p2 = p2
    Shards <- TwoShards
    Keys <- TwoKeys
    ShardOf <- Split
    Wraps <- EveryWrap
    Ops <- MostOps
    Blocks <- TwoBlocks
    Errors <- AnyError
    MaxCalls = 3
SPECIFICATION FairSpec
INVARIANTS
    TypeOK
    CallTookEffect
    ProxyDirtySound
    CommitPublishes
    BatchesLeft
PROPERTIES
    EveryCallReturns
CHECK_DEADLOCK FALSE
