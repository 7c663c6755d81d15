\* Every call and every failure, in and out of batch blocks.
CONSTANTS
    s1 = s1
    s2 = s2
    p1 = p1
    p2 = p2
    Sessions <- OneSession
    Keys <- TwoKeys
    Types <- TwoTypes
    Ops <- AllOps
    BatchOps <- AllOps
    Faults <- AllFaults
    Raises = TRUE
    MaxCalls = 4
    MaxArgs = 1
    MaxDepth = 2
SPECIFICATION Spec
INVARIANTS
    StackCoversBlocks
    Accounted
PROPERTIES
    BatchSentWhole
    ImplementsContract
CHECK_DEADLOCK FALSE
