\* A request may be applied and time out; a block only adds, and blocks are
\* not nested.
CONSTANTS
    s1 = s1
    s2 = s2
    p1 = p1
    p2 = p2
    Sessions <- OneSession
    Keys <- TwoKeys
    Types <- TwoTypes
    Ops <- CountedOps
    BatchOps <- AddsOnly
    Faults <- Timeouts
    Raises = FALSE
    MaxCalls = 4
    MaxArgs = 2
    MaxDepth = 1
SPECIFICATION FairSpec
INVARIANTS
    LastWriteWins
    CleanMeansCurrent
PROPERTIES
    EventuallySettled
CHECK_DEADLOCK FALSE
