\* Two sessions, counted updates, any update may fail, no commit in a block.
CONSTANTS
    s1 = s1
    s2 = s2
    p1 = p1
    p2 = p2
    Sessions <- AllSessions
    Keys <- TwoKeys
    Types <- OneType
    Ops <- SomeOps
    BatchOps <- SomeBatchOps
    Faults <- DisciplinedFaults
    Raises = TRUE
    MaxCalls = 3
    MaxArgs = 2
    MaxDepth = 2
SPECIFICATION Spec
SYMMETRY SessionSymmetry
CHECK_DEADLOCK FALSE
INVARIANTS
    TypeOK
    DirtyInv
    DirtySound
    DeleteDirtySound
