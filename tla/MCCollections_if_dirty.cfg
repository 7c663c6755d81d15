\* One process that indexes and then commits if dirty.
CONSTANTS
    pr1 = pr1
    pr2 = pr2
    i1 = i1
    i2 = i2
    jan = jan
    janPost = janPost
    default = default
    Procs <- OneProc
    Ids <- TwoIds
    Groups <- Together
    Months <- OneMonth
    Names <- JanNames
    Default <- default
    Month <- MonthOf
    Home <- HomeOf
    StartsWith <- JanPrefixes
    Ops <- IndexAndCommit
    ExpiresIn = 0
    MaxTime = 0
    MaxCalls <- JustTwo
    MaxFaults = 0
SPECIFICATION Spec
INVARIANTS
    CommitIfDirtyReachesAll
CHECK_DEADLOCK FALSE
