\* Two processes and the collections of a month; calls, failing requests, expiry.
CONSTANTS
    pr1 = pr1
    pr2 = pr2
    i1 = i1
    i2 = i2
    jan = jan
    janPost = janPost
    default = default
    Procs <- TwoProcs
    Ids <- TwoIds
    Groups <- Together
    Months <- OneMonth
    Names <- JanNames
    Default <- default
    Month <- MonthOf
    Home <- HomeOf
    StartsWith <- JanPrefixes
    Ops <- SplitOps
    ExpiresIn = 0
    MaxTime = 1
    MaxCalls <- TwoAndOne
    MaxFaults = 1
SPECIFICATION Spec
INVARIANTS
    TypeOK
    SearchFinds
    CommitReachesAll
    RemoveAllReachesAll
CHECK_DEADLOCK FALSE
