\* Two writers of one row, with failing requests, rollbacks and raising actions.
CONSTANTS
    w1 = w1
    w2 = w2
    Task = task
    Writers <- TwoWriters
    Ids <- OneId
    Configs <- SafeConfigs
    Jobs <- NoJob
    Faults <- AnyFault
    BatchSize = 1
    MaxWrites = 3
    MaxFaults = 1
    MaxTasks = 0
SPECIFICATION Spec
INVARIANTS
    TypeOK
    AloneFollows
    LockedFollows
    NoPhantoms
    RequestPublishes
SYMMETRY WriterSymmetry
CHECK_DEADLOCK FALSE
