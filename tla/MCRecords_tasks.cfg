\* Reindexing and cleaning beside a writer of two rows.
CONSTANTS
    w1 = w1
    w2 = w2
    Task = task
    Writers <- OneWriter
    Ids <- TwoIds
    Configs <- SafeConfigs
    Jobs <- EveryJob
    Faults <- Refused
    BatchSize = 1
    MaxWrites = 2
    MaxFaults = 1
    MaxTasks = 1
SPECIFICATION Spec
INVARIANTS
    TaskRepairs
    CleansOrphansOnly
CHECK_DEADLOCK FALSE
