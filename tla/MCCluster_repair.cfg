\* Two admins, two collections with three shards, changes and failures between
\* a check and its repair.
CONSTANTS
    ad1 = ad1
    ad2 = ad2
    c1 = c1
    c2 = c2
    s1 = s1
    s2 = s2
    s3 = s3
    x1 = x1
    x2 = x2
    x3 = x3
    x4 = x4
    y1 = y1
    y2 = y2
    Admins <- TwoAdmins
    Store = store
    Collections <- TwoCollections
    Shards <- ThreeShards
    CollectionOf <- ShardCollections
    Cores <- AllCores
    Unused = unused
    Deleted = deleted
    Placed <- AtTheStart
    Servings <- SomeServings
    MaxChanges = 2
    MaxRepairs = 2
    MaxFaults = 1
SPECIFICATION Spec
INVARIANTS
    TypeOK
    LastCopySpared
    FactorKept
    RepairHeals
SYMMETRY ClusterSymmetry
CHECK_DEADLOCK FALSE
