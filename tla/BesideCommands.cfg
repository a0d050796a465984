\* Orphan cleanup, a backup or a storage verification beside requests, with every fault.
CONSTANTS
    NoPath = NoPath
    Paths = {p1, p2}
    Workers = {w1}
    MaxFile = 2
    Ops <- AllOps
    ScanResults <- OnlyGood
    Faults <- AllFaults
    MaintenanceWindow = TRUE
    Readers = {r1}
    MaxDay = 1
    MaxCount = 1
    Contents = {c1}
    NoSum = NoSum
    MaxStamp = 0
    QuietStorage = TRUE
    Mishaps <- AllMishaps
    MaxMishaps = 1
    Companions <- Commands
    OpsBeside <- SomeOps
    RowsBeside <- TwoRows
SPECIFICATION BesideSpec
SYMMETRY Symmetry
INVARIANTS
    DeletesOnlyUnreferenced
    BackupConsistent
    TroubleReported
    NoFalseAlarm
CHECK_DEADLOCK FALSE
