\* Orphan cleanup, a backup and a verification beside any request, no fault but a mishap.
\* Each property is violated: keep one at a time.
CONSTANTS
    NoPath = NoPath
    Paths = {p1, p2}
    Workers = {w1}
    MaxFile = 1
    Ops <- AllOps
    ScanResults <- OnlyGood
    Faults <- NoFault
    MaintenanceWindow = FALSE
    Readers = {r1}
    MaxDay = 1
    MaxCount = 1
    Contents = {c1}
    NoSum = NoSum
    MaxStamp = 0
    QuietStorage = TRUE
    Mishaps <- AllMishaps
    MaxMishaps = 1
    Companions <- Commands
    OpsBeside <- EveryOp
    RowsBeside <- OneRow
SPECIFICATION BesideSpec
INVARIANTS
    DeletesOnlyUnreferenced
    BackupConsistent
    DamageReported
CHECK_DEADLOCK FALSE
