\* A file is rewritten between its verification and its publication; and two damaged files,
\* the second hashed while the first row's UPDATE is uncommitted.  Each property is violated:
\* keep one at a time.
CONSTANTS
    NoPath = NoPath
    Paths = {p1, p2}
    Workers = {w1}
    MaxFile = 2
    Ops <- AllOps
    ScanResults <- OnlyGood
    Faults <- NoFault
    MaintenanceWindow = TRUE
    Readers = {r1}
    MaxDay = 1
    MaxCount = 1
    Contents = {c1, c2}
    NoSum = NoSum
    MaxStamp = 4
    QuietStorage = FALSE
    Mishaps <- AllMishaps
    MaxMishaps = 0
    Companions <- OnlyRepair
    OpsBeside <- PublishOnly
    RowsBeside <- TwoRows
SPECIFICATION BesideSpec
INVARIANTS
    HashesOutsideTransaction
PROPERTIES
    ProtectPublished
CHECK_DEADLOCK FALSE
