\* Requests alone, or a checksum repair or a download beside them; storage is rewritten
\* only in between.
CONSTANTS
    NoPath = NoPath
    Paths = {p1, p2}
    Workers = {w1}
    MaxFile = 2
    Ops <- AllOps
    ScanResults <- GoodAndInfected
    Faults <- FewFaults
    MaintenanceWindow = TRUE
    Readers = {r1}
    MaxDay = 2
    MaxCount = 2
    Contents = {c1, c2}
    NoSum = NoSum
    MaxStamp = 4
    QuietStorage = TRUE
    Mishaps <- AllMishaps
    MaxMishaps = 0
    Companions <- Others
    OpsBeside <- SomeOps
    RowsBeside <- TwoRows
SPECIFICATION BesideSpec
SYMMETRY Symmetry
INVARIANTS
    CountersAgree
    ServesOnlyPublished
    RepairsTheRest
PROPERTIES
    ImplementsAtomicFiles
    ProtectPublished
    PublishesVerified
CHECK_DEADLOCK FALSE
