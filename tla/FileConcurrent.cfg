\* Two concurrent requests, every operation, every fault and crashes.
CONSTANTS
    NoPath = NoPath
    Paths = {p1, p2}
    Workers = {w1, w2}
    MaxFile = 1
    Ops <- AllOps
    ScanResults <- GoodAndInfected
    Faults <- AllFaults
SPECIFICATION Spec
SYMMETRY BothSymmetry
INVARIANTS
    RowHasBytes
    NoClobber
CHECK_DEADLOCK FALSE
