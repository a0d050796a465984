\* Concurrent requests of the operations that are safe together, served to their end.  One
\* path, so that no row id is given out again while a request works on it.
CONSTANTS
    NoPath = NoPath
    Paths = {p1}
    Workers = {w1, w2, w3}
    MaxFile = 1
    Ops <- SafeTogether
    ScanResults <- OnlyGood
    Faults <- LoudFaults
SPECIFICATION FairSpec
INVARIANTS
    PlacementOK
PROPERTIES
    StagedSettles
CHECK_DEADLOCK FALSE
