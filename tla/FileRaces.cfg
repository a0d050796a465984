\* Two requests on one file, no fault: one publishes it while the other, which has seen it
\* ready, deletes it.  PlacementOK and PublishedApproved, as INVARIANTS, are violated too.
CONSTANTS
    NoPath = NoPath
    Paths = {p1, p2}
    Workers = {w1, w2}
    MaxFile = 1
    Ops <- AllOps
    ScanResults <- GoodAndInfected
    Faults <- NoFault
SPECIFICATION Spec
PROPERTIES
    PublishedNeverDeleted
CHECK_DEADLOCK FALSE
