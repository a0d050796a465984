\* A login that verified the old password commits after the change.
CONSTANTS
    Workers = {w1, w2}
    MaxPassword = 2
    MaxSession = 1
    MaxToken = 1
    MaxTime = 2
    IdleTimeout = 2
    AbsoluteTimeout = 3
    TouchInterval = 1
    LockoutTime = 2
    MaxFailed = 2
    OldHash = FALSE
SPECIFICATION Spec
SYMMETRY WorkerSymmetry
INVARIANTS
    SessionsOfCurrentPassword
CHECK_DEADLOCK FALSE
