\* A login rehashes the old password after the change.
CONSTANTS
    Workers = {w1, w2}
    MaxPassword = 2
    MaxSession = 1
    MaxToken = 1
    MaxTime = 2
    IdleTimeout = 2
    AbsoluteTimeout = 3
    TouchInterval = 1
    LockoutTime = 2
    MaxFailed = 2
    OldHash = TRUE
SPECIFICATION Spec
SYMMETRY WorkerSymmetry
PROPERTIES
    PasswordNeverReverts
CHECK_DEADLOCK FALSE
