\* Logins, authentication, logout and the CLI commands side by side.
CONSTANTS
    Workers = {w1, w2}
    MaxPassword = 2
    MaxSession = 2
    MaxToken = 2
    MaxTime = 4
    IdleTimeout = 2
    AbsoluteTimeout = 3
    TouchInterval = 1
    LockoutTime = 2
    MaxFailed = 2
    OldHash = FALSE
SPECIFICATION Spec
SYMMETRY WorkerSymmetry
INVARIANTS
    WithinAbsolute
    LockoutBound
    OnlyRacingLoginsSurvive
PROPERTIES
    RevocationSticks
    PasswordNeverReverts
CHECK_DEADLOCK FALSE
