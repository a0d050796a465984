\* Two commands beside a writing application; anything may fail at any step.
CONSTANTS
    Procs = {c1, c2}
    MaxBackup = 2
    MaxGen = 2
    Keep = 1
    CleanServer = FALSE
    Faults <- AllFaults
SPECIFICATION Spec
SYMMETRY ProcSymmetry
INVARIANTS
    LockExclusive
    WalMatches
    RestoreAllOrNothing
    DataSurvives
PROPERTIES
    RetentionKeeps
CHECK_DEADLOCK FALSE
