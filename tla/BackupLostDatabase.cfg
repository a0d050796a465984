\* A restore fails, and so does putting the old paths back.
CONSTANTS
    Procs = {c1}
    MaxBackup = 2
    MaxGen = 2
    Keep = 1
    CleanServer = FALSE
    Faults <- FailTwice
SPECIFICATION Spec
INVARIANTS
    DatabaseSurvives
CHECK_DEADLOCK FALSE
