\* Retention beside a restore that has verified its backup.
CONSTANTS
    Procs = {c1, c2}
    MaxBackup = 2
    MaxGen = 1
    Keep = 1
    CleanServer = FALSE
    Faults <- RmtreeFault
SPECIFICATION Spec
INVARIANTS
    RestoresWholeBackup
CHECK_DEADLOCK FALSE
