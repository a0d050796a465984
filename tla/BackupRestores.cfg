\* One command at a time on a server with data; retention may leave a directory half deleted.
CONSTANTS
    Procs = {c1}
    MaxBackup = 3
    MaxGen = 3
    Keep = 1
    CleanServer = FALSE
    Faults <- RmtreeFault
SPECIFICATION FairSpec
INVARIANTS
    RestoresWholeBackup
PROPERTIES
    RestoreSucceeds
CHECK_DEADLOCK FALSE
