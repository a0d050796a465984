\* Disaster recovery on a server without live data, no fault.
CONSTANTS
    Procs = {c1}
    MaxBackup = 2
    MaxGen = 1
    Keep = 1
    CleanServer = TRUE
    Faults <- NoFault
SPECIFICATION FairSpec
PROPERTIES
    RestoreSucceeds
CHECK_DEADLOCK FALSE
