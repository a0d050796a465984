\* Two uploads at once, backups on the same disk or on one of their own, and whatever
\* crashes, killed backups and failed removals leave behind.
CONSTANTS
    Uploads = {u1, u2}
    Capacity = 5
    BackupCapacity = 5
    SharedDisk = {TRUE, FALSE}
    Reserve = 1
    BackupReserve = 1
    MaxUpload = 2
    DatabaseSize = 1
    MaxLog = 1
    ManifestSize = 1
    Keep = 1
    MaxKills = 1
SPECIFICATION Spec
INVARIANTS
    UploadsLeaveReserve
    BackupLeavesReserve
CHECK_DEADLOCK FALSE
