\* Database, storage and backups on the one disk that BACKUP_RESTORE.md prescribes: below the
\* reserve the clean-up that would restore it does not run.
CONSTANTS
    Uploads = {u1}
    Capacity = 6
    BackupCapacity = 6
    SharedDisk = {TRUE}
    Reserve = 1
    BackupReserve = 1
    MaxUpload = 2
    DatabaseSize = 1
    MaxLog = 0
    ManifestSize = 1
    Keep = 1
    MaxKills = 1
SPECIFICATION FairSpec
PROPERTIES
    CleanupRestoresReserve
CHECK_DEADLOCK FALSE
