SPECIFICATION MCSpec
CONSTANTS
    ProcessWritesEnabled = TRUE
    Devices = {d1}
    NoDevice = NoDevice
    LastDelay = 0
    Targets = {}
    ManualPath = FALSE
    NoTarget = NoTarget
    MaxRevision = 10
    MaxSessions = 1
    MaxPlans = 0
    MaxTasks = 1
    Steps = 2
    MaxRestores = 1
    BackupParams <- MCBackupParams
    RestoreOrder <- MCRestoreOrder
    Restorable = {"x", "y"}
    RawValues = {0, 1}
    BackupFiles <- MCBackupFiles
    MaxPanel = 1
    MaxBackupKeys = 3
    MaxDrops = 1
CHECK_DEADLOCK FALSE
INVARIANTS RestoreSettles RearmAfterRestore PlanRestoresSource
PROPERTIES StepsInOrder
