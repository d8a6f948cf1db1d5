SPECIFICATION Spec
CONSTANTS
    ProcessWritesEnabled = TRUE
    Devices = {d1}
    NoDevice = NoDevice
    LastDelay = 0
    Targets = {t1}
    NoTarget = NoTarget
    ManualPath = TRUE
    MaxRevision = 6
    MaxSessions = 1
    MaxPlans = 2
    MaxTasks = 2
CHECK_DEADLOCK FALSE
PROPERTY FailsClosed
