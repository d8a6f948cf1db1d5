SPECIFICATION Spec
CONSTANTS
    ProcessWritesEnabled = TRUE
    Devices = {d1}
    NoDevice = NoDevice
    LastDelay = 0
    Targets = {t1}
    NoTarget = NoTarget
    ManualPath = FALSE
    MaxRevision = 9
    MaxSessions = 2
    MaxPlans = 1
    MaxTasks = 1
CHECK_DEADLOCK FALSE
INVARIANTS TypeOK AuditBeforeWrite OperatorConfirmed FenceDrains
PROPERTIES WriteStaysInSession WrittenOnce
