SPECIFICATION MCSpec
CONSTANTS
    Capacity = 1
    FlushRecords = 2
    MaxSamples = 3
    MaxLogs = 2
    MaxTurns = 3
INVARIANTS
    NoHoleInStream
PROPERTIES
    FilesAreEvidence
    ImplementsCsvLog
    LogSettles
CHECK_DEADLOCK FALSE
