SPECIFICATION MCSpec
CONSTANTS
    w1 = w1
    r1 = r1
    r2 = r2
    Reads <- MCReads
    Writes <- MCWrites
    Class <- MCClass
    Deadline <- MCDeadline
    Operation <- MCOperation
    Capacity <- MCCapacity
    ReadAttempts = 3
    SafetyBurstLimit = 1
    SafetyOperationLimit = 1
    T35 = 1
    HardWindow = 1
    MaxTime = 4
    MaxDepth = 1
INVARIANTS
    BoundedOvertaking
    BurstBounded
PROPERTIES
    PortContract
    FramesKeepTime
    EventuallyAnswered
    NoClassStarves
CHECK_DEADLOCK FALSE
