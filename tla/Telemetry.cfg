SPECIFICATION MCSpec
CONSTANTS
    Params = {1, 2, 3, 4, 5}
    Register <- MCRegister
    Requests <- MCRequests
    BaudRate = 9600
    BitsPerCharacter = 11
    BudgetPpm = 450000
    Plans <- MCPlans
    BusErrors = {"PortRemoved"}
    Undecodable = {2}
    ResultCapacity = 1
    RetainedPlans = 2
    HistorySamples = 3
    HistoryRetention = 4
    HistoryBudget = 7
    SampleBytes = 3
    GapBytes = 2
    MaxTime = 3
    MaxHandleOps = 1
    Values <- MCValues
    MaxPoints = 6
    MaxWidth = 6
    Words <- MCWords
    FrameOf <- MCFrameOf
    FrameBlock <- MCFrameBlock
    SourceParam = "s"
    MaxFaultEvents = 2
    FaultQueue = 1
    MaxChanges = 2
    MaxFaultKeys = 1
INVARIANTS
    PlanIsSound
    BusIsShared
    HistoryIsHonest
    StaleTimerIsArmed
    ChartIsHonest
    TimelineReplays
CHECK_DEADLOCK FALSE
