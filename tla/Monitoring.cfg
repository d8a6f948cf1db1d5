SPECIFICATION Spec
CONSTANTS
    p1 = p1
    p2 = p2
    p3 = p3
    Params <- MCParams
    Axis <- MCAxis
    Dashboard <- MCDashboard
    Views <- MCViews
    MaxPanels = 2
    MaxChannels = 2
    Budget = 2
    MaxOps = 4
    MaxInbox = 1
INVARIANTS
    PlanIsRequested
    TeardownFinalizesLog
PROPERTIES
    BrowserTakesEffect
CHECK_DEADLOCK FALSE
