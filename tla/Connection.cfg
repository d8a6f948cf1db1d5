SPECIFICATION MCSpec
CONSTANTS
    ProcessWritesEnabled = FALSE
    Devices = {d1, d2}
    NoDevice = NoDevice
    LastDelay = 1
    MaxSessions = 2
    MaxUnplugs = 1
    MaxGeneration = 6
    Adapters = {"A", "B"}
    Nodes = {1, 2}
    Namings <- PortNamings
    SerialOf <- PortSerials
    EventsPerWake = 2
    EventCapacity = 1
    MaxPlugs = 2
    MaxRefreshes = 1
    MaxOpens = 1
SYMMETRY DeviceSymmetry
INVARIANTS
    PortFollowsSession
    NoLostWakeup
    RetriesUntilRefused
    OpenedIsSelected
CHECK_DEADLOCK FALSE
