SPECIFICATION MCSpec
CONSTANTS
    ProcessWritesEnabled = FALSE
    Devices = {d1, d2}
    NoDevice = NoDevice
    LastDelay = 1
    MaxSessions = 1
    MaxUnplugs = 2
    MaxGeneration = 6
    Adapters = {"A", "B"}
    Nodes = {1, 2}
    Namings <- PortNamings
    SerialOf <- PortSerials
    EventsPerWake = 2
    EventCapacity = 1
    MaxPlugs = 2
    MaxRefreshes = 1
    MaxOpens = 1
SYMMETRY DeviceSymmetry
INVARIANT KeepsRetrying
CHECK_DEADLOCK FALSE
