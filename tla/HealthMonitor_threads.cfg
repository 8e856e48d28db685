SPECIFICATION FairSpec
CONSTANTS
    HbTimeout = 2
    PumpTimeout = 2
    BatteryInterval = 2
    ConnInterval = 2
    LowLevel = 3
    ChangeThreshold = 2
    Seqs = {0, 1}
    Levels = {1, 2, 3, 5}
    connected = connected
    disconnected = disconnected
    Statuses = {connected, disconnected}
    Unset = Unset
    Publishing <- Subsystems
    Wrap = 100
    Boot = 2
    MaxClock = 6
INVARIANTS ReportedOnce StatusKept
PROPERTIES  LowNoticed
