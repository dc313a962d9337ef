SPECIFICATION Spec
CONSTANTS
    NSub = 2
    c1 = c1
    c2 = c2
    Channels = {c1, c2}
    Target <- Settings
    NoSet = NoSet
    CheckBefore = TRUE
    PowerOffAtEnd = TRUE
    MaxRuns = 2
    MaxFaults = 2
    MaxTrips = 1
INVARIANTS CaptureAtVoltage CaptureMonitored PowerOffComplete
PROPERTIES RunEnds ServersReturn
CHECK_DEADLOCK FALSE
