SPECIFICATION Spec
CONSTANTS
    ScanList <- TwoConfigs
    BeamSite = TRUE
    MAX_RECOVERIES = 1
    MaxRuns = 8
    MaxOps = 3
    MaxTroubles = 2
CHECK_DEADLOCK FALSE
INVARIANTS NeverStale
