SPECIFICATION Spec
CONSTANTS
    NSub = 2
    Ifaces = {i1, i2}
    PowerOffAtEnd = TRUE
    Resumes = {TRUE, FALSE}
    MaxRuns = 2
    MaxRequests = 2
SYMMETRY Symmetry
INVARIANTS
    MarkerMeansCaptured
    MarkerNotCutShort
    DataAtOwnVoltage
    CaptureProtected
    DoneMeansFinal
    InStep
PROPERTIES LedgerSpec
CHECK_DEADLOCK FALSE
