SPECIFICATION InterruptSpec
CONSTANTS
    NSub = 2
    Ifaces = {i1}
    PowerOffAtEnd = TRUE
    Resumes = {FALSE}
    MaxRuns = 1
    MaxRequests = 2
CHECK_DEADLOCK FALSE
PROPERTIES StopEndsRun CaptureEnds
