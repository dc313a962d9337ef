SPECIFICATION Spec
CONSTANTS
    c1 = c1
    Chans <- OneChan
    Plan <- OnOffOn
    vmax = 1
    Levels = {1, 2}
    settle = 2
    MaxOps = 2
    MaxTroubles = 2
INVARIANTS OnWithinLimit
PROPERTIES SetMeansThere CrateReleased
CHECK_DEADLOCK FALSE
