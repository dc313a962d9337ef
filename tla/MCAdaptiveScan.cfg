SPECIFICATION ScanSpec
CONSTANTS
    CHIPS = {c1}
    Channels = {a, b}
    Ks <- Falling
    max_masks_per_chip = 1
    max_iter = 2
    minutes = 2
    strikes = 2
    MaxPasses = 2
SYMMETRY Symmetry
INVARIANTS CleanWasNotStopped HeldAtMeasured
CHECK_DEADLOCK FALSE
