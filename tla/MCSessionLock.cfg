SPECIFICATION Spec
CONSTANTS
    run = run
    apply = apply
    Keepers = {run, apply}
    HandsOver = {apply}
    MaxChunks = 2
INVARIANTS StoppedHoldsNothing OneChild HandedOver
PROPERTY TakesOver
CHECK_DEADLOCK FALSE
