SPECIFICATION Spec
CONSTANTS
    Files = 2
    max_attempts = 1
    MaxDisturbs = 1
INVARIANTS WholeStore AttemptsBounded PlottedOnce
PROPERTY ShownOrSetAside
CHECK_DEADLOCK FALSE
