SPECIFICATION Spec
CONSTANTS
    Runs = {"run_1", "run_2"}
    SubRuns = {"s1", "s2"}
    RunOf <- Owner
    MaxRestores = 1
INVARIANT HeldUnlessCrossed
PROPERTIES SafeDelete BackedUp
CHECK_DEADLOCK FALSE
