SPECIFICATION Spec
CONSTANTS
    a1 = a1
    r1 = r1
    c1 = c1
    s1 = s1
    Exts = {"A", "B"}
    Applies = {a1}
    Resets = {r1}
    Selects = {c1}
    Starts = {s1}
    MaxRequests = 3
INVARIANTS ArmedIsConfigured OneRunPerReset
CHECK_DEADLOCK FALSE
