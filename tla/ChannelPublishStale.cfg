SPECIFICATION Spec
SYMMETRY Symmetry
CONSTANTS
    w1 = w1
    w2 = w2
    Workers = {w1, w2}
    NumColors = 1
    MaxStarts = 2
    MaxFaults = 0
    Sends = 1
    Overlaps = {TRUE}
INVARIANTS
    StaleAttemptIsHarmless
CHECK_DEADLOCK FALSE
