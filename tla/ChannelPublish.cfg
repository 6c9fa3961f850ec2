SPECIFICATION Spec
SYMMETRY Symmetry
CONSTANTS
    w1 = w1
    w2 = w2
    Workers = {w1, w2}
    NumColors = 2
    MaxStarts = 3
    MaxFaults = 1
    Sends = 2
    Overlaps = {TRUE, FALSE}
INVARIANTS
    TypeOK
    NothingTwice
    ActiveIsComplete
    SuccessIsLive
PROPERTIES
    RetriesRetain
CHECK_DEADLOCK FALSE
