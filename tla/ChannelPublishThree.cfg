SPECIFICATION Spec
SYMMETRY Symmetry
CONSTANTS
    w1 = w1
    w2 = w2
    Workers = {w1, w2, w3}
    NumColors = 1
    MaxStarts = 3
    MaxFaults = 0
    Sends = 1
    Overlaps = {TRUE}
PROPERTIES
    ListingStays
CHECK_DEADLOCK FALSE
