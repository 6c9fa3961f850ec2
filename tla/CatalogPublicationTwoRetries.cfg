SPECIFICATION Spec
CONSTANTS
    s1 = s1
    s2 = s2
    NumRanks = 1
    Signatures = {s1}
    SurfaceOf <- OneSurface
    Attempts = {a1, a2}
    Main = main
    Retries = {w1, w2}
    MaxTries = 1
INVARIANTS
    OneActiveListing
