SPECIFICATION Spec
CONSTANTS
    s1 = s1
    s2 = s2
    NumRanks = 1
    Signatures = {s1}
    SurfaceOf <- OneSurface
    Attempts = {a1}
    Main = main
    Retries = {}
    MaxTries = 2
INVARIANTS
    ReplayReturnsResult
