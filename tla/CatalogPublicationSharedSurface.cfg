SPECIFICATION Spec
CONSTANTS
    s1 = s1
    s2 = s2
    NumRanks = 2
    Signatures = {s1, s2}
    SurfaceOf <- SharedSurface
    Attempts = {a1}
    Main = main
    Retries = {}
    MaxTries = 2
INVARIANTS
    ApprovedArtOnly
