SPECIFICATION FairSpec
CONSTANTS
    s1 = s1
    s2 = s2
    NumRanks = 2
    Signatures = {s1, s2}
    SurfaceOf <- OwnSurface
    Attempts = {a1}
    Main = main
    Retries = {w1}
    MaxTries = 2
INVARIANTS
    TypeOK
    OneProduct
    OneListing
    NothingForgotten
    SucceededIsLive
    PublishedIsRecorded
PROPERTIES
    SucceededFinal
    MainEnds
