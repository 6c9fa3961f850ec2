SPECIFICATION Spec
CONSTANTS
    r1 = r1
    r2 = r2
    t1 = t1
    t2 = t2
    Runs = {r1, r2}
    Edited = {r1}
    Texts = {t1, t2}
    Preparers = {p1}
    Appliers = {a1}
    Patient = TRUE
    MaxBatches = 2
    MaxItems = 2
    MaxVersion = 2
    MaxTries = 2
    MaxFaults = 1
    MaxEdits = 2
INVARIANTS
    TypeOK
    AppliedAsApproved
    EffectiveIsLive
    OthersAreRespected
SYMMETRY Symmetric
CHECK_DEADLOCK FALSE
