SPECIFICATION Spec
CONSTANTS
    r1 = r1
    r2 = r2
    t1 = t1
    t2 = t2
    Runs = {r1}
    Edited = {r1}
    Texts = {t1, t2}
    Preparers = {p1, p2}
    Appliers = {a1}
    Patient = FALSE
    MaxBatches = 2
    MaxItems = 2
    MaxVersion = 1
    MaxTries = 2
    MaxFaults = 0
    MaxEdits = 0
INVARIANTS
    AppliedAsApproved
CHECK_DEADLOCK FALSE
