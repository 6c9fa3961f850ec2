SPECIFICATION Spec
CONSTANTS
    b1 = b1
    b2 = b2
    p1 = p1
    p2 = p2
    NumPairs = 3
    Blueprints = {b1, b2}
    Providers = {p1, p2}
    BlueprintOf <- ThreeBlueprints
    ProviderOf <- ThreeProviders
    Ranked = {b1}
    BatchSize = 1
    Known = {1}
    Singles = {1}
    Endangered = {1}
    NumRefreshes = 1
    Scheduled = {w1}
    Manual = {w2}
    MaxTries = 2
    UnknownStarts = FALSE
INVARIANTS
    NextTriggerResumes
