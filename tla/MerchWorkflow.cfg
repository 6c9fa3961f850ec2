SPECIFICATION Spec
CONSTANTS
    Channels = {"etsy", "shopify"}
    NumCandidates = 2
    Modes = {"automatic", "ip"}
    MaxRevisions = 2
    MaxRewrites = 2
    MaxAttempts = 2
    MaxWorkflows = 2
    MaxVersion = 9
    MaxActs = 2
    MaxShifts = 1
    MaxFaults = 2
    MaxEvents = 2
    Slow = {"rewrite"}
    Eager = FALSE
INVARIANTS
    TypeOK
    RewriteBudget
    ReleasedAsReviewed
    ReleasedAsApproved
    NoOrphan
PROPERTIES
    RestIsFinal
    NoEndlessWork
CHECK_DEADLOCK FALSE
