SPECIFICATION Spec
CONSTANTS
    Channels = {"etsy", "shopify"}
    NumCandidates = 2
    Modes = {"automatic"}
    MaxRevisions = 2
    MaxRewrites = 2
    MaxAttempts = 2
    MaxWorkflows = 2
    MaxVersion = 9
    MaxActs = 2
    MaxShifts = 2
    MaxFaults = 2
    MaxEvents = 2
    Slow = {"rewrite"}
    Eager = FALSE
PROPERTIES
    StoppedReleaseEnds
CHECK_DEADLOCK FALSE
