SPECIFICATION Spec
CONSTANTS
    a1 = a1
    a2 = a2
    Attempts = {a1, a2}
    NoAttempt = NoAttempt
    Worlds <- MCWorlds
    MaxTries = 2
    MaxRanks = 2
    QueryLimit = 2
    MaxAxes = 2
    MaxEnabled = 4
    NumOpportunities = 3
    MaxComparables = 3
    MaxProducts = 2
    Freshness <- MCFreshness
    Digest <- MCDigest
    PercentFee = 95
    FixedFee = 45
    TargetMargin = 400
    Discount = 0
    CustomerShipping = 0
INVARIANTS
    TypeOK
    PackageIsWhole
    PricesAreBest
    OfferIsMatrix
PROPERTIES
    PaidOnce
CHECK_DEADLOCK FALSE
