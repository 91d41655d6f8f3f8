SPECIFICATION Spec
CONSTANTS
    None = None
    Overlaps <- MCOverlaps
    TTLs = {1, 4}
    Expiries = {0, 3}
    DefaultExpiry = 2
    Issuers = {i1}
    MaxKeys = 3
    MaxTokens = 2
    MaxTime = 5
CHECK_DEADLOCK FALSE
INVARIANTS
    VerifiesThroughWindow
    RetiredVerifyOnly
