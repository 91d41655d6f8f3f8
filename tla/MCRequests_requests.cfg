SPECIFICATION Spec
CONSTANTS
    None = None
    Blank = Blank
    Events = {1, 2, 3}
    Cap = 2
    Calls = {c1, c2}
    Addrs = {client, proxy}
    Trusted = {proxy}
    Keys = {k1}
    IdemKeys = {i1}
    Limit = 1
    Refill = 2
    EvictAfter = 2
    TTL = 1
    Faults = {"read", "insert"}
    MaxTime = 3
    MaxRequests = 3
SYMMETRY Symmetry
INVARIANTS
    RateBounded
    SerialChainVerifies
PROPERTIES
    ImplementsBoundedLog
    RetryNotExecuted
    RevokedForGood
CHECK_DEADLOCK FALSE
