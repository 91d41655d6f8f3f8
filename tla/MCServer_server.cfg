SPECIFICATION Spec
CONSTANTS
    None = None
    Seeds = {"alice", "bob"}
    Fields = {"email", "ssn"}
    AdminIds = {"adm_default", "adm_1"}
    DefaultId = "adm_default"
    Workers = {w1}
    MaxKeys = 2
    MaxCookies = 1
    SignIns = {"adm_default"}
    Streams = {s1}
    Files <- MCFiles
    Envs <- MCEnvs
    Flags <- MCFlags
    MaxBoots = 2
INVARIANTS
    ConfigHonoured
    SomebodyCanLogIn
    SignedInStaysIn
    NoPanic
    StoreOutlives
PROPERTIES
    ShutdownEnds
CHECK_DEADLOCK FALSE
