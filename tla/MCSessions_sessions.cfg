SPECIFICATION Spec
CONSTANTS
    None = None
    Users = {u1, u2}
    Flows = {f1, f2}
    Codes = {c1}
    Tokens = {t1, t2, t3}
    Reqs = {r1, r2}
    MaxSessions = 2
    Backend = "memory"
    Ops = {"code", "refresh", "saml", "signOut", "logoutUser", "logoutName", "expire", "cleanup", "putUser", "deleteUser"}
SYMMETRY Symmetry
INVARIANTS
    ExchangedIsDead
    OneSessionPerCode
    LogoutCompletes
PROPERTIES
    EndedStaysEnded
CHECK_DEADLOCK FALSE
