SPECIFICATION Spec
CONSTANTS
    None = None
    Flows = {f1}
    Users = {u1}
    Reqs = {r1, r2}
    Tokens = {t1}
    Codes = {c1, c2}
    Methods = {"none", "totp", "magic_link", "webauthn"}
    NextFlows = {"normal", "mfa_fail", "slow_mfa", "account_locked", "bogus"}
    MaxAttempts = 2
    AdminWrites <- NoWrites
    Ops = {"selectUser", "verify", "approve", "deny", "get", "loginMFA", "magic", "notify", "beginLogin", "beginRegister", "finishRegister", "assert", "authorizeComplete", "cleanup", "crash", "redeem"}
SYMMETRY Symmetry
INVARIANTS
    CompletionStamp
    SecondFactor
    ScenarioHonoured
    CeremonySession
    CodeVouches
    CodeOnce
PROPERTIES
    NoResurrection
CHECK_DEADLOCK FALSE
