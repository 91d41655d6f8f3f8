SPECIFICATION FairSpec
CONSTANTS
    None = None
    Flows = {f1, f2}
    Users = {u1}
    Reqs = {r1}
    Tokens = {t1}
    Codes = {}
    Methods = {"none", "magic_link", "webauthn"}
    NextFlows = {"normal", "slow_mfa", "account_locked"}
    MaxAttempts = 1
    AdminWrites <- MethodWrite
    Ops = {"selectUser", "verify", "approve", "deny", "get", "loginMFA", "magic", "notify", "beginRegister", "cleanup", "deleteUser"}
INVARIANTS
    ScenarioUsedUp
PROPERTIES
    FollowsLifecycle
    PickIsFinal
    ExpiredGone
CHECK_DEADLOCK FALSE
