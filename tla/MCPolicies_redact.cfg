SPECIFICATION Spec
CONSTANTS
    None = None
    t1 = t1
    t2 = t2
    email = email
    ssn = ssn
    Ids = {p1, p2}
    Names = {n1}
    Tenants = {t1, t2}
    Fields = {email, ssn}
    Calls = {c1, c2}
    MaxChecks = 2
    MaxConcurrent = 1
    TenantChecks <- MCTenantChecks
    EvalTimeout = 3
    TenantTimeout <- MCTenantTimeout
    Requests = {0, 1, 3}
    RedactFields = {email}
    TenantRedact <- MCTenantRedact
    Retention = 2
    TenantRetention <- MCTenantRetention
    MaxCalls = 2
    MaxRestarts = 1
INVARIANT TenantRedaction
CHECK_DEADLOCK FALSE
