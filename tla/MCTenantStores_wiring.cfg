SPECIFICATION Spec
CONSTANTS
    None = None
    Parts <- MCParts
    Tenants <- MCSingle
    Default <- MCDefault
    Multi = FALSE
    UserIds <- MCUserIds
    FlowIds <- MCFlowIds
    Emails = {"e1", "e2"}
    Seeds <- MCSeeds
    Backend = "memory"
INVARIANTS
    LoginFindsFlow
