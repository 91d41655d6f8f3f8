SPECIFICATION Spec
CONSTANTS
    None = None
    Parts <- MCParts
    Tenants <- MCTenants
    Default <- MCDefault
    Multi = TRUE
    UserIds <- MCTwoUserIds
    FlowIds <- MCFlowIds
    Emails = {"e1", "e2", "e3"}
    Seeds <- MCSeeds
    Backend = "sqlite"
PROPERTIES
    ActsAsPrivateStores
    TenantIsolated
