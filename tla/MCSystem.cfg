SPECIFICATION SysSpec
CONSTANTS
    None = None
    DevTenant = None
    Goroutines = {g1, g2}
    g1 = g1
    g2 = g2
    ToolDefs <- MCToolDefs
    ToolIDs <- MCIDs
    InstanceOffers <- MCOffers
    Before <- MCBefore
    Filters = {}
    Requests <- MCRequests
    SchemaValidation = TRUE
    DiscoveryEnabled = TRUE
    TenantIDs <- MCTenants
    ToolNames <- MCNames
    Latencies = {2}
    BufferArg = 1
    MaxEvents = 3
INVARIANTS
    MeteringConserved
    LossBounded
PROPERTY RecorderRefined
CHECK_DEADLOCK FALSE
