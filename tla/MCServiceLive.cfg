\* Two requests at a time, http and delegated transports, an instance that
\* comes, goes and changes its health.
SPECIFICATION FairSpec
CONSTANTS
    None = None
    DevTenant = None
    Goroutines = {g1, g2}
    g1 = g1
    g2 = g2
    ToolDefs <- MCToolDefs
    ToolIDs <- OldID
    InstanceOffers <- OneEndpoint
    Before <- MCBefore
    Filters <- MCFilters
    Requests <- LiveRequests
    SchemaValidation = TRUE
    DiscoveryEnabled = TRUE
PROPERTY Answered
