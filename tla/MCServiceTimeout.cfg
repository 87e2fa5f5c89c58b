\* No fairness for the tool or the client: is the call still ended?
SPECIFICATION ServerSpec
CONSTANTS
    None = None
    DevTenant = None
    Goroutines = {g1}
    g1 = g1
    ToolDefs <- MCToolDefs
    ToolIDs <- OldID
    InstanceOffers <- OneEndpoint
    Before <- MCBefore
    Filters <- MCFilters
    Requests <- HttpRequests
    SchemaValidation = TRUE
    DiscoveryEnabled = TRUE
PROPERTY SlowToolTimesOut
