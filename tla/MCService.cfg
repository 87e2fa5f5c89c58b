\* Two requests at a time: registrations and a deregistration of two versions
\* beside resolve, invoke and validate, while an instance changes its health.
SPECIFICATION Spec
CONSTANTS
    None = None
    DevTenant = None
    Goroutines = {g1, g2}
    g1 = g1
    g2 = g2
    ToolDefs <- MCToolDefs
    ToolIDs <- OldID
    InstanceOffers <- OneEndpoint
    Before <- MCBefore
    Filters <- MCFilters
    Requests <- MCRequests
    SchemaValidation = TRUE
    DiscoveryEnabled = TRUE
SYMMETRY GoroutineSymmetry
INVARIANTS
    TypeOK
    AnswerExplained
    InstancesExplained
    CallLegitimate
    TransportAlwaysFound
PROPERTY
    ImplementsCatalog
