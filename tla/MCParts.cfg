\* Tenants and names without slashes; ints of four bits in Pick.
SPECIFICATION PartsSpec
CONSTANTS
    Parts = {"store", "scan", "discovery", "balancer", "schema", "cache"}
    ToolDefs <- PlainDefs
    Before <- MCBefore
    Filters <- MCFilters
    VersionSet <- MCVersions
    NoVersion = NoVersion
    ToolIDs <- MCToolIDs
    InstanceOffers <- Reports
    MaxInt = 7
    Dial = 5
    Offers <- MCOffers
    NoPick = NoPick
    Schemas <- MCSchemas
    Inputs <- MCInputs
    MaxDepth = 2
    CacheDefs <- MCCacheDefs
    NoTool = NoTool
INVARIANTS
    ScanKeepsLatest
    StoreTypeOK
    IdsLeadBack
    CutHidesOnlyLater
    ListedIffResolvable
    OneInstancePerEndpoint
    PickedIsHealthy
    WeightsDecide
    ConformingNeverRefused
    FlatAcceptedConforms
    VerdictDetermined
    CacheServesOwn
PROPERTIES
    ImplementsCatalog
    ReportsStick
    DeleteForgets
CHECK_DEADLOCK FALSE
