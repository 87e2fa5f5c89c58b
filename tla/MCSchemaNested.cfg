\* Schemas whose only constraint is on a member of a nested object.
SPECIFICATION PartsSpec
CONSTANTS
    Parts = {"schema"}
    ToolDefs <- PlainDefs
    Before <- MCBefore
    Filters <- MCFilters
    VersionSet <- MCVersions
    NoVersion = NoVersion
    ToolIDs <- MCToolIDs
    InstanceOffers <- Reports
    MaxInt = 7
    Dial = 5
    Offers <- MCOffers
    NoPick = NoPick
    Schemas <- NestedSchemas
    Inputs <- MCInputs
    MaxDepth = 2
    CacheDefs <- MCCacheDefs
    NoTool = NoTool
INVARIANT AcceptedConforms
CHECK_DEADLOCK FALSE
