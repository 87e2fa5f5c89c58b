\* A process that could not reach its database when it started.
SPECIFICATION DepSpec
CONSTANTS
    None = None
    DevTenant = None
    DatabaseURL = TRUE
    ToolDefs <- MCToolDefs
    LocalDefs <- MCLocalDefs
    Pieces <- MCPieces
    TextAfter <- MCTextAfter
    Before <- MCBefore
    Filters <- MCFilters
    Roles <- MCRoles
INVARIANT StatelessReplicas
