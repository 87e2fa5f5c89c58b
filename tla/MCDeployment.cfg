\* Statements of all processes fail or lose their answer while one of them
\* crashes and restarts, with the database or without it.
SPECIFICATION DepSpec
CONSTANTS
    None = None
    DevTenant = None
    DatabaseURL = TRUE
    ToolDefs <- MCToolDefs
    LocalDefs <- MCLocalDefs
    Pieces <- MCPieces
    TextAfter <- MCTextAfter
    Before <- MCBefore
    Filters <- MCFilters
    Roles <- MCRoles
INVARIANTS
    AnswersReliable
    PermissionsKept
    BackendInvisible
