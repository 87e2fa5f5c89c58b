\* Tenants and names with slashes.
SPECIFICATION StoreSpec
CONSTANTS
    ToolDefs <- SlashedDefs
    Before <- MCBefore
    Filters <- MCFilters
PROPERTY RegistrationsKeepApart
