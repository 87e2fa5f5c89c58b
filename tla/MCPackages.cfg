\* Ids are left to the registry.
SPECIFICATION Spec
CONSTANTS
    None = None
    Flags = {"skill", "rule"}
    Requests <- UnnamedRequests
INVARIANT CreatedIsListed
PROPERTY ImplementsLibrary
