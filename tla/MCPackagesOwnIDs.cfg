\* Some clients choose the id of their package.
SPECIFICATION Spec
CONSTANTS
    None = None
    Flags = {"skill", "rule"}
    Requests <- AllRequests
INVARIANT CreatedIsListed
