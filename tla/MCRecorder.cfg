\* Three events through one slot: a full buffer behind a busy worker, a drop
\* and a Record during the flush all happen.  No symmetry: it would not be
\* sound for the two liveness properties.
SPECIFICATION FairSpec
CONSTANTS
    TenantIDs = {acme}
    ToolNames = {search, sql}
    Latencies = {0, 3}
    BufferArg = 1
    MaxEvents = 3
    acme = acme
    search = search
    sql = sql
INVARIANTS
    TypeOK
    ExactlyOnceInOrder
    AggregatesMatch
    SnapshotIsConsistentCut
    DrainProtocol
    CloseFlushes
PROPERTIES
    SnapshotMonotone
    QuietAfterClose
    CloseReturns
    EventuallyDelivered
