----------------------------- MODULE Deployment -----------------------------
(***************************************************************************)
(* A registry process among others that share its database: which store    *)
(* Bootstrap gives it (cmd/main.go), crashes and restarts, and what the    *)
(* clients of all of them can rely on.                                     *)
(*                                                                         *)
(* A statement is done and answered, fails, or takes effect although its   *)
(* answer is lost ("unsure"); the last two look alike to the client: 500   *)
(* from Register, 404 from Deregister.  The other processes are connected  *)
(* to the database all the time, so that requests served by it may come at *)
(* any moment.                                                             *)
(***************************************************************************)
EXTENDS PgStore, Access

CONSTANTS
    DatabaseURL,    \* is the environment variable DATABASE_URL set?
    LocalDefs,      \* bound: the definitions sent to a process without database
    Roles           \* roles of callers

ASSUME DeploymentConstants ==
    /\ LocalDefs \subseteq ToolDefs /\ None \notin ToolDefs
    /\ \A role \in Roles : Entry(role)
    /\ \A f \in Filters : IsFiniteSet(f.tags)

VARIABLES
    backend,        \* the store of this process: "memory", "postgres" or, not
                    \* running, "down"; tools is its in-memory store
    written,        \* history: the definitions as they were sent to the table
    ledger          \* history: for each id what the clients' answers allow it
                    \* to hold, a definition or None

depVars == <<tools, rows, backend, written, ledger>>

\* The in-memory store that had executed the same statements.
M == INSTANCE Listing WITH tools <- written

IDs == {key(d) : d \in ToolDefs}

DepInit ==
    /\ StoreInit /\ PgInit
    /\ backend = "down"
    /\ written = <<>>
    /\ ledger = [id \in IDs |-> {None}]

\* Does the database open, answer a ping and let the process migrate it?  Each
\* of these may fail, the last in a race with another process's migration.
NewPostgres == BOOLEAN

\* Without a database, the store is an in-memory one.
Boot(opened) ==
    /\ backend = "down"
    /\ backend' = IF DatabaseURL /\ opened THEN "postgres" ELSE "memory"
    /\ tools' = <<>>
    /\ UNCHANGED <<rows, written, ledger>>

Crash ==
    /\ backend # "down"
    /\ backend' = "down"
    /\ tools' = <<>>
    /\ UNCHANGED <<rows, written, ledger>>

\* Requests to a process with an in-memory store.
MemoryRequest ==
    /\ backend = "memory"
    /\ \E d \in LocalDefs : Register(d) \/ Deregister(key(d))
    /\ UNCHANGED <<rows, backend, written, ledger>>

\* Register in a process with the database.
PgRegister(d, outcome) ==
    /\ outcome # "failed" => CanSave(d)
    /\ IF outcome = "failed" THEN UNCHANGED <<rows, written>>
       ELSE PgSaveTool(d) /\ M!SaveTool(d)
    /\ ledger' = [ledger EXCEPT ![key(d)] = IF outcome = "done" THEN {d} ELSE @ \cup {d}]
    /\ UNCHANGED <<tools, backend>>

\* Deregister, by the id of one of the tool's versions.
PgDeregister(d, outcome) ==
    LET id     == key(d)
        tenant == splitKeyTenant(id)
        name   == splitKeyName(id) IN
    /\ splitKeyOK(id)
    /\ IF outcome = "failed" THEN UNCHANGED <<rows, written>>
       ELSE PgDeleteTool(tenant, name) /\ M!DeleteTool(tenant, name)
    /\ ledger' = [k \in IDs |->
         IF splitKeyTenant(k) # tenant \/ splitKeyName(k) # name THEN ledger[k]
         ELSE IF outcome = "done" THEN {None} ELSE ledger[k] \cup {None}]
    /\ UNCHANGED <<tools, backend>>

DepNext ==
    \/ \E opened \in NewPostgres : Boot(opened)
    \/ Crash
    \/ MemoryRequest
    \/ \E d \in ToolDefs, outcome \in {"done", "failed", "unsure"} :
         PgRegister(d, outcome) \/ PgDeregister(d, outcome)

DepSpec == DepInit /\ [][DepNext]_depVars

-----------------------------------------------------------------------------
\* What clients were told holds: whichever statements failed or lost their
\* answer, and whoever crashed and restarted, each id in the table has a
\* content that the answers given for it allow, and no other id is disturbed.
AnswersReliable ==
    \A d \in ToolDefs : \E x \in ledger[key(d)] :
        PgGetTool(d.tenant, d.name, d.version) = IF x = None THEN {} ELSE {rowToTool(Row(x))}

Words(list) == \A e \in list : e.form \in {"lower", "mixed"}

Has(list, forms) == \E e \in list : e.form \in forms

\* Reading a definition back does not change who may use it: nobody is locked
\* out, unless an entry of its allow list is empty or has a blank or a comma in
\* it; and nobody is admitted who was not before, unless an entry is empty, has a
\* comma in it or blanks around it, or it has a blank in it and the caller's own
\* role comes in quotes.
PermissionsKept ==
    \A id \in DOMAIN rows, role \in Roles :
        LET sent == written[id]
            read == rowToTool(rows[id]) IN
        /\ ~Has(sent.rbac, {"blank", "joined", "empty"}) /\ Allow(sent, role) => Allow(read, role)
        /\ ~Has(sent.rbac, {"joined", "empty", "padded"}) /\ Allow(read, role)
           /\ (role.form = "quoted" => ~Has(sent.rbac, {"blank"})) => Allow(sent, role)

\* Does a filter mean the same to both stores?  One tag at most, and where it
\* occurs it is spelled as in the filter.
SameMeaning(f) ==
    /\ Cardinality(f.tags) <= 1
    /\ \A d \in Range(written) : \A h \in d.tags, w \in f.tags : h.base = w.base => h = w

\* Do the text order and the version order agree on the tool's versions?
OrdersAgree(tenant, name) ==
    \A d, e \in {d \in Range(written) : d.tenant = tenant /\ d.name = name} :
        TextAfter(d.version, e.version) <=> compareVersion(d.version, e.version) = 1

\* Clients cannot tell the stores apart, apart from the ways named above: after
\* the same statements, as long as tags and roles are words, PostgreSQL lists
\* what the in-memory store would list and finds the latest version it would.
BackendInvisible ==
    (\A d \in Range(written) : Words(d.tags) /\ Words(d.rbac)) =>
        \A d \in ToolDefs :
            /\ \A f \in Filters : SameMeaning(f) =>
                 PgListTools(d.tenant, f) = M!ListTools(d.tenant, f)
            /\ OrdersAgree(d.tenant, d.name) =>
                 PgGetLatestTool(d.tenant, d.name) = M!GetLatestTool(d.tenant, d.name)

\* "Stateless: No local state except for rebuildable cache, and can be scaled
\* horizontally": a process with a database finds what the others find.
StatelessReplicas ==
    DatabaseURL /\ backend = "memory" =>
        \A d \in ToolDefs : GetTool(d.tenant, d.name, d.version) # {}
                        <=> PgGetTool(d.tenant, d.name, d.version) # {}
=============================================================================
