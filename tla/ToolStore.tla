----------------------------- MODULE ToolStore ------------------------------
(***************************************************************************)
(* The tools of the in-memory store (infrastructure/store/store.go) under  *)
(* the registration half of the ToolRegistry SPI (service.go Register and  *)
(* Deregister).  Every store method is one critical section of m.mu.       *)
(***************************************************************************)
EXTENDS Identifiers, Versions, Functions

CONSTANT ToolDefs   \* the ToolDefinitions that pass Register's checks

ASSUME VersionedDefs == \A d \in ToolDefs : IsVersion(d.version)

VARIABLE tools      \* m.tools: from composite key to definition

StoreInit == tools = <<>>

key(d) == ToolKey(d.tenant, d.name, d.version)

\* Mutant: the version is left out of the key.
SaveToolUnversioned(d) ==
    tools' = [k \in DOMAIN tools \cup {d.tenant \o d.name} |->
                IF k = d.tenant \o d.name THEN d ELSE tools[k]]

SaveTool(d) ==
    tools' = [k \in DOMAIN tools \cup {key(d)} |-> IF k = key(d) THEN d ELSE tools[k]]

GetTool(tenant, name, version) ==
    LET k == ToolKey(tenant, name, version) IN
    IF k \in DOMAIN tools THEN {tools[k]} ELSE {}

\* Mutant: the tenant is not compared.
EntriesOfAnyTenant(tenant, name) == {k \in DOMAIN tools : tools[k].name = name}

Entries(tenant, name) ==
    {k \in DOMAIN tools : tools[k].tenant = tenant /\ tools[k].name = name}

\* The definitions GetLatestTool may return: more than one when versions
\* compare equal, for the scan keeps the first it meets, none when not found.
GetLatestTool(tenant, name) ==
    LET S == {tools[k] : k \in Entries(tenant, name)} IN
    {d \in S : \A e \in S : compareVersion(e.version, d.version) <= 0}

\* Mutant: deletes the name for every tenant.
DeleteToolOfAnyTenant(tenant, name) ==
    tools' = Restrict(tools, {k \in DOMAIN tools : tools[k].name # name})

\* Deletes every version; never fails.
DeleteTool(tenant, name) == tools' = Restrict(tools, DOMAIN tools \ Entries(tenant, name))

\* Register, past its checks: save the definition, answer with its ToolID.
Register(d) == SaveTool(d)

\* Deregister by ToolID: what splitKey makes of the id is deleted.
Deregister(id) ==
    /\ splitKeyOK(id)
    /\ DeleteTool(splitKeyTenant(id), splitKeyName(id))

\* The SPI's callers deregister by the id that Register answered with.
StoreNext == \E d \in ToolDefs : Register(d) \/ Deregister(key(d))

StoreSpec == StoreInit /\ [][StoreNext]_tools

-----------------------------------------------------------------------------
\* Every entry is a definition stored under its own composite key.
StoreTypeOK ==
    /\ tools \in [DOMAIN tools -> ToolDefs]
    /\ \A k \in DOMAIN tools : k = key(tools[k])

\* No tenant or name holds a slash.
SlashFreeDefs ==
    \A d \in ToolDefs : d.tenant = <<Head(d.tenant)>> /\ d.name = <<Head(d.name)>>

C == INSTANCE Catalog WITH catalog <- Range(tools)

\* The store with its composite string keys implements the catalog keyed by
\* tenant, name and version: no save displaces another tool's registration and
\* no deregistration removes or leaves more than the tool's own versions.
ImplementsCatalog == C!CatalogSpec

\* "ToolID uniquely identifies a tenant-scoped tool registration": saving a
\* definition never displaces one of another tenant, name or version.
RegistrationsKeepApart ==
    [][\A e \in Range(tools) \ Range(tools)' :
         (\E d \in ToolDefs : Register(d)) =>
            \E d \in Range(tools)' : C!SameRecord(d, e)]_tools

\* "Deregister removes a tool by its composite ToolID": the id that Register
\* answered with leads Deregister back to the entry it names.
IdsLeadBack ==
    \A id \in DOMAIN tools : splitKeyOK(id) /\ id \in Entries(splitKeyTenant(id), splitKeyName(id))
=============================================================================
