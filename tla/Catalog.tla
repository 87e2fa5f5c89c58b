------------------------------ MODULE Catalog -------------------------------
(***************************************************************************)
(* What the tool registry promises of its registrations, independently of  *)
(* how they are stored: at most one definition per tenant, name and        *)
(* version; registering touches exactly that one; deregistering a name     *)
(* removes all its versions for the tenant and nothing else.  The schema   *)
(* of SPECS.md §8.2 states the same as PRIMARY KEY (tenant_id, name,       *)
(* version), README.md as "Deregister a tool (all versions)".              *)
(*                                                                         *)
(* Whether a version that is there already can be registered anew is left  *)
(* open: ARCH.md §6.4 says "name+version immutable storage", while both    *)
(* stores replace the definition.                                          *)
(***************************************************************************)
CONSTANT ToolDefs   \* the definitions that can be registered

VARIABLE catalog    \* the set of registered definitions

SameTool(d, e)   == d.tenant = e.tenant /\ d.name = e.name
SameRecord(d, e) == SameTool(d, e) /\ d.version = e.version

CatalogInit == catalog = {}

\* Of d and a definition registered before it one is kept.
RegisterDef(d) ==
    \E kept \in {d} \cup {e \in catalog : SameRecord(e, d)} :
        catalog' = {e \in catalog : ~SameRecord(e, d)} \cup {kept}

\* Deregisters the tool that d is a version of.
DeregisterTool(d) == catalog' = {e \in catalog : ~SameTool(e, d)}

CatalogNext == \E d \in ToolDefs : RegisterDef(d) \/ DeregisterTool(d)

CatalogSpec == CatalogInit /\ [][CatalogNext]_catalog
=============================================================================
