------------------------------ MODULE Packages ------------------------------
(***************************************************************************)
(* The capability packages: the skills, rules and specs endpoints          *)
(* (handler.go), their use cases (service.go) and the store behind them,   *)
(* which Bootstrap chooses (main.go): the maps of the in-memory store      *)
(* (store.go) or, if a database is configured and answers, the tables of   *)
(* the PostgreSQL store (postgres.go).                                     *)
(*                                                                         *)
(* The three kinds differ only in their fields, so a package is            *)
(* [kind, id, tenant, name, version, content]; rules and specs have no     *)
(* version ("").  CreatedAt, which registering sets and listing returns,   *)
(* is left out.  A request reaches shared state once, in its store call,  *)
(* so it is one step; PostgreSQL is external, and a statement is atomic or *)
(* fails.  Strings that are joined with "/" are sequences of segments, as  *)
(* in Identifiers.                                                         *)
(***************************************************************************)
EXTENDS Identifiers, Functions

CONSTANTS
    Flags,      \* the kinds that FeatureFlags enables
    Requests,   \* [kind, method, caller, body, version]: caller is the tenant
                \* auth.Resolve gives, body the package as it was sent, version
                \* the query of a GET of skills
    None        \* no caller (auth fails) or no body (not JSON)

VARIABLES
    backend,    \* which store Bootstrap has chosen
    store,      \* the three maps or tables: from kind and key to package
    answer,     \* the last answer: [status, kind, shown]
    created     \* history: the packages answered "created", the last one of
                \* every kind, tenant, name and version

vars == <<backend, store, answer, created>>

Missing == <<"">>       \* the empty string

Init ==
    /\ backend \in {"memory", "postgres"}
    /\ store = <<>>
    /\ answer = [status |-> "none", kind |-> "skill", shown |-> {}]
    /\ created = {}

-----------------------------------------------------------------------------
(* registerSkill, registerRule and registerSpec up to the store call.      *)

DefaultTenant(b, caller) == IF b.tenant = Missing THEN [b EXCEPT !.tenant = caller] ELSE b

\* Mutant: the tenant is left out of the id.
DefaultIDWithoutTenant(p) ==
    IF p.id # Missing THEN p
    ELSE [p EXCEPT !.id = IF p.kind = "skill" THEN p.name \o <<p.version>> ELSE p.name]

DefaultID(p) ==
    IF p.id # Missing THEN p
    ELSE [p EXCEPT !.id = IF p.kind = "skill" THEN p.tenant \o p.name \o <<p.version>>
                          ELSE p.tenant \o p.name]

Valid(p) == p.name # Missing /\ p.tenant # Missing /\ (p.kind = "skill" => p.version # "")

Completed(r) == DefaultID(DefaultTenant(r.body, r.caller))

\* Why a request is refused, or None.
Refusal(r) ==
    IF r.kind \notin Flags THEN "disabled"
    ELSE IF r.method \notin {"POST", "GET"} THEN "method_not_allowed"
    ELSE IF r.caller = None THEN "unauthorized"
    ELSE IF r.method = "POST" /\ (r.body = None \/ ~Valid(DefaultTenant(r.body, r.caller)))
    THEN "invalid"
    ELSE None

\* A body is decoded into the type of its endpoint, and rules and specs have no
\* version.
ASSUME PackageFields ==
    \A r \in Requests : r.method = "POST" /\ Refusal(r) = None =>
        LET b == r.body IN
        /\ b = [kind |-> r.kind, id |-> b.id, tenant |-> b.tenant, name |-> b.name,
                version |-> b.version, content |-> b.content]
        /\ r.kind # "skill" => b.version = ""

-----------------------------------------------------------------------------
(* The stores.                                                             *)

\* Mutant: the name is not part of the key.
KeyWithoutName(p) ==
    <<p.kind>> \o (IF backend = "memory" THEN p.tenant \o <<p.version>> ELSE p.id)

\* A map of its kind holds a package under key(tenant, name, version), a table
\* has the id as its primary key.
Key(p) ==
    <<p.kind>> \o (IF backend = "memory" THEN ToolKey(p.tenant, p.name, p.version) ELSE p.id)

\* Mutant: DO NOTHING instead of DO UPDATE.
StoredKeeping(p) ==
    IF backend = "postgres" /\ Key(p) \in DOMAIN store THEN store[Key(p)] ELSE p

\* What is under p's key afterwards.  An assignment to the map replaces the
\* package; ON CONFLICT (id) DO UPDATE sets the content (manifest; policy_rego
\* and severity; agent_spec_ref) and leaves the rest of the row alone.
Stored(p) ==
    IF backend = "postgres" /\ Key(p) \in DOMAIN store
    THEN [store[Key(p)] EXCEPT !.content = p.content] ELSE p

\* SaveSkill, SaveRule, SaveSpec.
Save(p) ==
    store' = [k \in DOMAIN store \cup {Key(p)} |-> IF k = Key(p) THEN Stored(p) ELSE store[k]]

\* ListSkills, ListRules, ListSpecs as sets: sorted by name, which leaves the
\* order of a skill's versions open; version "" is no filter, and rules and
\* specs are not filtered.
Listed(kind, tenant, version) ==
    {p \in Range(store) : /\ p.kind = kind /\ p.tenant = tenant
                           /\ kind = "skill" => version \in {"", p.version}}

-----------------------------------------------------------------------------
Registrable ==
    {Completed(r) : r \in {r \in Requests : r.method = "POST" /\ Refusal(r) = None}}

L == INSTANCE Library WITH library <- Range(store), Packages <- Registrable

Answer(r, status, shown) ==
    /\ answer' = [status |-> status, kind |-> r.kind, shown |-> shown]
    /\ UNCHANGED backend

Refuse(r) ==
    /\ Refusal(r) # None
    /\ Answer(r, Refusal(r), {})
    /\ UNCHANGED <<store, created>>

Post(r) ==
    /\ r.method = "POST" /\ Refusal(r) = None
    /\ Save(Completed(r))
    /\ Answer(r, "created", {Completed(r)})
    /\ created' = {p \in created : ~L!SamePackage(p, Completed(r))} \cup {Completed(r)}

Get(r) ==
    /\ r.method = "GET" /\ Refusal(r) = None
    /\ Answer(r, "listed", Listed(r.kind, r.caller, r.version))
    /\ UNCHANGED <<store, created>>

\* The database fails: a write is answered with the error, a query that fails
\* like an empty one.
Fail(r) ==
    /\ backend = "postgres" /\ Refusal(r) = None
    /\ Answer(r, IF r.method = "POST" THEN "upstream_error" ELSE "listed", {})
    /\ UNCHANGED <<store, created>>

Next == \E r \in Requests : Refuse(r) \/ Post(r) \/ Get(r) \/ Fail(r)

Spec == Init /\ [][Next]_vars

-----------------------------------------------------------------------------
\* No client chooses an id or sends a tenant or a name with a slash in it.
PlainPackages ==
    \A r \in Requests : r.method = "POST" /\ Refusal(r) = None =>
        LET p == Completed(r) IN
        r.body.id = Missing /\ p.tenant = <<Head(p.tenant)>> /\ p.name = <<Head(p.name)>>

\* Either store implements the library: packages of different kinds, tenants,
\* names or versions never displace or change one another.
ImplementsLibrary == L!LibrarySpec

\* What was answered "created" is what its tenant finds from then on, among all
\* packages and among those of its version, whatever others register, until the
\* package is registered again.  (A query that fails shows nothing for once.)
CreatedIsListed ==
    \A p \in created : p \in Listed(p.kind, p.tenant, "") /\ p \in Listed(p.kind, p.tenant, p.version)
=============================================================================
