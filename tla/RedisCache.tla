----------------------------- MODULE RedisCache -----------------------------
(***************************************************************************)
(* The Redis cache of tool definitions (infrastructure/store/              *)
(* redis_cache.go).  Bootstrap builds one and drops it, so that SetTool,   *)
(* GetTool and DeleteTool are modelled for callers still to come.          *)
(*                                                                         *)
(* Redis serves its clients' commands one at a time.  DeleteTool is a SCAN *)
(* for the tool's keys with one DEL per key found, and commands of others  *)
(* come between.  SCAN promises to return the keys that are there all the  *)
(* time it runs; of keys that come and go it may return any.  Errors of    *)
(* SCAN and DEL are not looked at.                                         *)
(*                                                                         *)
(* A string is the sequence of its ":"-separated segments, so that joining *)
(* with ":" is concatenation.  Glob characters are left out.               *)
(***************************************************************************)
EXTENDS Functions, SequencesExt

CONSTANTS
    CacheDefs,  \* the definitions cached: [tenant, name, version, ...]
    NoTool      \* no DeleteTool under way

\* A string has one segment at least.
ASSUME CacheFields ==
    \A d \in CacheDefs : \A s \in {d.tenant, d.name, d.version} : s \in Seq(ToSet(s)) /\ Len(s) > 0

VARIABLES
    cache,      \* Redis: from key to definition
    deleting,   \* the [tenant, name] of the DeleteTool under way
    due,        \* keys its SCAN still has to return
    old,        \* history: keys of the tool untouched since DeleteTool began
    faults      \* history: has one of its commands failed?

cacheVars == <<cache, deleting, due, old, faults>>

\* Mutant: the tenant is left out.
cacheKeyOfAnyTenant(tenant, name, version) == name \o version

cacheKey(tenant, name, version) == tenant \o name \o version

KeyOf(d) == cacheKey(d.tenant, d.name, d.version)

\* The keys that match tenant:name:*, behind the common prefix.
KeysOf(t) == {k \in DOMAIN cache : IsStrictPrefix(t.tenant \o t.name, k)}

CacheInit ==
    /\ cache = <<>>
    /\ deleting = NoTool /\ due = {} /\ old = {} /\ faults = FALSE

\* SetTool, which fails or takes effect.
SetCached(d) ==
    /\ cache' = [k \in DOMAIN cache \cup {KeyOf(d)} |-> IF k = KeyOf(d) THEN d ELSE cache[k]]
    /\ old' = old \ {KeyOf(d)}
    /\ UNCHANGED <<deleting, due, faults>>

\* GetTool: {} for not cached and for every error.
GetCached(tenant, name, version) ==
    LET k == cacheKey(tenant, name, version) IN
    IF k \in DOMAIN cache THEN {cache[k]} ELSE {}

Forget(k) == cache' = Restrict(cache, DOMAIN cache \ {k}) /\ old' = old \ {k} /\ due' = due \ {k}

\* An entry lives for five minutes.
Expire(k) == Forget(k) /\ UNCHANGED <<deleting, faults>>

DeleteBegin(t) ==
    /\ deleting = NoTool
    /\ deleting' = t
    /\ due' = KeysOf(t) /\ old' = KeysOf(t) /\ faults' = FALSE
    /\ UNCHANGED cache

\* SCAN returns k; its DEL succeeds or fails.
DeleteKey(k, ok) ==
    /\ deleting # NoTool /\ k \in KeysOf(deleting)
    /\ IF ok THEN Forget(k) ELSE due' = due \ {k} /\ UNCHANGED <<cache, old>>
    /\ faults' = (faults \/ ~ok)
    /\ UNCHANGED deleting

\* Mutant: only the first page of the SCAN is read.
DeleteEndFirstPage(ok) ==
    /\ deleting # NoTool
    /\ deleting' = NoTool /\ due' = {} /\ old' = {} /\ faults' = FALSE
    /\ UNCHANGED cache

\* The iterator is at its end, or ended early by an error of SCAN.  The answer
\* is nil either way.
DeleteEnd(ok) ==
    /\ deleting # NoTool /\ (ok => due = {})
    /\ deleting' = NoTool /\ due' = {} /\ old' = {} /\ faults' = FALSE
    /\ UNCHANGED cache

CacheNext ==
    \/ \E d \in CacheDefs : SetCached(d) \/ DeleteBegin([tenant |-> d.tenant, name |-> d.name])
    \/ \E k \in DOMAIN cache : Expire(k) \/ \E ok \in BOOLEAN : DeleteKey(k, ok)
    \/ \E ok \in BOOLEAN : DeleteEnd(ok)

CacheSpec == CacheInit /\ [][CacheNext]_cacheVars

-----------------------------------------------------------------------------
\* A hit for a tenant, name and version without colons is the definition asked
\* for, whatever keys others with colons in theirs produce.  (With a colon in
\* any of the three it may be another's: acme:sql:x:1 has several readers.)
CacheServesOwn ==
    \A d \in CacheDefs : Len(d.tenant) = 1 /\ Len(d.name) = 1 /\ Len(d.version) = 1 =>
        \A e \in GetCached(d.tenant, d.name, d.version) :
            e.tenant = d.tenant /\ e.name = d.name /\ e.version = d.version

\* "Delete all versions by scanning": when DeleteTool comes to its end and no
\* command of it has failed, nothing that was cached for the tool when it began
\* is left, although others set and expire keys meanwhile.
DeleteForgets ==
    [][\A ok \in BOOLEAN : ok /\ ~faults /\ DeleteEnd(ok) => old = {}]_cacheVars
=============================================================================
