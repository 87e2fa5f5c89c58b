------------------------------- MODULE Listing ------------------------------
(***************************************************************************)
(* GET /v1/tools: InMemory.ListTools (store.go), one critical section.     *)
(*                                                                         *)
(* The code collects the matching entries in the map's order, which Go     *)
(* leaves open, sorts them by name alone and cuts the result at the limit. *)
(* sort.Slice is not stable, so that any order of the versions of a name   *)
(* is possible: ListTools is the set of answers it may give.               *)
(*                                                                         *)
(* A tag is [base, form] as a role is in Access: EqualFold compares bases. *)
(***************************************************************************)
EXTENDS ToolStore, SequencesExt

CONSTANT Before(_, _)   \* Go's < on tool names

hasAnyTag(have, want) == \E h \in have, w \in want : h.base = w.base

\* A filter is [kind, tags, limit]; "", {} and 0 (or less) mean no filter.
Matches(d, tenant, filter) ==
    /\ d.tenant = tenant
    /\ filter.kind \in {"", d.kind}
    /\ filter.tags = {} \/ hasAnyTag(d.tags, filter.tags)

Sorted(s) == \A i, j \in DOMAIN s : Before(s[i].name, s[j].name) => i < j

Cut(s, limit) == IF limit > 0 /\ Len(s) > limit THEN SubSeq(s, 1, limit) ELSE s

\* Mutant: the limit is applied before the sort.
ListToolsCutFirst(tenant, filter) ==
    LET matching == {d \in Range(tools) : Matches(d, tenant, filter)}
        some == {Cut(s, filter.limit) : s \in SetToSeqs(matching)}
    IN {s \in UNION {SetToSeqs(ToSet(c)) : c \in some} : Sorted(s)}

ListTools(tenant, filter) ==
    LET matching == {d \in Range(tools) : Matches(d, tenant, filter)}
    IN {Cut(s, filter.limit) : s \in {s \in SetToSeqs(matching) : Sorted(s)}}

-----------------------------------------------------------------------------
CONSTANT Filters    \* the filters clients may ask for

ASSUME FilterLimits == \A f \in Filters : f.limit \in Int

\* A listing cut at its limit hides no tool behind a later name: what matches
\* and is not shown comes after everything shown, and the limit is used up.
CutHidesOnlyLater ==
    \A d \in ToolDefs, f \in Filters : \A s \in ListTools(d.tenant, f) :
        d \in Range(tools) /\ Matches(d, d.tenant, f) /\ d \notin ToSet(s) =>
            /\ Len(s) = f.limit
            /\ \A i \in DOMAIN s : ~Before(d.name, s[i].name)

\* Listing and resolving agree: without a filter a tenant is shown a name just
\* when resolving that name finds a version, and it is shown that version.
ListedIffResolvable ==
    \A d \in ToolDefs :
        \A s \in ListTools(d.tenant, [kind |-> "", tags |-> {}, limit |-> 0]) :
            LET shown == {e \in ToSet(s) : e.name = d.name}
                latest == GetLatestTool(d.tenant, d.name)
            IN latest \subseteq shown /\ (shown # {} => latest # {})
=============================================================================
