------------------------------ MODULE Library -------------------------------
(***************************************************************************)
(* What the registry promises of its capability packages: one package per  *)
(* kind, tenant, name and version (SPECS.md §8.3 gives these as the        *)
(* primary keys of skills, rules and specs), never removed, and touched by *)
(* no other one.  Whether it can be registered anew is left open: DESIGN.md*)
(* §5.4 says of skills "name+version for immutable storage", while both    *)
(* stores replace the content.                                             *)
(***************************************************************************)
CONSTANT Packages   \* the packages that can be registered

VARIABLE library    \* the set of registered packages

SamePackage(p, q) ==
    p.kind = q.kind /\ p.tenant = q.tenant /\ p.name = q.name /\ p.version = q.version

LibraryInit == library = {}

\* Of p and a package registered before it one is kept.
Shelve(p) ==
    \E kept \in {p} \cup {q \in library : SamePackage(p, q)} :
        library' = {q \in library : ~SamePackage(p, q)} \cup {kept}

LibrarySpec == LibraryInit /\ [][\E p \in Packages : Shelve(p)]_library
=============================================================================
