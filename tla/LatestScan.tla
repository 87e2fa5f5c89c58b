----------------------------- MODULE LatestScan -----------------------------
(***************************************************************************)
(* The loop of InMemory.GetLatestTool (store.go): it ranges over the tools *)
(* map, whose order Go leaves open, and keeps the best version seen.  The  *)
(* loop runs under RLock, so the map does not change meanwhile.            *)
(*                                                                         *)
(* The map entries of one tenant and name are represented by their         *)
(* versions; entries of other tools are skipped by the loop's continue.    *)
(* Register refuses the empty version, so bestV = "" only means that       *)
(* nothing has been found yet.                                             *)
(***************************************************************************)
EXTENDS Versions

CONSTANTS
    VersionSet,     \* the versions a tool may be registered under
    NoVersion       \* bestV = "", found = false

ASSUME VersionsAreVersions == \A v \in VersionSet : IsVersion(v)
ASSUME NoVersionIsNone     == NoVersion \notin VersionSet

VARIABLES
    todo,       \* versions the range has not reached yet
    done,       \* versions it has visited
    bestV       \* the best one so far

vars == <<todo, done, bestV>>

Init ==
    /\ todo \in SUBSET VersionSet
    /\ done = {}
    /\ bestV = NoVersion

\* Mutant: compares in the wrong direction.
VisitKeepingLowest(v) ==
    /\ todo' = todo \ {v}
    /\ done' = done \cup {v}
    /\ bestV' = IF bestV = NoVersion THEN v
                ELSE IF compareVersion(bestV, v) > 0 THEN v ELSE bestV

\* One iteration; the range may produce any entry next.
Visit(v) ==
    /\ todo' = todo \ {v}
    /\ done' = done \cup {v}
    /\ bestV' = IF bestV = NoVersion THEN v
                ELSE IF compareVersion(v, bestV) > 0 THEN v ELSE bestV

Next == \E v \in todo : Visit(v)

Spec == Init /\ [][Next]_vars

-----------------------------------------------------------------------------
\* The scan only moves versions from todo to done.
TypeOK ==
    /\ todo \in SUBSET VersionSet /\ done \in SUBSET VersionSet
    /\ todo \cap done = {}
    /\ bestV \in VersionSet \cup {NoVersion}

\* What GetLatestTool promises: a version none of S is above.  Versions that
\* compare equal ("1.0" and "1.0.0") are all latest.
Latest(S) == {v \in S : \A w \in S : compareVersion(w, v) <= 0}

\* Whatever order the map is ranged over, the best so far is a latest version
\* of those visited, and something has been found once anything was visited.
ScanKeepsLatest ==
    IF done = {} THEN bestV = NoVersion ELSE bestV \in Latest(done)
=============================================================================
