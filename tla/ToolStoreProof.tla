-------------------------- MODULE ToolStoreProof ----------------------------
(* The in-memory store implements the catalog when no identifier holds a   *)
(* slash, and its listings are what they promise, for every set of         *)
(* definitions, filters and names.                                         *)
EXTENDS Listing, Foundations, TLAPS

\* Without slashes the composite key determines tenant, name and version, and
\* splitKey recovers the first two.
LEMMA KeysWithoutSlashes ==
    ASSUME SlashFreeDefs, NEW d \in ToolDefs
    PROVE  /\ key(d) = <<Head(d.tenant), Head(d.name), d.version>>
           /\ splitKeyOK(key(d))
           /\ splitKeyTenant(key(d)) = d.tenant
           /\ splitKeyName(key(d)) = d.name
<1>1. PICK t, n : d.tenant = <<t>> /\ d.name = <<n>> /\ t = Head(d.tenant) /\ n = Head(d.name)
  BY DEF SlashFreeDefs
<1>2. key(d) = <<t, n, d.version>>
  BY <1>1, JoinThree DEF key, ToolKey
<1> QED BY <1>1, <1>2 DEF splitKeyOK, splitKeyTenant, splitKeyName

\* Two definitions share a key only if they are the same registration.
LEMMA KeyInjective ==
    ASSUME SlashFreeDefs, NEW d \in ToolDefs, NEW e \in ToolDefs
    PROVE  key(d) = key(e) <=> C!SameRecord(d, e)
<1>1. key(d) = <<Head(d.tenant), Head(d.name), d.version>>
  BY KeysWithoutSlashes
<1>2. key(e) = <<Head(e.tenant), Head(e.name), e.version>>
  BY KeysWithoutSlashes
<1>3. C!SameRecord(d, e) <=> /\ Head(d.tenant) = Head(e.tenant)
                             /\ Head(d.name) = Head(e.name) /\ d.version = e.version
  BY DEF SlashFreeDefs, C!SameRecord, C!SameTool
<1> QED BY <1>1, <1>2, <1>3
-----------------------------------------------------------------------------
\* What saving does to the map.
LEMMA SaveToolEffect ==
    ASSUME NEW d \in ToolDefs, SaveTool(d)
    PROVE  /\ DOMAIN tools' = DOMAIN tools \cup {key(d)}
           /\ tools'[key(d)] = d
           /\ \A k \in DOMAIN tools : k # key(d) => tools'[k] = tools[k]
           /\ tools' = [k \in DOMAIN tools' |-> tools'[k]]
BY DEF SaveTool

\* A deregistration deletes entries and changes none, whatever splitKey makes
\* of the id.
LEMMA DeregisterOnlyDeletes ==
    ASSUME NEW id, Deregister(id)
    PROVE  /\ DOMAIN tools' \subseteq DOMAIN tools
           /\ \A k \in DOMAIN tools' : tools'[k] = tools[k]
           /\ tools' = [k \in DOMAIN tools' |-> tools'[k]]
BY DEF Deregister, DeleteTool, Restrict

\* Saving and deregistering keep every entry under its own composite key, with
\* or without slashes, and the map finite.
LEMMA SaveKeepsTyped ==
    ASSUME StoreTypeOK, IsFiniteSet(DOMAIN tools), NEW d \in ToolDefs, SaveTool(d)
    PROVE  StoreTypeOK' /\ IsFiniteSet(DOMAIN tools')
<1>1. /\ DOMAIN tools' = DOMAIN tools \cup {key(d)} /\ tools'[key(d)] = d
      /\ \A k \in DOMAIN tools : k # key(d) => tools'[k] = tools[k]
      /\ tools' = [k \in DOMAIN tools' |-> tools'[k]]
  BY SaveToolEffect
<1>2. \A k \in DOMAIN tools' : tools'[k] \in ToolDefs /\ k = key(tools'[k])
  BY <1>1 DEF StoreTypeOK
<1>3. IsFiniteSet(DOMAIN tools')
  BY <1>1, FS_AddElement
<1> QED BY <1>1, <1>2, <1>3 DEF StoreTypeOK

LEMMA DeregisterKeepsTyped ==
    ASSUME StoreTypeOK, IsFiniteSet(DOMAIN tools), NEW id, Deregister(id)
    PROVE  StoreTypeOK' /\ IsFiniteSet(DOMAIN tools')
<1>1. /\ DOMAIN tools' \subseteq DOMAIN tools
      /\ \A k \in DOMAIN tools' : tools'[k] = tools[k]
      /\ tools' = [k \in DOMAIN tools' |-> tools'[k]]
  BY DeregisterOnlyDeletes
<1>2. \A k \in DOMAIN tools' : tools'[k] \in ToolDefs /\ k = key(tools'[k])
  BY <1>1 DEF StoreTypeOK
<1>3. IsFiniteSet(DOMAIN tools')
  BY <1>1, FS_Subset
<1> QED BY <1>1, <1>2, <1>3 DEF StoreTypeOK

LEMMA EmptyStoreTyped ==
    ASSUME StoreInit
    PROVE  StoreTypeOK /\ IsFiniteSet(DOMAIN tools)
<1>1. DOMAIN tools = {}
  BY DEF StoreInit
<1> QED BY <1>1, FS_EmptySet DEF StoreInit, StoreTypeOK

\* Both hold of every reachable store.
LEMMA StoreInvariant == StoreSpec => [](StoreTypeOK /\ IsFiniteSet(DOMAIN tools))
<1> DEFINE Inv == StoreTypeOK /\ IsFiniteSet(DOMAIN tools)
<1>1. StoreInit => Inv
  BY EmptyStoreTyped
<1>2. Inv /\ [StoreNext]_tools => Inv'
  <2> SUFFICES ASSUME Inv, [StoreNext]_tools PROVE Inv'
    OBVIOUS
  <2>1. ASSUME NEW d \in ToolDefs, Register(d) PROVE Inv'
    BY <2>1, SaveKeepsTyped DEF Register
  <2>2. ASSUME NEW d \in ToolDefs, Deregister(key(d)) PROVE Inv'
    BY <2>2, DeregisterKeepsTyped
  <2>3. CASE UNCHANGED tools
    BY <2>3 DEF StoreTypeOK
  <2> QED BY <2>1, <2>2, <2>3 DEF StoreNext
<1> QED BY <1>1, <1>2, PTL DEF StoreSpec

\* Every entry of the store is a definition under its own composite key.
THEOREM StoreTyped == StoreSpec => []StoreTypeOK
BY StoreInvariant, PTL

\* Saving is the catalog's registration when no definition holds a slash.
LEMMA SaveRegisters ==
    ASSUME SlashFreeDefs, StoreTypeOK, NEW d \in ToolDefs, SaveTool(d)
    PROVE  C!RegisterDef(d)
<1>1. /\ DOMAIN tools' = DOMAIN tools \cup {key(d)} /\ tools'[key(d)] = d
      /\ \A k \in DOMAIN tools : k # key(d) => tools'[k] = tools[k]
  BY SaveToolEffect
<1>2. \A k \in DOMAIN tools : k = key(d) <=> C!SameRecord(tools[k], d)
  BY KeyInjective DEF StoreTypeOK
<1>3. Range(tools)' = {e \in Range(tools) : ~C!SameRecord(e, d)} \cup {d}
  BY <1>1, <1>2 DEF Range
<1> QED BY <1>3 DEF C!RegisterDef

\* Whatever splitKey makes of an id, deregistering it removes all versions of
\* one registered tool and nothing else, or nothing at all.
LEMMA DeregisterRemovesATool ==
    ASSUME StoreTypeOK, NEW id, Deregister(id)
    PROVE  (\E d \in ToolDefs : C!DeregisterTool(d)) \/ UNCHANGED Range(tools)
<1> DEFINE t == splitKeyTenant(id)
           n == splitKeyName(id)
           E == Entries(t, n)
<1>1. /\ DOMAIN tools' = DOMAIN tools \ E
      /\ \A k \in DOMAIN tools' : tools'[k] = tools[k]
  BY DEF Deregister, DeleteTool, Restrict
<1>2. CASE E = {}
  BY <1>1, <1>2 DEF Range
<1>3. CASE E # {}
  <2>1. PICK k \in DOMAIN tools : tools[k].tenant = t /\ tools[k].name = n
    BY <1>3 DEF Entries
  <2>2. tools[k] \in ToolDefs
    BY DEF StoreTypeOK
  <2>3. E = {j \in DOMAIN tools : C!SameTool(tools[j], tools[k])}
    BY <2>1 DEF Entries, C!SameTool
  <2>4. Range(tools)' = {e \in Range(tools) : ~C!SameTool(e, tools[k])}
    BY <1>1, <2>3 DEF Range
  <2>5. C!DeregisterTool(tools[k])
    BY <2>4 DEF C!DeregisterTool
  <2> QED BY <2>2, <2>5
<1> QED BY <1>2, <1>3

\* The in-memory store implements the catalog of (tenant, name, version) when
\* no tenant and no name holds a slash.
THEOREM StoreImplementsCatalog ==
    ASSUME SlashFreeDefs
    PROVE  StoreSpec => ImplementsCatalog
<1>1. StoreInit => C!CatalogInit
  BY DEF StoreInit, C!CatalogInit, Range
<1>2. StoreTypeOK /\ [StoreNext]_tools => [C!CatalogNext]_(Range(tools))
  <2> SUFFICES ASSUME StoreTypeOK, [StoreNext]_tools
               PROVE  [C!CatalogNext]_(Range(tools))
    OBVIOUS
  <2>1. ASSUME NEW d \in ToolDefs, Register(d) PROVE C!RegisterDef(d)
    BY <2>1, SaveRegisters DEF Register
  <2>2. ASSUME NEW d \in ToolDefs, Deregister(key(d)) PROVE [C!CatalogNext]_(Range(tools))
    BY <2>2, DeregisterRemovesATool DEF C!CatalogNext
  <2>3. CASE UNCHANGED tools
    BY <2>3 DEF Range
  <2> QED BY <2>1, <2>2, <2>3 DEF StoreNext, C!CatalogNext
<1> QED BY <1>1, <1>2, StoreTyped, PTL DEF StoreSpec, ImplementsCatalog, C!CatalogSpec

\* Without slashes the id Register answered with leads Deregister back to the
\* registration.
THEOREM StoreIdsLeadBack ==
    ASSUME SlashFreeDefs
    PROVE  StoreSpec => []IdsLeadBack
<1>1. StoreTypeOK => IdsLeadBack
  BY KeysWithoutSlashes DEF StoreTypeOK, IdsLeadBack, Entries
<1> QED BY <1>1, StoreTyped, PTL

-----------------------------------------------------------------------------
(* Listings.                                                               *)

Matching(tenant, f) == {d \in Range(tools) : Matches(d, tenant, f)}

\* s is a sorted enumeration of S, cut at the limit.
CutOf(s, e, S, limit) ==
    /\ e \in Seq(S) /\ Len(e) \in Nat /\ DOMAIN e = 1..Len(e) /\ ToSet(e) = S
    /\ Sorted(e) /\ s = Cut(e, limit)

LEMMA ListingIsCut ==
    ASSUME StoreTypeOK, IsFiniteSet(DOMAIN tools), NEW tenant, NEW f, NEW s \in ListTools(tenant, f)
    PROVE  \E e : CutOf(s, e, Matching(tenant, f), f.limit)
<1> DEFINE M == Matching(tenant, f)
<1>1. IsFiniteSet(M)
  <2>1. tools = [k \in DOMAIN tools |-> tools[k]]
    BY DEF StoreTypeOK
  <2>2. IsFiniteSet(Range(tools))
    BY <2>1, RangeFinite DEF Range
  <2> QED BY <2>2, FS_Subset DEF Matching
<1>2. PICK e \in SetToSeqs(M) : Sorted(e) /\ s = Cut(e, f.limit)
  BY DEF ListTools, Matching
<1> HIDE DEF M
<1>3. e \in Seq(M) /\ Len(e) \in Nat /\ DOMAIN e = 1..Len(e) /\ ToSet(e) = M
  BY <1>1, Enumeration
<1>4. CutOf(s, e, M, f.limit)
  BY <1>2, <1>3 DEF CutOf
<1> QED BY <1>4 DEF M

\* The two cases of a cut: nothing is left out, or the rest behind the limit.
LEMMA CutCases ==
    ASSUME NEW S, NEW e \in Seq(S), NEW limit \in Int
    PROVE  \/ Cut(e, limit) = e
           \/ /\ limit \in Nat /\ limit < Len(e)
              /\ Len(Cut(e, limit)) = limit /\ DOMAIN Cut(e, limit) = 1..limit
              /\ \A i \in 1..limit : Cut(e, limit)[i] = e[i]
<1>1. Len(e) \in Nat
  OBVIOUS
<1>2. CASE limit > 0 /\ Len(e) > limit
  <2>1. Cut(e, limit) = SubSeq(e, 1, limit)
    BY <1>2 DEF Cut
  <2>2. /\ SubSeq(e, 1, limit) \in Seq(S) /\ Len(SubSeq(e, 1, limit)) = limit
        /\ \A i \in 1..limit : SubSeq(e, 1, limit)[i] = e[i]
    BY <1>1, <1>2
  <2> QED BY <1>1, <1>2, <2>1, <2>2
<1>3. CASE ~(limit > 0 /\ Len(e) > limit)
  BY <1>3 DEF Cut
<1> QED BY <1>2, <1>3

LEMMA CutTyped ==
    ASSUME NEW S, NEW e \in Seq(S), NEW limit \in Int
    PROVE  Cut(e, limit) \in Seq(S)
BY DEF Cut

\* A listing shows registered definitions that match, and nothing else.
LEMMA ListingEntries ==
    ASSUME StoreTypeOK, IsFiniteSet(DOMAIN tools), NEW tenant, NEW f, f.limit \in Int,
           NEW s \in ListTools(tenant, f)
    PROVE  s \in Seq(Matching(tenant, f))
<1>1. PICK e : CutOf(s, e, Matching(tenant, f), f.limit)
  BY ListingIsCut
<1> DEFINE M == Matching(tenant, f)
<1>2. e \in Seq(M) /\ s = Cut(e, f.limit)
  BY <1>1 DEF CutOf
<1> HIDE DEF M
<1>3. s \in Seq(M)
  BY <1>2, CutTyped
<1> QED BY <1>3 DEF M

\* A listing cut at its limit leaves out only what comes behind what it shows,
\* whatever order the map is ranged over in and sort.Slice leaves names in.
THEOREM ListingCutHidesOnlyLater == StoreSpec => []CutHidesOnlyLater
<1>1. StoreTypeOK /\ IsFiniteSet(DOMAIN tools) => CutHidesOnlyLater
  <2> SUFFICES ASSUME StoreTypeOK, IsFiniteSet(DOMAIN tools), NEW d \in ToolDefs, NEW f \in Filters,
                      NEW s \in ListTools(d.tenant, f),
                      d \in Range(tools), Matches(d, d.tenant, f), d \notin ToSet(s)
               PROVE  Len(s) = f.limit /\ \A i \in DOMAIN s : ~Before(d.name, s[i].name)
    BY DEF CutHidesOnlyLater
  <2> DEFINE M == Matching(d.tenant, f)
  <2>1. PICK e : CutOf(s, e, M, f.limit)
    BY ListingIsCut
  <2>2. d \in M
    BY DEF Matching
  <2> HIDE DEF M
  <2>3. e \in Seq(M) /\ DOMAIN e = 1..Len(e) /\ Len(e) \in Nat /\ ToSet(e) = M /\ Sorted(e)
        /\ s = Cut(e, f.limit)
    BY <2>1 DEF CutOf
  <2>4. f.limit \in Int
    BY FilterLimits
  <2>5. s # e
    BY <2>2, <2>3
  <2>6. /\ f.limit \in Nat /\ f.limit < Len(e)
        /\ Len(s) = f.limit /\ DOMAIN s = 1..f.limit
        /\ \A i \in 1..f.limit : s[i] = e[i]
    BY <2>3, <2>4, <2>5, CutCases
  <2>7. PICK p \in 1..Len(e) : e[p] = d
    BY <2>2, <2>3 DEF ToSet
  <2>8. p > f.limit
    <3>1. p \notin 1..f.limit
      BY <2>6, <2>7 DEF ToSet
    <3> QED BY <2>3, <2>6, <3>1
  <2>9. ASSUME NEW i \in DOMAIN s PROVE ~Before(d.name, s[i].name)
    <3>1. i \in DOMAIN e /\ s[i] = e[i] /\ p \in DOMAIN e /\ ~(p < i)
      BY <2>3, <2>6, <2>8
    <3> QED BY <2>3, <2>7, <3>1 DEF Sorted
  <2> QED BY <2>6, <2>9
<1> QED BY <1>1, StoreInvariant, PTL

\* A name is listed just when resolving it finds a version, and the version it
\* finds is listed: compareVersion never leaves a tool without a latest one.
THEOREM ListingListedIffResolvable == StoreSpec => []ListedIffResolvable
<1>1. StoreTypeOK /\ IsFiniteSet(DOMAIN tools) => ListedIffResolvable
  <2> DEFINE f == [kind |-> "", tags |-> {}, limit |-> 0]
  <2> SUFFICES ASSUME StoreTypeOK, IsFiniteSet(DOMAIN tools), NEW d \in ToolDefs,
                      NEW s \in ListTools(d.tenant, f)
               PROVE  LET shown == {e \in ToSet(s) : e.name = d.name}
                          latest == GetLatestTool(d.tenant, d.name)
                      IN latest \subseteq shown /\ (shown # {} => latest # {})
    BY DEF ListedIffResolvable
  <2> DEFINE S == {tools[k] : k \in Entries(d.tenant, d.name)}
             latest == GetLatestTool(d.tenant, d.name)
             shown == {e \in ToSet(s) : e.name = d.name}
  <2>1. \A e : Matches(e, d.tenant, f) <=> e.tenant = d.tenant
    BY DEF Matches
  <2>2. ToSet(s) = {e \in Range(tools) : e.tenant = d.tenant}
    <3>1. f.limit = 0
      OBVIOUS
    <3> HIDE DEF f
    <3>2. PICK e : CutOf(s, e, Matching(d.tenant, f), f.limit)
      BY ListingIsCut
    <3>3. s = e
      BY <3>1, <3>2 DEF CutOf, Cut
    <3> QED BY <2>1, <3>2, <3>3 DEF CutOf, Matching
  <2>3. shown = S
    BY <2>2 DEF Entries, Range
  <2>4. latest \subseteq S
    BY DEF GetLatestTool
  <2>5. S # {} => latest # {}
    <3> SUFFICES ASSUME S # {} PROVE latest # {}
      OBVIOUS
    <3> DEFINE E == Entries(d.tenant, d.name)
               g == [k \in E |-> tools[k].version]
               W == {g[k] : k \in E}
    <3>1. IsFiniteSet(W)
      <4>1. IsFiniteSet(E)
        BY FS_Subset DEF Entries
      <4>2. DOMAIN g = E /\ g = [k \in E |-> g[k]]
        OBVIOUS
      <4> HIDE DEF g, E
      <4> QED BY <4>1, <4>2, RangeFinite
    <3>2. W # {} /\ \A w \in W : IsVersion(w)
      BY VersionedDefs DEF Entries, StoreTypeOK
    <3> HIDE DEF W
    <3>3. PICK v \in W : \A w \in W : compareVersion(w, v) <= 0
      BY <3>1, <3>2, LatestExists
    <3>4. PICK k \in E : v = tools[k].version
      BY DEF W
    <3>5. \A e \in S : compareVersion(e.version, tools[k].version) <= 0
      BY <3>3, <3>4 DEF W
    <3> QED BY <3>4, <3>5 DEF GetLatestTool
  <2> HIDE DEF S, latest, shown
  <2>6. latest \subseteq shown /\ (shown # {} => latest # {})
    BY <2>3, <2>4, <2>5
  <2> QED BY <2>6 DEF latest, shown
<1> QED BY <1>1, StoreInvariant, PTL
=============================================================================
