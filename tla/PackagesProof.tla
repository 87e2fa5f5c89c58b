--------------------------- MODULE PackagesProof ----------------------------
(* The capability packages, for every set of packages, callers and kinds,  *)
(* and the cache of tool definitions, for every set of definitions.        *)
EXTENDS Packages, RedisCache, Foundations, TLAPS

-----------------------------------------------------------------------------
(* What a registration hands to the store.                                 *)

OwnID(p) == IF p.kind = "skill" THEN p.tenant \o p.name \o <<p.version>> ELSE p.tenant \o p.name

\* A package all of whose fields but the content follow from kind, tenant, name
\* and version.
Plain(p) ==
    /\ p = [kind |-> p.kind, id |-> p.id, tenant |-> p.tenant, name |-> p.name,
            version |-> p.version, content |-> p.content]
    /\ p.id = OwnID(p)
    /\ p.tenant = <<Head(p.tenant)>> /\ p.name = <<Head(p.name)>>
    /\ p.kind # "skill" => p.version = ""

\* The defaults of the handlers make a package plain if its client leaves the
\* id to them.
LEMMA CompletedPlain ==
    ASSUME PlainPackages, NEW r \in Requests, r.method = "POST", Refusal(r) = None
    PROVE  Plain(Completed(r)) /\ Completed(r) \in Registrable
<1> DEFINE b == r.body
           q == DefaultTenant(b, r.caller)
           p == DefaultID(q)
<1>1. /\ b = [kind |-> r.kind, id |-> b.id, tenant |-> b.tenant, name |-> b.name,
              version |-> b.version, content |-> b.content]
      /\ r.kind # "skill" => b.version = ""
  BY PackageFields
<1>2. /\ b.id = Missing /\ p.tenant = <<Head(p.tenant)>> /\ p.name = <<Head(p.name)>>
  BY DEF PlainPackages, Completed
<1> HIDE DEF b
<1>3. /\ q = [kind |-> r.kind, id |-> b.id, tenant |-> q.tenant, name |-> b.name,
              version |-> b.version, content |-> b.content]
  <2>1. CASE b.tenant = Missing
    <3>1. q = [b EXCEPT !.tenant = r.caller]
      BY <2>1 DEF DefaultTenant
    <3> HIDE DEF q
    <3>2. PICK i, t, n, v, c : b = [kind |-> r.kind, id |-> i, tenant |-> t, name |-> n,
                                    version |-> v, content |-> c]
      BY <1>1, Zenon
    <3>3. q = [kind |-> r.kind, id |-> i, tenant |-> r.caller, name |-> n,
               version |-> v, content |-> c]
      BY <3>1, <3>2
    <3> QED BY <3>2, <3>3
  <2>2. CASE b.tenant # Missing
    BY <1>1, <2>2 DEF DefaultTenant
  <2> QED BY <2>1, <2>2
<1>4. q.kind = r.kind /\ q.id = b.id /\ q.name = b.name /\ q.version = b.version /\ q.content = b.content
  BY <1>3
<1> HIDE DEF q
<1>5. p = [kind |-> r.kind, id |-> OwnID(q), tenant |-> q.tenant, name |-> q.name,
           version |-> q.version, content |-> q.content]
  BY <1>2, <1>3, <1>4 DEF DefaultID, OwnID
<1> HIDE DEF p
<1>6. /\ p.kind = r.kind /\ p.id = OwnID(q) /\ p.tenant = q.tenant /\ p.name = q.name
      /\ p.version = q.version /\ p.content = q.content
  BY <1>5
<1>7. OwnID(p) = OwnID(q)
  BY <1>4, <1>6 DEF OwnID
<1>8. Plain(p)
  BY <1>1, <1>2, <1>4, <1>5, <1>6, <1>7 DEF Plain
<1>9. p = Completed(r)
  BY DEF p, q, b, Completed
<1> QED BY <1>8, <1>9 DEF Registrable

\* Joining the kind, the tenant and the name, and the version if there is one.
LEMMA JoinTwo ==
    ASSUME NEW t, NEW n
    PROVE  <<t>> \o <<n>> = <<t, n>>
<1> DEFINE S == {t, n}
           a == <<t>>
           c == <<n>>
           e == <<t, n>>
<1>1. /\ a \in Seq(S) /\ Len(a) = 1 /\ a[1] = t
      /\ c \in Seq(S) /\ Len(c) = 1 /\ c[1] = n
      /\ e \in Seq(S) /\ Len(e) = 2 /\ e[1] = t /\ e[2] = n
  OBVIOUS
<1> HIDE DEF S, a, c, e
<1>2. /\ a \o c \in Seq(S) /\ Len(a \o c) = 2
      /\ \A i \in 1..2 : (a \o c)[i] = IF i <= 1 THEN a[i] ELSE c[i - 1]
  BY <1>1, ConcatProperties
<1>3. \A i \in 1..2 : (a \o c)[i] = e[i]
  BY <1>1, <1>2
<1>4. a \o c = e
  BY <1>1, <1>2, <1>3, SeqEqual
<1> QED BY <1>4 DEF a, c, e

LEMMA JoinKind ==
    ASSUME NEW k, NEW t, NEW n, NEW v
    PROVE  <<k>> \o <<t, n, v>> = <<k, t, n, v>> /\ <<k>> \o <<t, n>> = <<k, t, n>>
<1> DEFINE S == {k, t, n, v}
           a == <<k>>
           c == <<t, n, v>>
           d == <<t, n>>
           e == <<k, t, n, v>>
           f == <<k, t, n>>
<1>1. /\ a \in Seq(S) /\ Len(a) = 1 /\ a[1] = k
      /\ c \in Seq(S) /\ Len(c) = 3 /\ c[1] = t /\ c[2] = n /\ c[3] = v
      /\ e \in Seq(S) /\ Len(e) = 4 /\ e[1] = k /\ e[2] = t /\ e[3] = n /\ e[4] = v
  OBVIOUS
<1>2. /\ d \in Seq(S) /\ Len(d) = 2 /\ d[1] = t /\ d[2] = n
      /\ f \in Seq(S) /\ Len(f) = 3 /\ f[1] = k /\ f[2] = t /\ f[3] = n
  OBVIOUS
<1> HIDE DEF S, a, c, d, e, f
<1>3. a \o c = e
  <2>1. /\ a \o c \in Seq(S) /\ Len(a \o c) = Len(a) + Len(c)
        /\ \A i \in 1..(Len(a) + Len(c)) :
             (a \o c)[i] = IF i <= Len(a) THEN a[i] ELSE c[i - Len(a)]
    BY <1>1, ConcatProperties
  <2>2. Len(a \o c) = 4 /\ \A i \in 1..4 : (a \o c)[i] = e[i]
    BY <1>1, <2>1
  <2> QED BY <1>1, <2>1, <2>2, SeqEqual
<1>4. a \o d = f
  <2>1. /\ a \o d \in Seq(S) /\ Len(a \o d) = Len(a) + Len(d)
        /\ \A i \in 1..(Len(a) + Len(d)) :
             (a \o d)[i] = IF i <= Len(a) THEN a[i] ELSE d[i - Len(a)]
    BY <1>1, <1>2, ConcatProperties
  <2>2. Len(a \o d) = 3 /\ \A i \in 1..3 : (a \o d)[i] = f[i]
    BY <1>1, <1>2, <2>1
  <2> QED BY <1>2, <2>1, <2>2, SeqEqual
<1> QED BY <1>3, <1>4 DEF a, c, d, e, f

\* Either store's key tells plain packages apart, and nothing else does.
LEMMA KeyTellsApart ==
    ASSUME NEW p, NEW q, Plain(p), Plain(q)
    PROVE  Key(p) = Key(q) <=> L!SamePackage(p, q)
<1> DEFINE t(x) == Head(x.tenant)
           n(x) == Head(x.name)
           Long(x) == <<x.kind, t(x), n(x), x.version>>
           Short(x) == <<x.kind, t(x), n(x)>>
<1>1. ASSUME NEW x, Plain(x)
      PROVE  Key(x) = IF backend = "memory" \/ x.kind = "skill" THEN Long(x) ELSE Short(x)
  <2>1. x.tenant = <<t(x)>> /\ x.name = <<n(x)>> /\ x.id = OwnID(x)
    BY <1>1 DEF Plain
  <2>2. x.tenant \o x.name \o <<x.version>> = <<t(x), n(x), x.version>>
    BY <2>1, JoinThree
  <2>3. x.tenant \o x.name = <<t(x), n(x)>>
    BY <2>1, JoinTwo
  <2>4. CASE backend = "memory" \/ x.kind = "skill"
    <3>1. Key(x) = <<x.kind>> \o (x.tenant \o x.name \o <<x.version>>)
      BY <2>1, <2>4 DEF Key, ToolKey, OwnID
    <3>2. Key(x) = <<x.kind>> \o <<t(x), n(x), x.version>>
      BY <2>2, <3>1
    <3> QED BY <2>4, <3>2, JoinKind
  <2>5. CASE ~(backend = "memory" \/ x.kind = "skill")
    <3>1. Key(x) = <<x.kind>> \o (x.tenant \o x.name)
      BY <2>1, <2>5 DEF Key, OwnID
    <3>2. Key(x) = <<x.kind>> \o <<t(x), n(x)>>
      BY <2>3, <3>1
    <3> QED BY <2>5, <3>2, JoinKind
  <2> QED BY <2>4, <2>5
<1>2. /\ p.tenant = <<t(p)>> /\ p.name = <<n(p)>> /\ (p.kind # "skill" => p.version = "")
      /\ q.tenant = <<t(q)>> /\ q.name = <<n(q)>> /\ (q.kind # "skill" => q.version = "")
  BY DEF Plain
<1>3. L!SamePackage(p, q) <=> /\ p.kind = q.kind /\ t(p) = t(q) /\ n(p) = n(q)
                              /\ p.version = q.version
  BY <1>2 DEF L!SamePackage
<1> HIDE DEF t, n
<1>4. Long(p) = Long(q) <=> /\ p.kind = q.kind /\ t(p) = t(q) /\ n(p) = n(q)
                            /\ p.version = q.version
  OBVIOUS
<1>5. Short(p) = Short(q) <=> p.kind = q.kind /\ t(p) = t(q) /\ n(p) = n(q)
  OBVIOUS
<1>6. Long(p) # Short(q) /\ Short(p) # Long(q)
  OBVIOUS
<1> HIDE DEF Long, Short
<1>7. Key(p) = IF backend = "memory" \/ p.kind = "skill" THEN Long(p) ELSE Short(p)
  BY <1>1
<1>8. Key(q) = IF backend = "memory" \/ q.kind = "skill" THEN Long(q) ELSE Short(q)
  BY <1>1
<1>9. CASE backend = "memory"
  BY <1>3, <1>4, <1>7, <1>8, <1>9
<1>10. CASE backend # "memory" /\ p.kind = "skill"
  BY <1>3, <1>4, <1>6, <1>7, <1>8, <1>10
<1>11. CASE backend # "memory" /\ p.kind # "skill"
  BY <1>2, <1>3, <1>5, <1>6, <1>7, <1>8, <1>11
<1> QED BY <1>9, <1>10, <1>11

-----------------------------------------------------------------------------
(* The packages.                                                           *)

\* Every package is plain and under its own key.
Shelved ==
    /\ store = [k \in DOMAIN store |-> store[k]]
    /\ \A k \in DOMAIN store : Plain(store[k]) /\ k = Key(store[k])

\* Registering again replaces the package as a whole, for in a plain package
\* the columns that DO UPDATE leaves alone are those that are equal anyway.
LEMMA StoredIsNew ==
    ASSUME Shelved, NEW p, Plain(p)
    PROVE  Stored(p) = p
<1>1. CASE ~(backend = "postgres" /\ Key(p) \in DOMAIN store)
  BY <1>1 DEF Stored
<1>2. CASE backend = "postgres" /\ Key(p) \in DOMAIN store
  <2> DEFINE q == store[Key(p)]
  <2>1. Plain(q) /\ Key(p) = Key(q)
    BY <1>2 DEF Shelved
  <2>2. L!SamePackage(p, q)
    BY <2>1, KeyTellsApart
  <2>3. p.kind = q.kind /\ p.tenant = q.tenant /\ p.name = q.name /\ p.version = q.version
    BY <2>2 DEF L!SamePackage
  <2> HIDE DEF q
  <2>4. p.id = q.id
    BY <2>1, <2>3 DEF Plain, OwnID
  <2>5. [q EXCEPT !.content = p.content]
          = [kind |-> q.kind, id |-> q.id, tenant |-> q.tenant, name |-> q.name,
             version |-> q.version, content |-> p.content]
    <3>1. PICK k, i, t, n, v, c :
            q = [kind |-> k, id |-> i, tenant |-> t, name |-> n, version |-> v, content |-> c]
      BY <2>1, Zenon DEF Plain
    <3> QED BY <3>1
  <2>6. p = [kind |-> p.kind, id |-> p.id, tenant |-> p.tenant, name |-> p.name,
             version |-> p.version, content |-> p.content]
    BY DEF Plain
  <2>7. [q EXCEPT !.content = p.content] = p
    BY <2>3, <2>4, <2>5, <2>6
  <2> QED BY <1>2, <2>7 DEF Stored, q
<1> QED BY <1>1, <1>2

\* A save puts the package on its shelf and leaves the other shelves alone.
LEMMA SaveShelves ==
    ASSUME Shelved, NEW p, Plain(p), Save(p), UNCHANGED backend
    PROVE  /\ Shelved' /\ L!Shelve(p) /\ p \in Range(store')
           /\ \A q \in Range(store) : ~L!SamePackage(p, q) => q \in Range(store')
<1>1. store' = [k \in DOMAIN store \cup {Key(p)} |-> IF k = Key(p) THEN p ELSE store[k]]
  BY StoredIsNew DEF Save
<1>2. \A q : Key(q)' = Key(q)
  BY DEF Key
<1>3. Shelved'
  BY <1>1, <1>2 DEF Shelved
<1>4. \A k \in DOMAIN store : k = Key(p) <=> L!SamePackage(p, store[k])
  BY KeyTellsApart DEF Shelved
<1>5. Range(store) = {store[k] : k \in DOMAIN store} /\ Range(store') = {store'[k] : k \in DOMAIN store'}
  BY DEF Range
<1>6. p \in Range(store') /\ \A q \in Range(store) : ~L!SamePackage(p, q) => q \in Range(store')
  BY <1>1, <1>4, <1>5
<1>7. \A q \in Range(store') : q = p \/ (q \in Range(store) /\ ~L!SamePackage(p, q))
  BY <1>1, <1>4, <1>5
<1>8. Range(store') = {q \in Range(store) : ~L!SamePackage(p, q)} \cup {p}
  BY <1>6, <1>7
<1> QED BY <1>3, <1>6, <1>8 DEF L!Shelve, Range

LEMMA PackagesInvariant ==
    ASSUME PlainPackages
    PROVE  Spec => []Shelved
<1>1. Init => Shelved
  BY DEF Init, Shelved
<1>2. Shelved /\ [Next]_vars => Shelved'
  <2> SUFFICES ASSUME Shelved, [Next]_vars PROVE Shelved'
    OBVIOUS
  <2>1. CASE UNCHANGED <<backend, store>>
    BY <2>1 DEF Shelved, Key
  <2>2. ASSUME NEW r \in Requests, Post(r) PROVE Shelved'
    BY <2>2, CompletedPlain, SaveShelves DEF Post, Answer
  <2> QED BY <2>1, <2>2 DEF Next, vars, Refuse, Get, Fail, Answer
<1> QED BY <1>1, <1>2, PTL DEF Spec

\* Either store implements the library when ids are left to the registry and
\* nothing holds a slash.
THEOREM PackagesImplementLibrary ==
    ASSUME PlainPackages
    PROVE  Spec => ImplementsLibrary
<1>1. Init => L!LibraryInit
  BY DEF Init, L!LibraryInit, Range
<1>2. Shelved /\ [Next]_vars => [\E p \in Registrable : L!Shelve(p)]_(Range(store))
  <2> SUFFICES ASSUME Shelved, [Next]_vars
               PROVE  [\E p \in Registrable : L!Shelve(p)]_(Range(store))
    OBVIOUS
  <2>1. CASE UNCHANGED store
    BY <2>1 DEF Range
  <2>2. ASSUME NEW r \in Requests, Post(r) PROVE \E p \in Registrable : L!Shelve(p)
    BY <2>2, CompletedPlain, SaveShelves DEF Post, Answer
  <2> QED BY <2>1, <2>2 DEF Next, vars, Refuse, Get, Fail
<1> QED BY <1>1, <1>2, PackagesInvariant, PTL DEF Spec, ImplementsLibrary, L!LibrarySpec

\* What was answered "created" stays listed, as it was answered, until the same
\* package is registered again.
THEOREM PackagesCreatedIsListed ==
    ASSUME PlainPackages
    PROVE  Spec => []CreatedIsListed
<1> DEFINE InStore == created \subseteq Range(store)
<1>1. Init => InStore
  BY DEF Init
<1>2. Shelved /\ InStore /\ [Next]_vars => InStore'
  <2> SUFFICES ASSUME Shelved, InStore, [Next]_vars PROVE InStore'
    OBVIOUS
  <2>1. CASE UNCHANGED <<store, created>>
    BY <2>1
  <2>2. ASSUME NEW r \in Requests, Post(r) PROVE InStore'
    <3> DEFINE p == Completed(r)
    <3>1. Plain(p) /\ Save(p) /\ UNCHANGED backend
      BY <2>2, CompletedPlain DEF Post, Answer
    <3>2. created' = {q \in created : ~L!SamePackage(q, p)} \cup {p}
      BY <2>2 DEF Post
    <3> HIDE DEF p
    <3>3. p \in Range(store') /\ \A q \in Range(store) : ~L!SamePackage(p, q) => q \in Range(store')
      BY <3>1, SaveShelves
    <3>4. \A q : L!SamePackage(p, q) => L!SamePackage(q, p)
      BY DEF L!SamePackage
    <3> QED BY <3>2, <3>3, <3>4
  <2> QED BY <2>1, <2>2 DEF Next, vars, Refuse, Get, Fail
<1>3. InStore => CreatedIsListed
  BY DEF CreatedIsListed, Listed
<1> QED BY <1>1, <1>2, <1>3, PackagesInvariant, PTL DEF Spec

-----------------------------------------------------------------------------
(* The cache of tool definitions.                                          *)

\* A key of three segments has been joined from one segment each.
LEMMA SplitThree ==
    ASSUME NEW S, NEW a \in Seq(S), NEW b \in Seq(S), NEW v \in Seq(S), NEW t, NEW n, NEW w,
           Len(a) > 0, Len(b) > 0, Len(v) > 0, a \o b \o v = <<t, n, w>>
    PROVE  a = <<t>> /\ b = <<n>> /\ v = <<w>>
<1> DEFINE c == a \o b
           e == c \o v
<1>1. /\ c \in Seq(S) /\ Len(c) = Len(a) + Len(b)
      /\ \A i \in 1..(Len(a) + Len(b)) : c[i] = IF i <= Len(a) THEN a[i] ELSE b[i - Len(a)]
  BY ConcatProperties
<1>2. /\ e \in Seq(S) /\ Len(e) = Len(c) + Len(v)
      /\ \A i \in 1..(Len(c) + Len(v)) : e[i] = IF i <= Len(c) THEN c[i] ELSE v[i - Len(c)]
  <2>1. c \in Seq(S)
    BY <1>1
  <2> HIDE DEF c
  <2> QED BY <2>1, ConcatProperties
<1>3. Len(a) \in Nat /\ Len(b) \in Nat /\ Len(v) \in Nat
  BY LenProperties
<1> HIDE DEF c, e
<1>4. e = <<t, n, w>>
  BY Zenon DEF c, e
<1>5. Len(e) = 3 /\ e[1] = t /\ e[2] = n /\ e[3] = w
  BY <1>4
<1>6. Len(a) = 1 /\ Len(b) = 1 /\ Len(v) = 1 /\ Len(c) = 2
  <2>1. Len(c) = Len(a) + Len(b) /\ 3 = Len(c) + Len(v)
    BY <1>1, <1>2, <1>5
  <2>2. \A x, y, z \in Nat : x > 0 /\ y > 0 /\ z > 0 /\ 3 = x + y + z => x = 1 /\ y = 1 /\ z = 1
    OBVIOUS
  <2>3. Len(a) = 1 /\ Len(b) = 1 /\ Len(v) = 1
    BY <1>3, <2>1, <2>2
  <2> QED BY <2>1, <2>3
<1>7. v[1] = w /\ c[1] = t /\ c[2] = n
  BY <1>2, <1>5, <1>6
<1>8. a[1] = t /\ b[1] = n
  BY <1>1, <1>6, <1>7
<1>9. a = <<t>>
  BY <1>6, <1>8
<1>10. b = <<n>>
  BY <1>6, <1>8
<1>11. v = <<w>>
  BY <1>6, <1>7
<1> QED BY <1>9, <1>10, <1>11

\* Redis holds definitions, each under its own key.
CacheKeyed ==
    /\ cache = [k \in DOMAIN cache |-> cache[k]]
    /\ \A k \in DOMAIN cache : cache[k] \in CacheDefs /\ k = KeyOf(cache[k])

LEMMA CacheInvariant == CacheSpec => []CacheKeyed
<1>1. CacheInit => CacheKeyed
  BY DEF CacheInit, CacheKeyed
<1>2. CacheKeyed /\ [CacheNext]_cacheVars => CacheKeyed'
  <2> SUFFICES ASSUME CacheKeyed, [CacheNext]_cacheVars PROVE CacheKeyed'
    OBVIOUS
  <2>1. ASSUME NEW d \in CacheDefs, SetCached(d) PROVE CacheKeyed'
    BY <2>1 DEF SetCached, CacheKeyed
  <2>2. ASSUME NEW k, Forget(k) PROVE CacheKeyed'
    BY <2>2 DEF Forget, Restrict, CacheKeyed
  <2>3. CASE UNCHANGED cache
    BY <2>3 DEF CacheKeyed
  <2> QED BY <2>1, <2>2, <2>3
          DEF CacheNext, cacheVars, DeleteBegin, Expire, DeleteKey, DeleteEnd
<1> QED BY <1>1, <1>2, PTL DEF CacheSpec

\* A hit for a tenant, name and version without colons is the definition asked
\* for, whatever keys others' colons produce.
THEOREM CacheServesOwnDefinitions == CacheSpec => []CacheServesOwn
<1>1. CacheKeyed => CacheServesOwn
  <2> SUFFICES ASSUME CacheKeyed, NEW d \in CacheDefs,
                      Len(d.tenant) = 1, Len(d.name) = 1, Len(d.version) = 1,
                      NEW e \in GetCached(d.tenant, d.name, d.version)
               PROVE  e.tenant = d.tenant /\ e.name = d.name /\ e.version = d.version
    BY DEF CacheServesOwn
  <2>1. e \in CacheDefs /\ KeyOf(e) = cacheKey(d.tenant, d.name, d.version)
    BY DEF GetCached, CacheKeyed
  <2> DEFINE t == d.tenant[1]
             n == d.name[1]
             w == d.version[1]
             a == e.tenant
             b == e.name
             v == e.version
             S == ToSet(a) \cup ToSet(b) \cup ToSet(v)
  <2>2. d.tenant = <<t>> /\ d.name = <<n>> /\ d.version = <<w>>
    BY CacheFields
  <2>3. /\ a \in Seq(ToSet(a)) /\ b \in Seq(ToSet(b)) /\ v \in Seq(ToSet(v))
        /\ Len(a) > 0 /\ Len(b) > 0 /\ Len(v) > 0
    BY <2>1, CacheFields
  <2>4. a \in Seq(S) /\ b \in Seq(S) /\ v \in Seq(S)
    <3>1. ToSet(a) \subseteq S /\ ToSet(b) \subseteq S /\ ToSet(v) \subseteq S
      OBVIOUS
    <3>2. \A T \in SUBSET S : \A s \in Seq(T) : s \in Seq(S)
      <4> HIDE DEF S
      <4> QED OBVIOUS
    <3> HIDE DEF S
    <3> QED BY <2>3, <3>1, <3>2
  <2>5. a \o b \o v = <<t, n, w>>
    BY <2>1, <2>2, JoinThree DEF KeyOf, cacheKey
  <2> HIDE DEF S, t, n, w, a, b, v
  <2>6. Len(a) > 0 /\ Len(b) > 0 /\ Len(v) > 0
    BY <2>3
  <2>7. a = <<t>> /\ b = <<n>> /\ v = <<w>>
    BY <2>4, <2>5, <2>6, SplitThree, SMTT(30)
  <2> QED BY <2>2, <2>7 DEF a, b, v
<1> QED BY <1>1, CacheInvariant, PTL

\* The keys that DeleteTool found and nobody touched since are those its SCAN
\* has yet to return, until a command fails.
StillDue == ~faults => old \subseteq due

\* A DeleteTool that comes to its end without a failure leaves nothing behind
\* of what was cached when it began.
THEOREM CacheDeleteForgets == CacheSpec => DeleteForgets
<1>1. CacheInit => StillDue
  BY DEF CacheInit, StillDue
<1>2. StillDue /\ [CacheNext]_cacheVars => StillDue'
  <2> SUFFICES ASSUME StillDue, [CacheNext]_cacheVars PROVE StillDue'
    OBVIOUS
  <2> USE DEF StillDue
  <2>1. ASSUME NEW d \in CacheDefs, SetCached(d) PROVE StillDue'
    BY <2>1 DEF SetCached
  <2>2. ASSUME NEW t, DeleteBegin(t) PROVE StillDue'
    BY <2>2 DEF DeleteBegin
  <2>3. ASSUME NEW k, Expire(k) PROVE StillDue'
    BY <2>3 DEF Expire, Forget
  <2>4. ASSUME NEW k, NEW ok \in BOOLEAN, DeleteKey(k, ok) PROVE StillDue'
    <3>1. CASE ok
      BY <2>4, <3>1 DEF DeleteKey, Forget
    <3>2. CASE ~ok
      BY <2>4, <3>2 DEF DeleteKey
    <3> QED BY <3>1, <3>2
  <2>5. ASSUME NEW ok \in BOOLEAN, DeleteEnd(ok) PROVE StillDue'
    BY <2>5 DEF DeleteEnd
  <2>6. CASE UNCHANGED cacheVars
    BY <2>6 DEF cacheVars
  <2> HIDE DEF StillDue
  <2> QED BY <2>1, <2>2, <2>3, <2>4, <2>5, <2>6 DEF CacheNext
<1>3. StillDue => [\A ok \in BOOLEAN : ok /\ ~faults /\ DeleteEnd(ok) => old = {}]_cacheVars
  BY DEF StillDue, DeleteEnd
<1> QED BY <1>1, <1>2, <1>3, PTL DEF CacheSpec, DeleteForgets
=============================================================================
