-------------------------- MODULE DeploymentProof ---------------------------
(* What the clients of processes that share a database can rely on, for    *)
(* every set of definitions, roles and filters.                            *)
EXTENDS Deployment, ToolStoreProof, TLAPS

-----------------------------------------------------------------------------
(* A definition on its way into the table and back.                        *)

\* Only the two lists change.
LEMMA RowFields ==
    ASSUME NEW d \in ToolDefs
    PROVE  /\ Row(d).tenant = d.tenant /\ Row(d).name = d.name
           /\ Row(d).version = d.version /\ Row(d).kind = d.kind
           /\ Row(d).tags = Column(d.tags) /\ Row(d).rbac = Column(d.rbac)
           /\ rowToTool(Row(d)).rbac = splitCSV(Column(d.rbac))
           /\ Row(d) = [f \in DOMAIN d |-> Row(d)[f]]
BY DefFields DEF Row, rowToTool

\* Words come back as they were, and so does a definition that has no others.
LEMMA WordsReturn ==
    ASSUME NEW list, Words(list)
    PROVE  Column(list) = list /\ splitCSV(list) = list
<1>1. \A e \in list : e.form \notin {"joined", "empty", "blank", "padded", "quoted"}
  BY DEF Words
<1>2. Column(list) = list
  BY <1>1 DEF Column, Element
<1>3. splitCSV(list) = list
  BY <1>1 DEF splitCSV
<1> QED BY <1>2, <1>3

LEMMA DefinitionReturns ==
    ASSUME NEW d \in ToolDefs, Words(d.tags), Words(d.rbac)
    PROVE  Row(d) = d /\ rowToTool(Row(d)) = d
<1>1. Column(d.tags) = d.tags /\ splitCSV(d.tags) = d.tags
  BY WordsReturn
<1>2. Column(d.rbac) = d.rbac /\ splitCSV(d.rbac) = d.rbac
  BY WordsReturn
<1>3. d = [f \in DOMAIN d |-> d[f]] /\ {"tags", "rbac"} \subseteq DOMAIN d
  BY DefFields
<1>4. Row(d) = d
  BY <1>1, <1>2, <1>3 DEF Row
<1>5. rowToTool(d) = d
  BY <1>1, <1>2, <1>3 DEF rowToTool
<1> QED BY <1>4, <1>5

\* An entry on its way into the table and back.
Back(e) ==
    CASE e.form = "padded" -> [e EXCEPT !.form = "lower"]
      [] e.form \in {"blank", "quoted"} -> [e EXCEPT !.form = "quoted"]
      [] OTHER -> e

\* A list without commas and empty entries comes back entry by entry.
LEMMA ListReturns ==
    ASSUME NEW d \in ToolDefs, ~Has(d.rbac, {"joined", "empty"})
    PROVE  rowToTool(Row(d)).rbac = {Back(e) : e \in d.rbac}
<1>1. \A e \in d.rbac : Entry(e) /\ e.form \notin {"joined", "empty"}
  BY DefFields DEF Has
<1>2. Column(d.rbac) = {Element(e) : e \in d.rbac}
  BY <1>1 DEF Column
<1>3. \A e \in d.rbac :
        (IF Element(e).form = "blank" THEN [Element(e) EXCEPT !.form = "quoted"] ELSE Element(e)) = Back(e)
  BY <1>1 DEF Element, Back, Entry
<1>4. splitCSV(Column(d.rbac)) = {Back(e) : e \in d.rbac}
  BY <1>2, <1>3 DEF splitCSV
<1> QED BY <1>4, RowFields

\* What a caller's role is compared as.
LEMMA RoleForms ==
    ASSUME NEW role \in Roles
    PROVE  /\ Entry(normalize(role)) /\ normalize(role).form \notin {"mixed", "padded"}
           /\ normalize(role).form = "quoted" => role.form = "quoted"
BY DeploymentConstants DEF normalize, Entry, Role

\* Every role that an entry spells is spelled by what comes back of it.
LEMMA NobodyLockedOut ==
    ASSUME NEW d \in ToolDefs, NEW role \in Roles,
           ~Has(d.rbac, {"blank", "joined", "empty"}), Allow(d, role)
    PROVE  Allow(rowToTool(Row(d)), role)
<1> DEFINE r == normalize(role)
           read == rowToTool(Row(d)).rbac
<1>1. read = {Back(e) : e \in d.rbac}
  BY ListReturns DEF Has
<1>2. ASSUME r \in d.rbac PROVE r \in read
  <2>1. Entry(r) /\ r.form \notin {"mixed", "padded", "blank", "joined", "empty"}
    BY <1>2, RoleForms DEF Has
  <2>2. Back(r) = r
    BY <2>1 DEF Back, Entry
  <2> QED BY <1>1, <1>2, <2>2
<1>3. d.rbac = {} => read = {}
  BY <1>1
<1> HIDE DEF r, read
<1>4. r = Role("admin") \/ d.rbac = {} \/ r \in d.rbac
  BY DEF Allow, RoleAllowed, r
<1>5. r = Role("admin") \/ read = {} \/ r \in read
  BY <1>2, <1>3, <1>4
<1> QED BY <1>5 DEF Allow, RoleAllowed, r, read

\* What comes back spells no role that no entry spelled, a role in quotes apart.
LEMMA NobodyAdmitted ==
    ASSUME NEW d \in ToolDefs, NEW role \in Roles, ~Has(d.rbac, {"joined", "empty", "padded"}),
           role.form = "quoted" => ~Has(d.rbac, {"blank"}), Allow(rowToTool(Row(d)), role)
    PROVE  Allow(d, role)
<1> DEFINE r == normalize(role)
           read == rowToTool(Row(d)).rbac
<1>1. read = {Back(e) : e \in d.rbac}
  BY ListReturns DEF Has
<1>2. ASSUME r \in read PROVE r \in d.rbac
  <2>1. PICK e \in d.rbac : r = Back(e)
    BY <1>1, <1>2
  <2>2. Entry(e) /\ e.form \notin {"joined", "empty", "padded"}
    BY DefFields DEF Has
  <2>3. e.form # "blank"
    <3>1. ASSUME e.form = "blank" PROVE r.form = "quoted"
      BY <2>1, <2>2, <3>1 DEF Back, Entry
    <3> QED BY <3>1, RoleForms DEF Has
  <2>4. Back(e) = e
    BY <2>2, <2>3 DEF Back, Entry
  <2> QED BY <2>1, <2>4
<1>3. read = {} => d.rbac = {}
  BY <1>1
<1> HIDE DEF r, read
<1>4. r = Role("admin") \/ read = {} \/ r \in read
  BY DEF Allow, RoleAllowed, r, read
<1>5. r = Role("admin") \/ d.rbac = {} \/ r \in d.rbac
  BY <1>2, <1>3, <1>4
<1> QED BY <1>5 DEF Allow, RoleAllowed, r

-----------------------------------------------------------------------------
(* The inductive invariant.                                                *)

\* The table holds the rows of what was sent, each under its own id, and what
\* an id holds is among what the answers allow.
TableFollows ==
    /\ written \in [DOMAIN written -> ToolDefs] /\ IsFiniteSet(DOMAIN written)
    /\ \A id \in DOMAIN written : id = key(written[id])
    /\ rows = [id \in DOMAIN written |-> Row(written[id])]

LedgerAllows ==
    /\ ledger = [id \in IDs |-> ledger[id]]
    /\ \A id \in IDs : ledger[id] \subseteq ToolDefs \cup {None}
    /\ \A id \in IDs : IF id \in DOMAIN written THEN written[id] \in ledger[id] ELSE None \in ledger[id]

DepInv == TableFollows /\ LedgerAllows

\* The statement of SaveTool has the effect of the in-memory SaveTool.
LEMMA SaveFollows ==
    ASSUME SlashFreeDefs, TableFollows, NEW d \in ToolDefs, PgSaveTool(d), M!SaveTool(d)
    PROVE  /\ TableFollows'
           /\ DOMAIN written' = DOMAIN written \cup {key(d)} /\ written'[key(d)] = d
           /\ \A id \in DOMAIN written : id # key(d) => written'[id] = written[id]
<1>1. toolID(d) = key(d) /\ M!key(d) = key(d)
  BY DEF toolID, key, ToolKey, M!key, M!ToolKey
<1>2. written' = [k \in DOMAIN written \cup {key(d)} |-> IF k = key(d) THEN d ELSE written[k]]
  BY <1>1 DEF M!SaveTool
<1>3. DOMAIN rows = DOMAIN written /\ \A id \in DOMAIN written : rows[id] = Row(written[id])
  BY DEF TableFollows
<1>4. rows' = [k \in DOMAIN written \cup {key(d)} |-> IF k = key(d) THEN Row(d) ELSE rows[k]]
  <2>1. CASE key(d) \notin DOMAIN rows
    BY <1>1, <1>3, <2>1 DEF PgSaveTool
  <2>2. CASE key(d) \in DOMAIN rows
    <3> DEFINE e == written[key(d)]
    <3>1. e \in ToolDefs /\ key(d) = key(e)
      BY <1>3, <2>2 DEF TableFollows
    <3>2. e.tenant = d.tenant /\ e.name = d.name
      BY <3>1, KeysWithoutSlashes
    <3>3. rows[key(d)].tenant = Row(d).tenant /\ rows[key(d)].name = Row(d).name
      BY <1>3, <2>2, <3>1, <3>2, RowFields
    <3>4. [Row(d) EXCEPT !.tenant = Row(d).tenant, !.name = Row(d).name] = Row(d)
      BY RowFields
    <3> QED BY <1>1, <1>3, <2>2, <3>3, <3>4 DEF PgSaveTool
  <2> QED BY <2>1, <2>2
<1>5. IsFiniteSet(DOMAIN written')
  BY <1>2, FS_AddElement DEF TableFollows
<1>6. DOMAIN written' = DOMAIN written \cup {key(d)} /\ written'[key(d)] = d
      /\ \A id \in DOMAIN written : id # key(d) => written'[id] = written[id]
  BY <1>2
<1>7. written' \in [DOMAIN written' -> ToolDefs] /\ \A id \in DOMAIN written' : id = key(written'[id])
  BY <1>2 DEF TableFollows
<1>8. rows' = [id \in DOMAIN written' |-> Row(written'[id])]
  BY <1>2, <1>3, <1>4
<1> QED BY <1>5, <1>6, <1>7, <1>8 DEF TableFollows

\* So has the one of DeleteTool.
LEMMA DeleteFollows ==
    ASSUME TableFollows, NEW t, NEW n, PgDeleteTool(t, n), M!DeleteTool(t, n)
    PROVE  /\ TableFollows'
           /\ \A id : id \in DOMAIN written'
                        <=> id \in DOMAIN written /\ (written[id].tenant # t \/ written[id].name # n)
           /\ \A id \in DOMAIN written' : written'[id] = written[id]
<1> DEFINE D == {id \in DOMAIN written : written[id].tenant # t \/ written[id].name # n}
<1>1. written' = [id \in D |-> written[id]]
  BY DEF M!DeleteTool, M!Entries, M!Restrict
<1>2. DOMAIN rows = DOMAIN written /\ \A id \in DOMAIN written : rows[id] = Row(written[id])
  BY DEF TableFollows
<1>3. {id \in DOMAIN rows : rows[id] \notin RowsOf(t, n)} = D
  <2>1. \A id \in DOMAIN written : rows[id].tenant = written[id].tenant /\ rows[id].name = written[id].name
    BY <1>2, RowFields DEF TableFollows
  <2> QED BY <1>2, <2>1 DEF RowsOf, Range
<1>4. rows' = [id \in D |-> rows[id]]
  BY <1>2, <1>3 DEF PgDeleteTool, Restrict
<1>5. IsFiniteSet(D)
  BY FS_Subset DEF TableFollows
<1> QED BY <1>1, <1>2, <1>4, <1>5 DEF TableFollows

LEMMA DepInvInductive ==
    ASSUME SlashFreeDefs, DepInv, [DepNext]_depVars
    PROVE  DepInv'
<1>1. CASE UNCHANGED <<rows, written, ledger>>
  BY <1>1 DEF DepInv, TableFollows, LedgerAllows
<1>2. ASSUME NEW d \in ToolDefs, NEW outcome \in {"done", "failed", "unsure"},
             PgRegister(d, outcome)
      PROVE  DepInv'
  <2> DEFINE now == IF outcome = "done" THEN {d} ELSE ledger[key(d)] \cup {d}
  <2>1. key(d) \in IDs
    BY DEF IDs
  <2>2. ledger' = [id \in IDs |-> IF id = key(d) THEN now ELSE ledger[id]]
    BY <1>2, <2>1 DEF PgRegister, DepInv, LedgerAllows
  <2>3. now \subseteq ToolDefs \cup {None} /\ d \in now
    BY <2>1 DEF DepInv, LedgerAllows
  <2>4. CASE outcome = "failed"
    BY <1>2, <2>1, <2>2, <2>3, <2>4 DEF PgRegister, DepInv, LedgerAllows, TableFollows
  <2>5. CASE outcome # "failed"
    <3>1. /\ TableFollows'
          /\ DOMAIN written' = DOMAIN written \cup {key(d)} /\ written'[key(d)] = d
          /\ \A id \in DOMAIN written : id # key(d) => written'[id] = written[id]
      BY <1>2, <2>5, SaveFollows DEF PgRegister, DepInv
    <3> HIDE DEF now
    <3> QED BY <2>1, <2>2, <2>3, <3>1 DEF DepInv, LedgerAllows
  <2> QED BY <2>4, <2>5
<1>3. ASSUME NEW d \in ToolDefs, NEW outcome \in {"done", "failed", "unsure"},
             PgDeregister(d, outcome)
      PROVE  DepInv'
  <2> DEFINE t == splitKeyTenant(key(d))
             n == splitKeyName(key(d))
             Hit(id) == splitKeyTenant(id) = t /\ splitKeyName(id) = n
             now(id) == IF outcome = "done" THEN {None} ELSE ledger[id] \cup {None}
  <2>1. ledger' = [id \in IDs |-> IF Hit(id) THEN now(id) ELSE ledger[id]]
    BY <1>3 DEF PgDeregister
  <2>2. \A id \in IDs : now(id) \subseteq ToolDefs \cup {None} /\ None \in now(id)
    BY DEF DepInv, LedgerAllows
  <2>3. CASE outcome = "failed"
    <3>1. \A id \in IDs : ledger[id] \subseteq now(id)
      BY <2>3
    <3> HIDE DEF now, Hit
    <3> QED BY <1>3, <2>1, <2>2, <2>3, <3>1 DEF PgDeregister, DepInv, LedgerAllows, TableFollows
  <2>4. CASE outcome # "failed"
    <3>1. /\ TableFollows'
          /\ \A id : id \in DOMAIN written'
                       <=> id \in DOMAIN written /\ (written[id].tenant # t \/ written[id].name # n)
          /\ \A id \in DOMAIN written' : written'[id] = written[id]
      BY <1>3, <2>4, DeleteFollows DEF PgDeregister, DepInv
    <3>2. \A id \in DOMAIN written :
            splitKeyTenant(id) = written[id].tenant /\ splitKeyName(id) = written[id].name
      BY KeysWithoutSlashes DEF DepInv, TableFollows
    <3>3. \A id \in DOMAIN written : id \in DOMAIN written' <=> ~Hit(id)
      BY <3>1, <3>2
    <3>4. \A id \in IDs : /\ id \in DOMAIN written' => written'[id] \in ledger[id] /\ ~Hit(id)
                          /\ id \notin DOMAIN written' => Hit(id) \/ None \in ledger[id]
      BY <3>1, <3>3 DEF DepInv, LedgerAllows
    <3> HIDE DEF now, Hit
    <3> QED BY <2>1, <2>2, <3>1, <3>4 DEF DepInv, LedgerAllows
  <2> QED BY <2>3, <2>4
<1> QED BY <1>1, <1>2, <1>3 DEF DepNext, depVars, Boot, Crash, MemoryRequest

LEMMA DeploymentInvariant ==
    ASSUME SlashFreeDefs
    PROVE  DepSpec => []DepInv
<1>1. DepInit => DepInv
  <2> SUFFICES ASSUME DepInit PROVE DepInv
    OBVIOUS
  <2>1. written = <<>> /\ rows = <<>> /\ DOMAIN written = {}
    BY DEF DepInit, PgInit
  <2>2. TableFollows
    BY <2>1, FS_EmptySet DEF TableFollows
  <2>3. LedgerAllows
    BY <2>1 DEF DepInit, LedgerAllows
  <2> QED BY <2>2, <2>3 DEF DepInv
<1>2. DepInv /\ [DepNext]_depVars => DepInv'
  BY DepInvInductive
<1> QED BY <1>1, <1>2, PTL DEF DepSpec

-----------------------------------------------------------------------------
\* Whatever fails, loses its answer, crashes or restarts: reading an id gives a
\* content that the answers given for that id allow.
THEOREM DeploymentAnswersReliable ==
    ASSUME SlashFreeDefs
    PROVE  DepSpec => []AnswersReliable
<1>1. DepInv => AnswersReliable
  <2> SUFFICES ASSUME DepInv, NEW d \in ToolDefs
               PROVE  \E x \in ledger[key(d)] :
                        PgGetTool(d.tenant, d.name, d.version)
                          = IF x = None THEN {} ELSE {rowToTool(Row(x))}
    BY DEF AnswersReliable
  <2> DEFINE found == {r \in RowsOf(d.tenant, d.name) : r.version = d.version}
  <2>1. key(d) \in IDs
    BY DEF IDs
  <2>2. /\ DOMAIN rows = DOMAIN written
        /\ \A id \in DOMAIN written : rows[id] = Row(written[id]) /\ written[id] \in ToolDefs
                                      /\ id = key(written[id])
    BY DEF DepInv, TableFollows
  <2>3. ASSUME NEW id \in DOMAIN written
        PROVE  rows[id] \in found <=> id = key(d)
    <3>1. rows[id] \in found <=> /\ rows[id].tenant = d.tenant /\ rows[id].name = d.name
                                 /\ rows[id].version = d.version
      BY <2>2 DEF RowsOf, Range
    <3>2. /\ rows[id].tenant = written[id].tenant /\ rows[id].name = written[id].name
          /\ rows[id].version = written[id].version
      BY <2>2, RowFields
    <3> HIDE DEF found
    <3>3. rows[id] \in found <=> C!SameRecord(written[id], d)
      BY <3>1, <3>2 DEF C!SameRecord, C!SameTool
    <3> QED BY <2>2, <3>3, KeyInjective
  <2>4. \A r \in found : \E id \in DOMAIN written : r = rows[id]
    BY <2>2 DEF RowsOf, Range
  <2>5. PgGetTool(d.tenant, d.name, d.version) = {rowToTool(r) : r \in found}
    BY DEF PgGetTool
  <2> HIDE DEF found
  <2>6. CASE key(d) \in DOMAIN written
    <3>1. found = {Row(written[key(d)])}
      <4>1. rows[key(d)] = Row(written[key(d)]) /\ rows[key(d)] \in found
        BY <2>2, <2>3, <2>6
      <4>2. \A r \in found : r = rows[key(d)]
        BY <2>3, <2>4
      <4> QED BY <4>1, <4>2
    <3>2. written[key(d)] # None /\ written[key(d)] \in ledger[key(d)]
      BY <2>1, <2>2, <2>6, DeploymentConstants DEF DepInv, LedgerAllows
    <3> QED BY <2>5, <3>1, <3>2
  <2>7. CASE key(d) \notin DOMAIN written
    <3>1. found = {}
      BY <2>3, <2>4, <2>7
    <3>2. None \in ledger[key(d)]
      BY <2>1, <2>7 DEF DepInv, LedgerAllows
    <3> QED BY <2>5, <3>1, <3>2
  <2> QED BY <2>6, <2>7
<1> QED BY <1>1, DeploymentInvariant, PTL

\* Passing through the table takes no right from a caller, unless an entry of the
\* allow list is empty or has a blank or a comma in it, and gives none, unless an
\* entry is empty, has a comma in it or blanks around it, or the caller's role
\* comes in quotes and an entry has a blank in it.
THEOREM DeploymentPermissionsKept ==
    ASSUME SlashFreeDefs
    PROVE  DepSpec => []PermissionsKept
<1>1. DepInv => PermissionsKept
  <2> SUFFICES ASSUME DepInv, NEW id \in DOMAIN rows, NEW role \in Roles
               PROVE  LET sent == written[id]
                          read == rowToTool(rows[id]) IN
                      /\ ~Has(sent.rbac, {"blank", "joined", "empty"}) /\ Allow(sent, role)
                         => Allow(read, role)
                      /\ ~Has(sent.rbac, {"joined", "empty", "padded"}) /\ Allow(read, role)
                         /\ (role.form = "quoted" => ~Has(sent.rbac, {"blank"}))
                         => Allow(sent, role)
    BY DEF PermissionsKept
  <2> DEFINE sent == written[id]
  <2>1. sent \in ToolDefs /\ rows[id] = Row(sent)
    BY DEF DepInv, TableFollows
  <2> HIDE DEF sent
  <2>2. ASSUME ~Has(sent.rbac, {"blank", "joined", "empty"}), Allow(sent, role)
        PROVE  Allow(rowToTool(Row(sent)), role)
    BY <2>1, <2>2, NobodyLockedOut
  <2>3. ASSUME ~Has(sent.rbac, {"joined", "empty", "padded"}), Allow(rowToTool(Row(sent)), role),
               role.form = "quoted" => ~Has(sent.rbac, {"blank"})
        PROVE  Allow(sent, role)
    BY <2>1, <2>3, NobodyAdmitted
  <2> QED BY <2>1, <2>2, <2>3 DEF sent
<1> QED BY <1>1, DeploymentInvariant, PTL

-----------------------------------------------------------------------------
(* The two stores side by side.                                            *)

\* A filter that means the same to both selects the same definitions.
LEMMA SameSelection ==
    ASSUME NEW d \in ToolDefs, Words(d.tags), Words(d.rbac), NEW f \in Filters, NEW tenant,
           Cardinality(f.tags) <= 1, \A h \in d.tags, w \in f.tags : h.base = w.base => h = w
    PROVE  PgMatches(Row(d), tenant, f) <=> M!Matches(d, tenant, f)
<1>1. Row(d) = d
  BY DefinitionReturns
<1>2. IsFiniteSet(f.tags)
  BY DeploymentConstants
<1>3. f.tags = {} \/ \E w : f.tags = {w}
  <2>1. CASE Cardinality(f.tags) = 0
    BY <1>2, <2>1, FS_EmptySet
  <2>2. CASE Cardinality(f.tags) = 1
    BY <1>2, <2>2, FS_Singleton
  <2>3. Cardinality(f.tags) \in Nat
    BY <1>2, FS_CardinalityType
  <2> QED BY <2>1, <2>2, <2>3
<1>4. f.tags \subseteq d.tags <=> f.tags = {} \/ M!hasAnyTag(d.tags, f.tags)
  BY <1>3 DEF M!hasAnyTag
<1> QED BY <1>1, <1>4 DEF PgMatches, M!Matches

\* As long as tags and roles are words, clients cannot tell the stores apart by
\* a filter that means the same to both, nor by the latest version where the
\* orders agree.
THEOREM DeploymentBackendInvisible ==
    ASSUME SlashFreeDefs
    PROVE  DepSpec => []BackendInvisible
<1>1. DepInv => BackendInvisible
  <2> SUFFICES ASSUME DepInv, \A d \in Range(written) : Words(d.tags) /\ Words(d.rbac),
                      NEW d \in ToolDefs
               PROVE  /\ \A f \in Filters : SameMeaning(f) =>
                           PgListTools(d.tenant, f) = M!ListTools(d.tenant, f)
                      /\ OrdersAgree(d.tenant, d.name) =>
                           PgGetLatestTool(d.tenant, d.name) = M!GetLatestTool(d.tenant, d.name)
    BY DEF BackendInvisible
  <2>1. /\ DOMAIN rows = DOMAIN written
        /\ \A id \in DOMAIN written : rows[id] = Row(written[id]) /\ written[id] \in ToolDefs
    BY DEF DepInv, TableFollows
  <2>2. \A e \in Range(written) : /\ e \in ToolDefs /\ Words(e.tags) /\ Words(e.rbac)
                                  /\ Row(e) = e /\ rowToTool(e) = e
    <3>1. \A e \in Range(written) : e \in ToolDefs
      BY <2>1 DEF Range
    <3> QED BY <3>1, DefinitionReturns
  <2>3. Range(rows) = Range(written)
    BY <2>1, <2>2 DEF Range
  <2>4. M!Range(written) = Range(written)
    BY DEF M!Range, Range
  <2>5. ASSUME NEW f \in Filters, SameMeaning(f)
        PROVE  PgListTools(d.tenant, f) = M!ListTools(d.tenant, f)
    <3> DEFINE found == {rowToTool(r) : r \in {r \in Range(rows) : PgMatches(r, d.tenant, f)}}
               matching == {e \in M!Range(written) : M!Matches(e, d.tenant, f)}
    <3>1. \A e \in Range(written) : PgMatches(e, d.tenant, f) <=> M!Matches(e, d.tenant, f)
      BY <2>2, <2>5, SameSelection DEF SameMeaning
    <3>2. found = matching
      BY <2>2, <2>3, <2>4, <3>1
    <3>3. PgListTools(d.tenant, f) = {Cut(s, f.limit) : s \in {s \in SetToSeqs(found) : Sorted(s)}}
      BY DEF PgListTools
    <3>4. M!ListTools(d.tenant, f)
            = {M!Cut(s, f.limit) : s \in {s \in M!SetToSeqs(matching) : M!Sorted(s)}}
      BY DEF M!ListTools
    <3>5. M!SetToSeqs(matching) = SetToSeqs(matching)
      BY DEF M!SetToSeqs, SetToSeqs, M!Cardinality, Cardinality
    <3>6. \A s : M!Cut(s, f.limit) = Cut(s, f.limit) /\ (M!Sorted(s) <=> Sorted(s))
      BY DEF M!Cut, Cut, M!Sorted, Sorted
    <3> HIDE DEF found, matching
    <3> QED BY <3>2, <3>3, <3>4, <3>5, <3>6
  <2>6. ASSUME OrdersAgree(d.tenant, d.name)
        PROVE  PgGetLatestTool(d.tenant, d.name) = M!GetLatestTool(d.tenant, d.name)
    <3> DEFINE S == {e \in Range(written) : e.tenant = d.tenant /\ e.name = d.name}
               After(e, g) == TextAfter(e.version, g.version)
    <3>1. RowsOf(d.tenant, d.name) = S
      BY <2>3 DEF RowsOf
    <3>2. {written[k] : k \in M!Entries(d.tenant, d.name)} = S
      BY DEF M!Entries, Range
    <3>3. \A e, g \in S : TextAfter(e.version, g.version) <=> compareVersion(e.version, g.version) = 1
      BY <2>6 DEF OrdersAgree
    <3>4. \A v, w : M!compareVersion(v, w) = compareVersion(v, w)
      BY DEF M!compareVersion, compareVersion, M!Differ, Differ, M!PartNum, PartNum,
             M!atoiSafe, atoiSafe, M!Min, Min
    <3>5. \A v, w : compareVersion(v, w) <= 0 <=> compareVersion(v, w) # 1
      BY DEF compareVersion
    <3>6. PgGetLatestTool(d.tenant, d.name)
            = {rowToTool(r) : r \in {r \in S : \A q \in S : ~TextAfter(q.version, r.version)}}
      BY <3>1 DEF PgGetLatestTool
    <3>7. M!GetLatestTool(d.tenant, d.name)
            = {e \in S : \A g \in S : compareVersion(g.version, e.version) <= 0}
      BY <3>2, <3>4 DEF M!GetLatestTool
    <3>8. \A e \in S : rowToTool(e) = e
      BY <2>2
    <3> HIDE DEF S
    <3> QED BY <3>3, <3>5, <3>6, <3>7, <3>8
  <2> QED BY <2>5, <2>6
<1> QED BY <1>1, DeploymentInvariant, PTL
=============================================================================
