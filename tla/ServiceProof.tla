---------------------------- MODULE ServiceProof ----------------------------
(* What the request path promises, for every set of definitions, requests  *)
(* and instances and every number of goroutines.                           *)
EXTENDS System, ToolStoreProof, DiscoveryProof, TLAPS

-----------------------------------------------------------------------------
(* Requests before they touch shared state.                                *)

LEMMA RouteTyped ==
    ASSUME NEW r
    PROVE  Route(r) \in {"validate", "register", "list", "method_not_allowed", "name_required",
                         "deregister", "resolve", "invoke"}
BY DEF Route

LEMMA RefusalTyped ==
    ASSUME NEW r, Refusal(r) # None
    PROVE  Refusal(r) \in {"method_not_allowed", "name_required", "unauthorized", "invalid_request"}
BY DEF Refusal

\* A request that is not refused has a first step.
LEMMA FirstStepTyped ==
    ASSUME NEW r, Refusal(r) = None
    PROVE  /\ FirstStep[Route(r)] \in {"save", "list", "delete", "lookup", "validate"}
           /\ FirstStep[Route(r)] = "save" => Route(r) = "register"
           /\ FirstStep[Route(r)] = "list" => Route(r) = "list"
           /\ Route(r) = "register" => r.body # None /\ Acceptable(Defaulted(r.body))
<1>1. /\ Route(r) \notin {"method_not_allowed", "name_required"}
      /\ Route(r) = "register" => r.body # None /\ Acceptable(Defaulted(r.body))
  BY ServiceConstants DEF Refusal, Answers
<1> QED BY <1>1, RouteTyped DEF FirstStep

-----------------------------------------------------------------------------
(* One goroutine moves at a time.                                          *)

Untouched(g) ==
    /\ pc'[g] = pc[g] /\ req'[g] = req[g] /\ def'[g] = def[g]
    /\ insts'[g] = insts[g] /\ listed'[g] = listed[g] /\ answer'[g] = answer[g]

Moves(g) ==
    \/ \E r \in Requests : Arrive(g, r)
    \/ Step(g)
    \/ \E ok \in BOOLEAN : Return(g, ok)

\* What a step of g may change besides g's own state.
LEMMA OthersUntouched ==
    ASSUME TypeOK, NEW g \in Goroutines, NEW h \in Goroutines, h # g, Moves(h)
    PROVE  Untouched(g)
<1> USE DEF TypeOK, Untouched
<1>1. ASSUME NEW r \in Requests, Arrive(h, r) PROVE Untouched(g)
  BY <1>1 DEF Arrive, Finish, Goto
<1>2. CASE Save(h) \/ Delete(h)
  BY <1>2 DEF Save, Delete, Finish
<1>3. CASE List(h)
  BY <1>3 DEF List, Finish
<1>4. CASE Lookup(h)
  BY <1>4 DEF Lookup, Finish, Goto
<1>5. CASE Discover(h)
  BY <1>5 DEF Discover, Finish, Goto
<1>6. CASE Validate(h)
  BY <1>6 DEF Validate, Finish
<1>7. CASE Reply(h)
  BY <1>7 DEF Reply
<1>8. ASSUME NEW ok \in BOOLEAN, Return(h, ok) PROVE Untouched(g)
  BY <1>8 DEF Return, Finish
<1> QED BY <1>1, <1>2, <1>3, <1>4, <1>5, <1>6, <1>7, <1>8 DEF Moves, Step

\* A goroutine is left alone or takes one of its own steps.
LEMMA StepCases ==
    ASSUME TypeOK, [Next]_vars, NEW g \in Goroutines
    PROVE  Untouched(g) \/ Moves(g)
<1>1. ASSUME NEW h \in Goroutines, Moves(h) PROVE Untouched(g) \/ Moves(g)
  BY <1>1, OthersUntouched
<1>2. CASE InstancesChange
  BY <1>2 DEF InstancesChange, proc, Untouched
<1>3. CASE UNCHANGED vars
  BY <1>3 DEF vars, proc, Untouched
<1> QED BY <1>1, <1>2, <1>3 DEF Next, Moves

\* What a request has observed of what it reads is kept until it is answered.
LEMMA ObservationsKept ==
    ASSUME [Next]_vars, NEW g \in Goroutines
    PROVE  /\ pc'[g] # "idle" => seen[g] \cap {def'[g]} \subseteq seen'[g]
           /\ insts'[g] # <<>> => heard[g] \subseteq heard'[g]
<1>1. CASE UNCHANGED vars
  BY <1>1 DEF vars
<1>2. CASE Observe
  BY <1>2 DEF Observe
<1> QED BY <1>1, <1>2 DEF Next

-----------------------------------------------------------------------------
(* The inductive invariant.                                                *)

\* What a goroutine has established by the time it is at a step: nothing is
\* left of an earlier request, a definition to save or a filter to apply has
\* been checked, and a call has passed the role and the schema check.
Progress ==
    \A g \in Goroutines :
        /\ pc[g] \in {"idle", "save", "list", "delete", "lookup", "validate"}
             => def[g] = None /\ insts[g] = <<>>
        /\ pc[g] = "save" => Defaulted(req[g].body) \in {d \in ToolDefs : Acceptable(d)}
        /\ pc[g] = "list" => req[g].query.filter \in Filters
        /\ pc[g] \in {"discover", "calling"} => Allow(def[g], Who(req[g]).role)
        /\ pc[g] = "calling" => SchemaOK(def[g], req[g].input)

Inv == TypeOK /\ Progress /\ IsFiniteSet(DOMAIN tools)

\* The shared state changes by saving, deregistering and reporting only.
LEMMA SharedStep ==
    ASSUME Inv, [Next]_vars
    PROVE  /\ \/ \E d \in ToolDefs : Acceptable(d) /\ SaveTool(d)
              \/ \E id : Deregister(id)
              \/ UNCHANGED tools
           /\ [DiscoveryNext]_instances
<1>1. ASSUME NEW g \in Goroutines, Save(g) PROVE \E d \in ToolDefs : Acceptable(d) /\ SaveTool(d)
  BY <1>1 DEF Save, Inv, Progress
<1>2. ASSUME NEW g \in Goroutines, Delete(g) PROVE \E id : Deregister(id)
  BY <1>2 DEF Delete
<1>3. ASSUME NEW g \in Goroutines, NEW r \in Requests, Arrive(g, r) PROVE UNCHANGED tools
  BY <1>3 DEF Arrive
<1>4. ASSUME NEW g \in Goroutines, NEW ok \in BOOLEAN, Return(g, ok) PROVE UNCHANGED tools
  BY <1>4 DEF Return
<1>5. ASSUME NEW g \in Goroutines,
             List(g) \/ Lookup(g) \/ Discover(g) \/ Validate(g) \/ Reply(g)
      PROVE  UNCHANGED tools
  BY <1>5 DEF List, Lookup, Discover, Validate, Reply
<1>6. CASE InstancesChange
  BY <1>6 DEF InstancesChange
<1>7. CASE UNCHANGED vars
  BY <1>7 DEF vars
<1>8. ASSUME NEW g \in Goroutines, Moves(g) PROVE UNCHANGED instances
  BY <1>8 DEF Moves, Step, Arrive, Save, Delete, List, Lookup, Discover, Validate, Reply, Return
<1> QED BY <1>1, <1>2, <1>3, <1>4, <1>5, <1>6, <1>7, <1>8 DEF Next, Step, Moves

LEMMA SharedTyped ==
    ASSUME Inv, [Next]_vars
    PROVE  StoreTypeOK' /\ IsFiniteSet(DOMAIN tools') /\ DiscoveryTypeOK'
<1>1. DiscoveryTypeOK'
  BY SharedStep, DiscoveryStepTyped DEF Inv, TypeOK
<1>2. StoreTypeOK /\ IsFiniteSet(DOMAIN tools)
  BY DEF Inv, TypeOK
<1>3. CASE UNCHANGED tools
  BY <1>1, <1>2, <1>3 DEF StoreTypeOK
<1>4. ASSUME NEW d \in ToolDefs, SaveTool(d) PROVE StoreTypeOK' /\ IsFiniteSet(DOMAIN tools')
  BY <1>2, <1>4, SaveKeepsTyped
<1>5. ASSUME NEW id, Deregister(id) PROVE StoreTypeOK' /\ IsFiniteSet(DOMAIN tools')
  BY <1>2, <1>5, DeregisterKeepsTyped
<1> QED BY <1>1, <1>3, <1>4, <1>5, SharedStep

-----------------------------------------------------------------------------
(* What the reads of the shared state return.                              *)

LEMMA LatestTyped ==
    ASSUME StoreTypeOK, NEW t, NEW n
    PROVE  GetLatestTool(t, n) \subseteq ToolDefs
BY DEF StoreTypeOK, GetLatestTool, Entries

InstanceRecords == InstanceOffers \cup {Fallback(d) : d \in ToolDefs}

\* The healthy ones among listed instances.
LEMMA HealthyOf ==
    ASSUME NEW S, NEW list \in Seq(S)
    PROVE  /\ Healthy(list) \in Seq(S)
           /\ Pick(list) \subseteq ToSet(list) /\ \A i \in Pick(list) : i.healthy
           /\ Pick(list) = {} <=> Healthy(list) = <<>>
<1> DEFINE I == {i \in DOMAIN list : list[i].healthy}
<1>1. I \in SUBSET (1..Len(list)) /\ DOMAIN list = 1..Len(list)
  OBVIOUS
<1> HIDE DEF I
<1>2. Kept(list, I) \in Seq(S) /\ ToSet(Kept(list, I)) = {list[i] : i \in I}
  BY <1>1, KeptProperties, KeptEntries
<1>3. Healthy(list) = Kept(list, I)
  BY DEF Healthy, I
<1>4. /\ ToSet(Healthy(list)) \subseteq ToSet(list)
      /\ \A i \in ToSet(Healthy(list)) : i.healthy
  <2>1. \A i \in I : list[i].healthy
    BY DEF I
  <2> QED BY <1>1, <1>2, <1>3, <2>1 DEF ToSet
<1>5. Healthy(list) \in Seq(S)
  BY <1>2, <1>3
<1>6. ToSet(Healthy(list)) = {} <=> Healthy(list) = <<>>
  <2>1. Healthy(list) = <<>> <=> DOMAIN Healthy(list) = {}
    BY <1>5
  <2> QED BY <2>1 DEF ToSet
<1> QED BY <1>4, <1>5, <1>6 DEF Pick

\* What resolveInstances returns: the healthy instances of this version, or the
\* definition's own endpoint if discovery has none.
LEMMA ResolvedInstances ==
    ASSUME DiscoveryTypeOK, NEW d \in ToolDefs
    PROVE  /\ resolveInstances(d) \in Seq(InstanceRecords)
           /\ \A i \in ToSet(resolveInstances(d)) :
                \/ DiscoveryEnabled /\ key(d) \in ToolIDs /\ i \in Pick(instances[key(d)])
                \/ /\ i = Fallback(d) /\ d.endpoint # ""
                   /\ DiscoveryEnabled /\ key(d) \in ToolIDs => Pick(instances[key(d)]) = {}
<1> DEFINE list == Instances(key(d))
           h == Healthy(list)
<1>1. list \in Seq(InstanceOffers)
  <2>1. <<>> \in Seq(InstanceOffers)
    OBVIOUS
  <2> QED BY <2>1 DEF Instances, DiscoveryTypeOK
<1>2. h \in Seq(InstanceOffers) /\ (Pick(list) = {} <=> h = <<>>) /\ Pick(list) \subseteq ToSet(list)
  <2> HIDE DEF list
  <2> QED BY <1>1, HealthyOf
<1>3. Pick(list) = ToSet(h)
  BY DEF Pick
<1>4. key(d) \notin ToolIDs => Pick(list) = {}
  <2>1. key(d) \notin ToolIDs => list = <<>>
    BY DEF Instances
  <2>2. ToSet(<<>>) = {}
    BY DEF ToSet
  <2> QED BY <1>2, <2>1, <2>2
<1>5. key(d) \in ToolIDs => list = instances[key(d)]
  BY DEF Instances
<1>6. resolveInstances(d) = IF DiscoveryEnabled /\ h # <<>> THEN h
                            ELSE IF d.endpoint # "" THEN <<Fallback(d)>> ELSE <<>>
  BY DEF resolveInstances
<1> HIDE DEF list, h
<1>7. CASE DiscoveryEnabled /\ h # <<>>
  <2>1. resolveInstances(d) = h
    BY <1>6, <1>7
  <2>2. h \in Seq(InstanceRecords)
    <3>1. InstanceOffers \subseteq InstanceRecords
      BY DEF InstanceRecords
    <3> QED BY <1>2, <3>1
  <2> QED BY <1>2, <1>3, <1>4, <1>5, <1>7, <2>1, <2>2
<1>8. CASE ~(DiscoveryEnabled /\ h # <<>>) /\ d.endpoint # ""
  <2>1. resolveInstances(d) = <<Fallback(d)>>
    BY <1>6, <1>8
  <2>2. Fallback(d) \in InstanceRecords
    BY DEF InstanceRecords
  <2>3. <<Fallback(d)>> \in Seq(InstanceRecords) /\ ToSet(<<Fallback(d)>>) = {Fallback(d)}
    BY <2>2 DEF ToSet
  <2>4. DiscoveryEnabled /\ key(d) \in ToolIDs => Pick(instances[key(d)]) = {}
    BY <1>2, <1>5, <1>8
  <2> QED BY <1>8, <2>1, <2>3, <2>4
<1>9. CASE ~(DiscoveryEnabled /\ h # <<>>) /\ d.endpoint = ""
  <2>1. resolveInstances(d) = <<>>
    BY <1>6, <1>9
  <2>2. <<>> \in Seq(InstanceRecords) /\ ToSet(<<>>) = {}
    BY DEF ToSet
  <2> QED BY <2>1, <2>2
<1> QED BY <1>7, <1>8, <1>9

-----------------------------------------------------------------------------
(* The invariant, goroutine by goroutine.                                  *)

Shaped(f) == f = [g \in Goroutines |-> f[g]]

AllShaped ==
    Shaped(pc) /\ Shaped(req) /\ Shaped(def) /\ Shaped(insts) /\ Shaped(listed) /\ Shaped(answer)

OwnTyped(g) ==
    /\ pc[g] \in {"idle", "save", "list", "delete", "lookup", "discover",
                  "validate", "calling", "reply"}
    /\ req[g] \in Requests \cup {Idle}
    /\ def[g] \in ToolDefs \cup {None}
    /\ insts[g] \in Seq(InstanceRecords)
    /\ listed[g] \in Seq(ToolDefs)
    /\ answer[g] \in Answers \cup {None}
    /\ pc[g] = "idle" <=> req[g] = Idle
    /\ pc[g] = "reply" <=> answer[g] # None
    /\ pc[g] \in {"discover", "calling"} => def[g] # None
    /\ pc[g] = "calling" => Len(insts[g]) = 1

OwnProgress(g) ==
    /\ pc[g] \in {"idle", "save", "list", "delete", "lookup", "validate"}
         => def[g] = None /\ insts[g] = <<>>
    /\ pc[g] = "save" => Defaulted(req[g].body) \in {d \in ToolDefs : Acceptable(d)}
    /\ pc[g] = "list" => req[g].query.filter \in Filters
    /\ pc[g] \in {"discover", "calling"} => Allow(def[g], Who(req[g]).role)
    /\ pc[g] = "calling" => SchemaOK(def[g], req[g].input)

LEMMA InvSplit ==
    Inv <=> /\ StoreTypeOK /\ IsFiniteSet(DOMAIN tools) /\ DiscoveryTypeOK
            /\ AllShaped
            /\ \A g \in Goroutines : OwnTyped(g) /\ OwnProgress(g)
<1> USE DEF AllShaped, Shaped, OwnTyped, OwnProgress
<1>1. ASSUME Inv PROVE AllShaped /\ \A g \in Goroutines : OwnTyped(g) /\ OwnProgress(g)
  BY <1>1 DEF Inv, TypeOK, Progress, InstanceRecords
<1>2. ASSUME StoreTypeOK, DiscoveryTypeOK, AllShaped,
             \A g \in Goroutines : OwnTyped(g) /\ OwnProgress(g)
      PROVE  TypeOK /\ Progress
  <2>1. pc \in [Goroutines -> {"idle", "save", "list", "delete", "lookup", "discover",
                               "validate", "calling", "reply"}]
    BY <1>2
  <2>2. req \in [Goroutines -> Requests \cup {Idle}] /\ def \in [Goroutines -> ToolDefs \cup {None}]
    BY <1>2
  <2>3. /\ insts \in [Goroutines -> Seq(InstanceRecords)] /\ listed \in [Goroutines -> Seq(ToolDefs)]
        /\ answer \in [Goroutines -> Answers \cup {None}]
    BY <1>2
  <2> QED BY <1>2, <2>1, <2>2, <2>3 DEF TypeOK, Progress, InstanceRecords
<1> QED BY <1>1, <1>2 DEF Inv, TypeOK

LEMMA ShapeKept ==
    ASSUME AllShaped, [Next]_vars
    PROVE  AllShaped'
<1> USE DEF AllShaped, Shaped
<1>1. ASSUME NEW g \in Goroutines, NEW r \in Requests, Arrive(g, r) PROVE AllShaped'
  BY <1>1 DEF Arrive, Finish, Goto
<1>2. ASSUME NEW g \in Goroutines, Save(g) \/ Delete(g) PROVE AllShaped'
  BY <1>2 DEF Save, Delete, Finish
<1>3. ASSUME NEW g \in Goroutines, List(g) PROVE AllShaped'
  BY <1>3 DEF List, Finish
<1>4. ASSUME NEW g \in Goroutines, Lookup(g) PROVE AllShaped'
  BY <1>4 DEF Lookup, Finish, Goto
<1>5. ASSUME NEW g \in Goroutines, Discover(g) PROVE AllShaped'
  BY <1>5 DEF Discover, Finish, Goto
<1>6. ASSUME NEW g \in Goroutines, Validate(g) PROVE AllShaped'
  BY <1>6 DEF Validate, Finish
<1>7. ASSUME NEW g \in Goroutines, Reply(g) PROVE AllShaped'
  BY <1>7 DEF Reply
<1>8. ASSUME NEW g \in Goroutines, NEW ok \in BOOLEAN, Return(g, ok) PROVE AllShaped'
  BY <1>8 DEF Return, Finish
<1>9. CASE InstancesChange \/ UNCHANGED vars
  BY <1>9 DEF InstancesChange, vars, proc
<1> QED BY <1>1, <1>2, <1>3, <1>4, <1>5, <1>6, <1>7, <1>8, <1>9 DEF Next, Step

\* A step of g keeps g's part of the invariant.
LEMMA OwnStep ==
    ASSUME Inv, NEW g \in Goroutines, Moves(g)
    PROVE  OwnTyped(g)' /\ OwnProgress(g)'
<1>1. /\ StoreTypeOK /\ IsFiniteSet(DOMAIN tools) /\ DiscoveryTypeOK
      /\ AllShaped /\ OwnTyped(g) /\ OwnProgress(g)
  BY InvSplit
<1>2. None \notin Answers /\ None \notin ToolDefs /\ Idle \notin Requests
  BY ServiceConstants
<1>3. ASSUME NEW r \in Requests, Arrive(g, r) PROVE OwnTyped(g)' /\ OwnProgress(g)'
  <2>1. /\ pc[g] = "idle" /\ req'[g] = r /\ def'[g] = def[g] /\ insts'[g] = insts[g]
        /\ listed'[g] = listed[g]
        /\ IF Refusal(r) # None THEN pc'[g] = "reply" /\ answer'[g] = Refusal(r)
           ELSE pc'[g] = FirstStep[Route(r)] /\ answer'[g] = answer[g]
    BY <1>1, <1>3 DEF Arrive, Finish, Goto, AllShaped, Shaped
  <2>2. CASE Refusal(r) # None
    <3>1. Refusal(r) \in Answers
      BY <2>2, RefusalTyped DEF Answers
    <3> QED BY <1>1, <1>2, <2>1, <2>2, <3>1 DEF OwnTyped, OwnProgress
  <2>3. CASE Refusal(r) = None
    <3>1. /\ FirstStep[Route(r)] \in {"save", "list", "delete", "lookup", "validate"}
          /\ FirstStep[Route(r)] = "save" => Defaulted(r.body) \in {d \in ToolDefs : Acceptable(d)}
          /\ FirstStep[Route(r)] = "list" => r.query.filter \in Filters
      BY <2>3, FirstStepTyped, ServiceConstants
    <3> QED BY <1>1, <1>2, <2>1, <2>3, <3>1 DEF OwnTyped, OwnProgress
  <2> QED BY <2>2, <2>3
<1>4. CASE Save(g) \/ Delete(g)
  <2>1. /\ pc[g] \in {"save", "delete"} /\ pc'[g] = "reply"
        /\ answer'[g] \in {"created", "deregistered"}
        /\ UNCHANGED <<req, def, insts, listed>>
    BY <1>1, <1>4 DEF Save, Delete, Finish, AllShaped, Shaped
  <2> QED BY <1>1, <1>2, <2>1 DEF OwnTyped, OwnProgress, Answers
<1>5. CASE List(g)
  <2>1. /\ pc[g] = "list" /\ pc'[g] = "reply" /\ answer'[g] = "listed"
        /\ UNCHANGED <<req, def, insts>>
        /\ \E t : listed'[g] \in ListTools(t, req[g].query.filter)
    BY <1>1, <1>5 DEF List, Finish, AllShaped, Shaped
  <2>2. PICK t : listed'[g] \in ListTools(t, req[g].query.filter)
    BY <2>1
  <2>3. req[g].query.filter.limit \in Int
    BY <1>1, <2>1, FilterLimits DEF OwnProgress
  <2>4. listed'[g] \in Seq(Matching(t, req[g].query.filter))
    BY <1>1, <2>2, <2>3, ListingEntries
  <2>5. Matching(t, req[g].query.filter) \subseteq ToolDefs
    BY <1>1 DEF Matching, Range, StoreTypeOK
  <2>6. listed'[g] \in Seq(ToolDefs)
    BY <2>4, <2>5
  <2> QED BY <1>1, <1>2, <2>1, <2>6 DEF OwnTyped, OwnProgress, Answers
<1>6. CASE Lookup(g)
  <2>1. /\ pc[g] = "lookup" /\ UNCHANGED <<req, insts, listed>>
        /\ \/ pc'[g] = "reply" /\ answer'[g] = "not_found" /\ def'[g] = def[g]
           \/ /\ def'[g] \in GetLatestTool(Who(req[g]).tenant, Name(req[g]))
              /\ IF Allow(def'[g], Who(req[g]).role)
                 THEN pc'[g] = "discover" /\ answer'[g] = answer[g]
                 ELSE pc'[g] = "reply" /\ answer'[g] = "forbidden"
    BY <1>1, <1>6 DEF Lookup, Finish, Goto, AllShaped, Shaped
  <2>2. GetLatestTool(Who(req[g]).tenant, Name(req[g])) \subseteq ToolDefs
    BY <1>1, LatestTyped
  <2> QED BY <1>1, <1>2, <2>1, <2>2 DEF OwnTyped, OwnProgress, Answers
<1>7. CASE Discover(g)
  <2> DEFINE found == resolveInstances(def[g])
             outcome == InvokeOutcome(def[g], req[g].input, found)
  <2>1. /\ pc[g] = "discover" /\ UNCHANGED <<req, def, listed>>
        /\ \/ insts'[g] = found /\ pc'[g] = "reply" /\ answer'[g] = "resolved"
           \/ outcome # "call" /\ pc'[g] = "reply" /\ answer'[g] = outcome /\ insts'[g] = insts[g]
           \/ /\ outcome = "call" /\ pc'[g] = "calling" /\ answer'[g] = answer[g]
              /\ \E i \in Pick(found) : insts'[g] = <<i>>
    BY <1>1, <1>7 DEF Discover, Finish, Goto, AllShaped, Shaped
  <2>2. def[g] \in ToolDefs
    BY <1>1, <2>1 DEF OwnTyped
  <2>3. found \in Seq(InstanceRecords)
    BY <1>1, <2>2, ResolvedInstances
  <2>4. outcome # "call" => outcome \in Answers
    BY DEF InvokeOutcome, Answers
  <2>5. outcome = "call" => SchemaOK(def[g], req[g].input)
    BY DEF InvokeOutcome
  <2>6. \A i \in Pick(found) : <<i>> \in Seq(InstanceRecords) /\ Len(<<i>>) = 1
    <3> HIDE DEF found
    <3>1. Pick(found) \subseteq ToSet(found)
      BY <2>3, HealthyOf
    <3>2. ToSet(found) \subseteq InstanceRecords
      BY <2>3 DEF ToSet
    <3> QED BY <3>1, <3>2
  <2> HIDE DEF found, outcome
  <2>7. CASE insts'[g] = found /\ pc'[g] = "reply" /\ answer'[g] = "resolved"
    BY <1>1, <1>2, <2>1, <2>3, <2>7 DEF OwnTyped, OwnProgress, Answers
  <2>8. CASE outcome # "call" /\ pc'[g] = "reply" /\ answer'[g] = outcome /\ insts'[g] = insts[g]
    BY <1>1, <1>2, <2>1, <2>4, <2>8 DEF OwnTyped, OwnProgress
  <2>9. CASE /\ outcome = "call" /\ pc'[g] = "calling" /\ answer'[g] = answer[g]
             /\ \E i \in Pick(found) : insts'[g] = <<i>>
    <3>1. insts'[g] \in Seq(InstanceRecords) /\ Len(insts'[g]) = 1
      BY <2>6, <2>9
    <3> QED BY <1>1, <1>2, <2>1, <2>5, <2>9, <3>1 DEF OwnTyped, OwnProgress
  <2> QED BY <2>1, <2>7, <2>8, <2>9
<1>8. CASE Validate(g)
  <2>1. /\ pc[g] = "validate" /\ UNCHANGED <<req, insts, listed>> /\ pc'[g] = "reply"
        /\ answer'[g] \in {"not_found", "valid", "schema_invalid"}
        /\ def'[g] = def[g] \/ def'[g] \in GetLatestTool(Who(req[g]).tenant, Name(req[g]))
    BY <1>1, <1>8 DEF Validate, Finish, AllShaped, Shaped
  <2>2. GetLatestTool(Who(req[g]).tenant, Name(req[g])) \subseteq ToolDefs
    BY <1>1, LatestTyped
  <2> QED BY <1>1, <1>2, <2>1, <2>2 DEF OwnTyped, OwnProgress, Answers
<1>9. CASE Reply(g)
  <2>1. /\ pc'[g] = "idle" /\ req'[g] = Idle /\ def'[g] = None /\ insts'[g] = <<>>
        /\ listed'[g] = <<>> /\ answer'[g] = None
    BY <1>1, <1>9 DEF Reply, AllShaped, Shaped
  <2> QED BY <2>1 DEF OwnTyped, OwnProgress
<1>10. ASSUME NEW ok \in BOOLEAN, Return(g, ok) PROVE OwnTyped(g)' /\ OwnProgress(g)'
  <2>1. /\ pc[g] = "calling" /\ pc'[g] = "reply" /\ answer'[g] \in {"result", "upstream_error"}
        /\ UNCHANGED <<req, def, insts, listed>>
    BY <1>1, <1>10 DEF Return, Finish, AllShaped, Shaped
  <2> QED BY <1>1, <1>2, <2>1 DEF OwnTyped, OwnProgress, Answers
<1> QED BY <1>3, <1>4, <1>5, <1>6, <1>7, <1>8, <1>9, <1>10 DEF Moves, Step

LEMMA InvInductive ==
    ASSUME Inv, [Next]_vars
    PROVE  Inv'
<1>1. StoreTypeOK' /\ IsFiniteSet(DOMAIN tools') /\ DiscoveryTypeOK'
  BY SharedTyped
<1>2. AllShaped'
  BY InvSplit, ShapeKept
<1>3. ASSUME NEW g \in Goroutines PROVE OwnTyped(g)' /\ OwnProgress(g)'
  <2>1. CASE Untouched(g)
    BY <2>1, InvSplit DEF OwnTyped, OwnProgress, Untouched
  <2>2. CASE Moves(g)
    BY <2>2, OwnStep
  <2> QED BY <2>1, <2>2, StepCases DEF Inv
<1>4. (/\ StoreTypeOK /\ IsFiniteSet(DOMAIN tools) /\ DiscoveryTypeOK
       /\ AllShaped
       /\ \A g \in Goroutines : OwnTyped(g) /\ OwnProgress(g))'
  BY <1>1, <1>2, <1>3
<1> QED BY <1>4, InvSplit, PTL

LEMMA ServiceInvariant == Spec => []Inv
<1>1. Init => Inv
  <2> SUFFICES ASSUME Init PROVE Inv
    OBVIOUS
  <2>1. StoreTypeOK /\ IsFiniteSet(DOMAIN tools)
    BY EmptyStoreTyped DEF Init
  <2>2. DiscoveryTypeOK
    BY DEF Init, DiscoveryInit, DiscoveryTypeOK
  <2>3. AllShaped
    BY DEF Init, AllShaped, Shaped
  <2>4. \A g \in Goroutines : OwnTyped(g) /\ OwnProgress(g)
    BY DEF Init, OwnTyped, OwnProgress
  <2> QED BY <2>1, <2>2, <2>3, <2>4, InvSplit
<1>2. Inv /\ [Next]_vars => Inv'
  BY InvInductive
<1> QED BY <1>1, <1>2, PTL DEF Spec

\* Every variable keeps its type, however requests, reports and calls
\* interleave.
THEOREM ServiceTyped == Spec => []TypeOK
<1>1. Inv => TypeOK
  BY DEF Inv
<1> QED BY <1>1, ServiceInvariant, PTL

\* A tool is only called after its role list and its schema let the call pass,
\* whatever is registered meanwhile.
THEOREM ServiceCallLegitimate == Spec => []CallLegitimate
<1>1. Inv => CallLegitimate
  BY DEF Inv, Progress, CallLegitimate
<1> QED BY <1>1, ServiceInvariant, PTL

\* Whatever is registered, and whatever a goroutine has looked up, has passed
\* the checks of Register.
Accepted ==
    /\ \A k \in DOMAIN tools : Acceptable(tools[k])
    /\ \A g \in Goroutines : def[g] # None => Acceptable(def[g])

LEMMA ServiceAccepted == Spec => []Accepted
<1>1. Init => Accepted
  BY DEF Init, StoreInit, Accepted
<1>2. Inv /\ Accepted /\ [Next]_vars => Accepted'
  <2> SUFFICES ASSUME Inv, Accepted, [Next]_vars PROVE Accepted'
    OBVIOUS
  <2>1. \A k \in DOMAIN tools' : Acceptable(tools'[k])
    <3>1. ASSUME NEW d \in ToolDefs, Acceptable(d), SaveTool(d)
          PROVE  \A k \in DOMAIN tools' : Acceptable(tools'[k])
      <4>1. /\ DOMAIN tools' = DOMAIN tools \cup {key(d)} /\ tools'[key(d)] = d
            /\ \A k \in DOMAIN tools : k # key(d) => tools'[k] = tools[k]
        BY <3>1, SaveToolEffect
      <4>2. ASSUME NEW k \in DOMAIN tools' PROVE Acceptable(tools'[k])
        <5>1. CASE k = key(d)
          BY <3>1, <4>1, <5>1 DEF Acceptable
        <5>2. CASE k # key(d)
          <6>1. k \in DOMAIN tools /\ tools'[k] = tools[k]
            BY <4>1, <5>2
          <6> QED BY <6>1 DEF Accepted
        <5> QED BY <5>1, <5>2
      <4> QED BY <4>2
    <3>2. ASSUME NEW id, Deregister(id) PROVE \A k \in DOMAIN tools' : Acceptable(tools'[k])
      BY <3>2, DeregisterOnlyDeletes DEF Accepted
    <3> QED BY <3>1, <3>2, SharedStep DEF Accepted
  <2>2. ASSUME NEW g \in Goroutines, def'[g] # None PROVE Acceptable(def'[g])
    <3>1. AllShaped /\ (def[g] # None => Acceptable(def[g]))
      BY InvSplit DEF Accepted
    <3>2. \A t, n : \A d \in GetLatestTool(t, n) : Acceptable(d)
      BY DEF Accepted, GetLatestTool, Entries
    <3>3. CASE Untouched(g)
      BY <2>2, <3>1, <3>3 DEF Untouched
    <3>4. CASE Lookup(g) \/ Validate(g)
      BY <2>2, <3>1, <3>2, <3>4 DEF Lookup, Validate, AllShaped, Shaped
    <3>5. CASE Reply(g)
      BY <2>2, <3>1, <3>5 DEF Reply, AllShaped, Shaped
    <3>6. CASE UNCHANGED def
      BY <2>2, <3>1, <3>6
    <3>7. Moves(g) => Lookup(g) \/ Validate(g) \/ Reply(g) \/ UNCHANGED def
      BY DEF Moves, Step, Arrive, Save, Delete, List, Discover, Return
    <3> QED BY <3>3, <3>4, <3>5, <3>6, <3>7, StepCases DEF Inv
  <2> QED BY <2>1, <2>2 DEF Accepted
<1> QED BY <1>1, <1>2, ServiceInvariant, PTL DEF Spec

\* Invoke never misses a transport: what Register let pass has one.
THEOREM ServiceTransportAlwaysFound == Spec => []TransportAlwaysFound
<1>1. Init => TransportAlwaysFound
  BY ServiceConstants DEF Init, TransportAlwaysFound, Answers
<1>2. Inv /\ Accepted /\ TransportAlwaysFound /\ [Next]_vars => TransportAlwaysFound'
  <2> SUFFICES ASSUME Inv, Accepted, TransportAlwaysFound, [Next]_vars, NEW g \in Goroutines
               PROVE  answer'[g] # "no_transport"
    BY DEF TransportAlwaysFound
  <2>1. AllShaped /\ OwnTyped(g) /\ answer[g] # "no_transport" /\ None # "no_transport"
    BY InvSplit, ServiceConstants DEF TransportAlwaysFound, Answers
  <2>2. CASE Untouched(g)
    BY <2>1, <2>2 DEF Untouched
  <2>3. ASSUME NEW r \in Requests, Arrive(g, r) PROVE answer'[g] # "no_transport"
    BY <2>1, <2>3, RefusalTyped DEF Arrive, Finish, Goto, AllShaped, Shaped
  <2>4. CASE Save(g) \/ Delete(g) \/ List(g)
    BY <2>1, <2>4 DEF Save, Delete, List, Finish, AllShaped, Shaped
  <2>5. CASE Lookup(g)
    BY <2>1, <2>5 DEF Lookup, Finish, Goto, AllShaped, Shaped
  <2>6. CASE Discover(g)
    <3>1. def[g] # None
      BY <2>1, <2>6 DEF Discover, OwnTyped
    <3>2. def[g].transport \in allowedTransports
      BY <3>1 DEF Accepted, Acceptable
    <3>3. \A found : InvokeOutcome(def[g], req[g].input, found) # "no_transport"
      BY <3>2 DEF InvokeOutcome
    <3> QED BY <2>1, <2>6, <3>3 DEF Discover, Finish, Goto, AllShaped, Shaped
  <2>7. CASE Validate(g)
    BY <2>1, <2>7 DEF Validate, Finish, AllShaped, Shaped
  <2>8. CASE Reply(g)
    BY <2>1, <2>8 DEF Reply, AllShaped, Shaped
  <2>9. ASSUME NEW ok \in BOOLEAN, Return(g, ok) PROVE answer'[g] # "no_transport"
    BY <2>1, <2>9 DEF Return, Finish, AllShaped, Shaped
  <2> QED BY <2>2, <2>3, <2>4, <2>5, <2>6, <2>7, <2>8, <2>9, StepCases DEF Inv, Moves, Step
<1> QED BY <1>1, <1>2, ServiceInvariant, ServiceAccepted, PTL DEF Spec

-----------------------------------------------------------------------------
(* Answers and the state of the registry.                                  *)

\* A goroutine that is about to read has observed what it will read.
UpToDate ==
    \A g \in Goroutines :
        /\ pc[g] \in {"lookup", "validate"} => LatestOrNone(req[g]) \subseteq seen[g]
        /\ pc[g] = "discover" => ListedNow \subseteq heard[g]

LEMMA ServiceUpToDate == Spec => []UpToDate
<1>1. Init => UpToDate
  BY DEF Init, UpToDate
<1>2. UpToDate /\ [Next]_vars => UpToDate'
  <2> SUFFICES ASSUME UpToDate, [Next]_vars PROVE UpToDate'
    OBVIOUS
  <2>1. CASE Observe
    BY <2>1 DEF Observe, UpToDate
  <2>2. CASE UNCHANGED vars
    BY <2>2 DEF vars, proc, UpToDate, LatestOrNone, ListedNow
  <2> QED BY <2>1, <2>2 DEF Next
<1> QED BY <1>1, <1>2, PTL DEF Spec

\* What GetLatestTool returns is what LatestOrNone records.
LEMMA LatestIsLatest ==
    ASSUME NEW r
    PROVE  /\ GetLatestTool(Who(r).tenant, Name(r)) \subseteq LatestOrNone(r)
           /\ GetLatestTool(Who(r).tenant, Name(r)) = {} => None \in LatestOrNone(r)
<1> DEFINE t == Who(r).tenant
           n == Name(r)
           S == {d \in Range(tools) : d.tenant = t /\ d.name = n}
           L == {d \in S : ~\E e \in S : compareVersion(e.version, d.version) = 1}
<1>1. \A v, w : compareVersion(v, w) <= 0 <=> compareVersion(v, w) # 1
  BY DEF compareVersion
<1>2. {tools[k] : k \in Entries(t, n)} = S
  BY DEF Entries, Range
<1>3. GetLatestTool(t, n) = L
  <2>1. GetLatestTool(t, n) = {d \in S : \A e \in S : compareVersion(e.version, d.version) <= 0}
    BY <1>2 DEF GetLatestTool
  <2> QED BY <1>1, <2>1
<1>4. LatestOrNone(r) = IF L = {} THEN {None} ELSE L
  BY DEF LatestOrNone
<1> QED BY <1>3, <1>4

\* A resolve, invoke or validate request is answered from the registry as it was
\* at one instant since its arrival.
THEOREM ServiceAnswerExplained == Spec => []AnswerExplained
<1>1. Init => AnswerExplained
  BY ServiceConstants DEF Init, AnswerExplained, Answers
<1>2. Inv /\ UpToDate /\ AnswerExplained /\ [Next]_vars => AnswerExplained'
  <2> DEFINE Explained(g) ==
               /\ answer[g] = "not_found" => def[g] = None /\ None \in seen[g]
               /\ def[g] # None => def[g] \in seen[g]
               /\ answer[g] = "forbidden" => def[g] # None /\ ~Allow(def[g], Who(req[g]).role)
  <2> SUFFICES ASSUME Inv, UpToDate, AnswerExplained, [Next]_vars, NEW g \in Goroutines
               PROVE  Explained(g)'
    BY DEF AnswerExplained
  <2>1. AllShaped /\ OwnTyped(g) /\ OwnProgress(g) /\ Explained(g)
    BY InvSplit DEF AnswerExplained
  <2>2. None \notin Answers /\ None \notin ToolDefs
    BY ServiceConstants
  <2>3. pc'[g] # "idle" => seen[g] \cap {def'[g]} \subseteq seen'[g]
    BY ObservationsKept
  <2>4. CASE Untouched(g)
    <3>1. CASE pc[g] = "idle"
      BY <2>1, <2>2, <2>4, <3>1 DEF Untouched, OwnTyped, OwnProgress, Answers
    <3>2. CASE pc[g] # "idle"
      BY <2>1, <2>3, <2>4, <3>2 DEF Untouched
    <3> QED BY <3>1, <3>2
  <2>5. ASSUME NEW r \in Requests, Arrive(g, r) PROVE Explained(g)'
    <3>1. def'[g] = None /\ answer'[g] \notin {"not_found", "forbidden"}
      <4>1. pc[g] = "idle" /\ def' = def
        BY <2>5 DEF Arrive
      <4>2. def[g] = None /\ answer[g] = None
        BY <2>1, <4>1 DEF OwnTyped, OwnProgress
      <4>3. answer'[g] = None \/ (Refusal(r) # None /\ answer'[g] = Refusal(r))
        BY <2>1, <2>5, <4>2 DEF Arrive, Finish, Goto, AllShaped, Shaped
      <4>4. None \notin {"not_found", "forbidden"}
        BY <2>2 DEF Answers
      <4> QED BY <4>1, <4>2, <4>3, <4>4, RefusalTyped
    <3> QED BY <3>1
  <2>6. CASE Save(g) \/ Delete(g) \/ List(g)
    <3>1. /\ pc[g] \in {"save", "delete", "list"} /\ def' = def
          /\ answer'[g] \in {"created", "deregistered", "listed"}
      BY <2>1, <2>6 DEF Save, Delete, List, Finish, AllShaped, Shaped
    <3> QED BY <2>1, <3>1 DEF OwnProgress
  <2>7. CASE Lookup(g) \/ Validate(g)
    <3> DEFINE found == GetLatestTool(Who(req[g]).tenant, Name(req[g]))
    <3>1. /\ pc[g] \in {"lookup", "validate"} /\ req' = req
          /\ pc'[g] \in {"reply", "discover"}
          /\ \/ found = {} /\ answer'[g] = "not_found" /\ def'[g] = def[g]
             \/ /\ def'[g] \in found /\ answer'[g] # "not_found"
                /\ answer'[g] = "forbidden" => ~Allow(def'[g], Who(req[g]).role)
      <4>1. CASE Lookup(g)
        <5>1. answer[g] = None /\ None # "not_found" /\ None # "forbidden"
          BY <2>1, <2>2, <4>1 DEF Lookup, OwnTyped, Answers
        <5> QED BY <2>1, <4>1, <5>1 DEF Lookup, Finish, Goto, AllShaped, Shaped
      <4>2. CASE Validate(g)
        BY <2>1, <4>2 DEF Validate, Finish, AllShaped, Shaped
      <4> QED BY <2>7, <4>1, <4>2
    <3>2. found \cap {def'[g]} \subseteq seen'[g] /\ (found = {} /\ def'[g] = None => None \in seen'[g])
      <4>1. LatestOrNone(req[g]) \subseteq seen[g]
        BY <3>1 DEF UpToDate
      <4>2. seen[g] \cap {def'[g]} \subseteq seen'[g]
        BY <2>3, <3>1
      <4> QED BY <4>1, <4>2, LatestIsLatest
    <3>3. found \subseteq ToolDefs
      BY LatestTyped DEF Inv, TypeOK
    <3>4. def[g] = None
      BY <2>1, <3>1 DEF OwnProgress
    <3> HIDE DEF found
    <3>5. CASE found = {} /\ answer'[g] = "not_found" /\ def'[g] = def[g]
      BY <3>2, <3>4, <3>5
    <3>6. CASE /\ def'[g] \in found /\ answer'[g] # "not_found"
               /\ answer'[g] = "forbidden" => ~Allow(def'[g], Who(req[g]).role)
      BY <2>2, <3>1, <3>2, <3>3, <3>6
    <3> QED BY <3>1, <3>5, <3>6
  <2>8. CASE Discover(g)
    <3>1. /\ pc[g] = "discover" /\ def' = def /\ pc'[g] # "idle"
          /\ answer'[g] \notin {"not_found", "forbidden"}
      <4>1. pc[g] = "discover" /\ answer[g] = None /\ None \notin {"not_found", "forbidden"}
        BY <2>1, <2>2, <2>8 DEF Discover, OwnTyped, Answers
      <4>2. \A found : InvokeOutcome(def[g], req[g].input, found) \notin {"not_found", "forbidden"}
        BY DEF InvokeOutcome
      <4> QED BY <2>1, <2>8, <4>1, <4>2 DEF Discover, Finish, Goto, AllShaped, Shaped
    <3> QED BY <2>1, <2>3, <3>1
  <2>9. CASE Reply(g)
    <3>1. def'[g] = None /\ answer'[g] = None
      BY <2>1, <2>9 DEF Reply, AllShaped, Shaped
    <3> QED BY <2>2, <3>1 DEF Answers
  <2>10. ASSUME NEW ok \in BOOLEAN, Return(g, ok) PROVE Explained(g)'
    <3>1. /\ def' = def /\ pc'[g] # "idle" /\ answer'[g] \in {"result", "upstream_error"}
      BY <2>1, <2>10 DEF Return, Finish, AllShaped, Shaped
    <3> QED BY <2>1, <2>3, <3>1
  <2> HIDE DEF Explained
  <2> QED BY <2>4, <2>5, <2>6, <2>7, <2>8, <2>9, <2>10, StepCases DEF Inv, Moves, Step
<1> QED BY <1>1, <1>2, ServiceInvariant, ServiceUpToDate, PTL DEF Spec

\* Every instance returned or called was listed healthy for this very version
\* since the request read the definition, or is the definition's own endpoint
\* when at some instant no instance was; an endpoint of the definition that
\* discovery lists as unhealthy is not spoken of.
THEOREM ServiceInstancesExplained == Spec => []InstancesExplained
<1>1. Init => InstancesExplained
  <2> SUFFICES ASSUME Init, NEW g \in Goroutines PROVE ToSet(insts[g]) = {}
    BY Zenon DEF InstancesExplained
  <2>1. insts[g] = <<>>
    BY DEF Init
  <2> QED BY <2>1 DEF ToSet
<1>2. Inv /\ UpToDate /\ InstancesExplained /\ [Next]_vars => InstancesExplained'
  <2> DEFINE Fits(d, i, W) ==
               \/ i = Fallback(d) /\ \E j \in InstanceOffers :
                    <<key(d), j>> \in W /\ j.endpoint = i.endpoint /\ ~j.healthy
               \/ i.healthy /\ <<key(d), i>> \in W
               \/ /\ i = Fallback(d) /\ i.endpoint # ""
                  /\ DiscoveryEnabled /\ key(d) \in ToolIDs => <<key(d), None>> \in W
             Explained(g) == \A i \in ToSet(insts[g]) : Fits(def[g], i, heard[g])
  <2> SUFFICES ASSUME Inv, UpToDate, InstancesExplained, [Next]_vars, NEW g \in Goroutines
               PROVE  Explained(g)'
    BY DEF InstancesExplained, FallsBackOnUnhealthy
  <2>1. AllShaped /\ OwnTyped(g) /\ OwnProgress(g) /\ Explained(g)
    BY InvSplit DEF InstancesExplained, FallsBackOnUnhealthy
  <2>2. ToSet(<<>>) = {}
    BY DEF ToSet
  <2>3. insts'[g] # <<>> => heard[g] \subseteq heard'[g]
    BY ObservationsKept
  <2>4. ASSUME insts'[g] = <<>> PROVE Explained(g)'
    BY <2>2, <2>4
  <2>5. ASSUME insts'[g] = insts[g], def'[g] = def[g] PROVE Explained(g)'
    <3>1. CASE insts'[g] = <<>>
      BY <2>4, <3>1
    <3>2. CASE insts'[g] # <<>>
      BY <2>1, <2>3, <2>5, <3>2
    <3> QED BY <3>1, <3>2
  <2>6. CASE Untouched(g)
    BY <2>5, <2>6 DEF Untouched
  <2>7. ASSUME NEW r \in Requests, Arrive(g, r) PROVE Explained(g)'
    <3>1. insts'[g] = <<>>
      BY <2>1, <2>7 DEF Arrive, OwnProgress
    <3> QED BY <2>4, <3>1
  <2>8. CASE Save(g) \/ Delete(g) \/ List(g) \/ Lookup(g) \/ Validate(g)
    <3>1. insts'[g] = <<>>
      BY <2>1, <2>8 DEF Save, Delete, List, Lookup, Validate, OwnProgress
    <3> QED BY <2>4, <3>1
  <2>9. CASE Discover(g)
    <3> DEFINE d == def[g]
               found == resolveInstances(d)
    <3>1. pc[g] = "discover" /\ def'[g] = d /\ d \in ToolDefs
      BY <2>1, <2>9 DEF Discover, OwnTyped
    <3>2. ListedNow \subseteq heard[g]
      BY <3>1 DEF UpToDate
    <3>3. \/ insts'[g] = insts[g] \/ insts'[g] = found
          \/ \E i \in Pick(found) : insts'[g] = <<i>>
      BY <2>1, <2>9 DEF Discover, AllShaped, Shaped
    <3> SUFFICES ASSUME insts'[g] # <<>> PROVE Explained(g)'
      BY <2>4
    <3>4. heard[g] \subseteq heard'[g]
      BY <2>3
    <3>5. DiscoveryTypeOK
      BY DEF Inv, TypeOK
    <3>6. \A i \in ToSet(found) : Fits(d, i, heard'[g])
      <4> SUFFICES ASSUME NEW i \in ToSet(found) PROVE Fits(d, i, heard'[g])
        OBVIOUS
      <4>1. CASE key(d) \in ToolIDs /\ i \in Pick(instances[key(d)])
        <5>1. i \in ToSet(instances[key(d)]) /\ i.healthy
          <6> DEFINE offers == instances[key(d)]
          <6>1. offers \in Seq(InstanceOffers)
            BY <3>5, <4>1 DEF DiscoveryTypeOK
          <6>2. i \in Pick(offers)
            BY <4>1
          <6> HIDE DEF offers
          <6>3. i \in ToSet(offers) /\ i.healthy
            BY <6>1, <6>2, HealthyOf
          <6> QED BY <6>3 DEF offers
        <5>2. <<key(d), i>> \in ListedNow
          BY <4>1, <5>1 DEF ListedNow
        <5> QED BY <3>2, <3>4, <5>1, <5>2
      <4>2. CASE /\ i = Fallback(d) /\ d.endpoint # ""
                 /\ DiscoveryEnabled /\ key(d) \in ToolIDs => Pick(instances[key(d)]) = {}
        <5>1. i.endpoint # ""
          BY <4>2 DEF Fallback
        <5>2. DiscoveryEnabled /\ key(d) \in ToolIDs => <<key(d), None>> \in ListedNow
          <6> SUFFICES ASSUME DiscoveryEnabled, key(d) \in ToolIDs
                       PROVE  <<key(d), None>> \in ListedNow
            OBVIOUS
          <6> DEFINE id == key(d)
          <6>1. id \in ToolIDs /\ Pick(instances[id]) = {}
            BY <4>2
          <6> HIDE DEF id
          <6>2. <<id, None>> \in ListedNow
            BY <6>1 DEF ListedNow
          <6> QED BY <6>2 DEF id
        <5>3. DiscoveryEnabled /\ key(d) \in ToolIDs => <<key(d), None>> \in heard'[g]
          BY <3>2, <3>4, <5>2
        <5>4. i = Fallback(d)
          BY <4>2
        <5> QED BY <5>1, <5>3, <5>4
      <4> QED BY <3>1, <3>5, <4>1, <4>2, ResolvedInstances
    <3>7. \A i \in Pick(found) : i \in ToSet(found) /\ ToSet(<<i>>) = {i}
      <4>1. found \in Seq(InstanceRecords)
        BY <3>1, <3>5, ResolvedInstances
      <4> HIDE DEF found
      <4>2. Pick(found) \subseteq ToSet(found)
        BY <4>1, HealthyOf
      <4>3. \A i : ToSet(<<i>>) = {i}
        BY DEF ToSet
      <4> QED BY <4>2, <4>3
    <3> HIDE DEF found, Fits
    <3>8. CASE insts'[g] = insts[g]
      BY <2>5, <3>1, <3>8
    <3>9. CASE insts'[g] = found
      BY <3>1, <3>6, <3>9
    <3>10. CASE \E i \in Pick(found) : insts'[g] = <<i>>
      <4>1. \A j \in ToSet(insts'[g]) : j \in ToSet(found)
        BY <3>7, <3>10
      <4> QED BY <3>1, <3>6, <4>1
    <3> QED BY <3>3, <3>8, <3>9, <3>10
  <2>10. CASE Reply(g)
    <3>1. insts'[g] = <<>>
      BY <2>1, <2>10 DEF Reply, AllShaped, Shaped
    <3> QED BY <2>4, <3>1
  <2>11. ASSUME NEW ok \in BOOLEAN, Return(g, ok) PROVE Explained(g)'
    BY <2>1, <2>5, <2>11 DEF Return
  <2> HIDE DEF Explained
  <2> QED BY <2>6, <2>7, <2>8, <2>9, <2>10, <2>11, StepCases DEF Inv, Moves, Step
<1> QED BY <1>1, <1>2, ServiceInvariant, ServiceUpToDate, PTL DEF Spec

-----------------------------------------------------------------------------
\* Behind the handlers the store still implements the catalog: however requests
\* interleave, a registration touches its own record only and a deregistration
\* removes one tool or nothing.
THEOREM ServiceImplementsCatalog ==
    ASSUME SlashFreeDefs
    PROVE  Spec => ImplementsCatalog
<1>1. Init => C!CatalogInit
  BY DEF Init, StoreInit, C!CatalogInit, Range
<1>2. Inv /\ [Next]_vars => [C!CatalogNext]_(Range(tools))
  <2> SUFFICES ASSUME Inv, [Next]_vars PROVE [C!CatalogNext]_(Range(tools))
    OBVIOUS
  <2>1. StoreTypeOK
    BY DEF Inv, TypeOK
  <2>2. ASSUME NEW d \in ToolDefs, SaveTool(d) PROVE C!RegisterDef(d)
    BY <2>1, <2>2, SaveRegisters
  <2>3. ASSUME NEW id, Deregister(id) PROVE [C!CatalogNext]_(Range(tools))
    BY <2>1, <2>3, DeregisterRemovesATool DEF C!CatalogNext
  <2>4. CASE UNCHANGED tools
    BY <2>4 DEF Range
  <2> QED BY <2>2, <2>3, <2>4, SharedStep DEF C!CatalogNext
<1> QED BY <1>1, <1>2, ServiceInvariant, PTL DEF Spec, ImplementsCatalog, C!CatalogSpec

-----------------------------------------------------------------------------
(* The process: the request path with the metering recorder behind it.     *)

\* A step of the process is a step of the request path or leaves it alone.
THEOREM SystemServes == SysSpec => Spec
<1>1. SysInit => Init
  BY DEF SysInit
<1>2. [SysNext]_sysVars => [Next]_vars
  BY DEF SysNext, sysVars, ServiceStep, CallEnds, RecorderStep, Exit, Next
<1> QED BY <1>1, <1>2, PTL DEF SysSpec, Spec

\* So what is proved of the request path holds in the process, whatever the
\* recorder's worker does meanwhile and whenever the process ends.
THEOREM SystemRequestsServed ==
    SysSpec => [](TypeOK /\ AnswerExplained /\ InstancesExplained /\ CallLegitimate
                  /\ TransportAlwaysFound)
BY SystemServes, ServiceTyped, ServiceAnswerExplained, ServiceInstancesExplained,
   ServiceCallLegitimate, ServiceTransportAlwaysFound, PTL

\* Only an admitted request for invocation gets as far as a call.
OwnAdmitted(g) ==
    /\ pc[g] \in {"lookup", "discover", "calling"} => Refusal(req[g]) = None
    /\ pc[g] = "calling" => Route(req[g]) = "invoke"

Admitted == \A g \in Goroutines : OwnAdmitted(g)

LEMMA ServiceAdmitted == Spec => []Admitted
<1>1. Init => Admitted
  BY DEF Init, Admitted, OwnAdmitted
<1>2. Inv /\ Admitted /\ [Next]_vars => Admitted'
  <2> SUFFICES ASSUME Inv, Admitted, [Next]_vars, NEW g \in Goroutines PROVE OwnAdmitted(g)'
    BY DEF Admitted
  <2>1. AllShaped /\ OwnAdmitted(g)
    BY InvSplit DEF Admitted
  <2> USE <2>1 DEF AllShaped, Shaped, OwnAdmitted
  <2>2. CASE Untouched(g)
    BY <2>2 DEF Untouched
  <2>3. ASSUME NEW r \in Requests, Arrive(g, r) PROVE OwnAdmitted(g)'
    <3>1. CASE Refusal(r) # None
      BY <2>3, <3>1 DEF Arrive, Finish
    <3>2. CASE Refusal(r) = None
      <4>1. FirstStep[Route(r)] # "calling"
        BY <3>2, FirstStepTyped
      <4> QED BY <2>3, <3>2, <4>1 DEF Arrive, Goto
    <3> QED BY <3>1, <3>2
  <2>4. CASE Save(g) \/ Delete(g) \/ List(g) \/ Validate(g)
    BY <2>4 DEF Save, Delete, List, Validate, Finish
  <2>5. CASE Lookup(g)
    BY <2>5 DEF Lookup, Finish, Goto
  <2>6. CASE Discover(g)
    BY <2>6 DEF Discover, Finish, Goto
  <2>7. CASE Reply(g)
    BY <2>7 DEF Reply
  <2>8. ASSUME NEW ok \in BOOLEAN, Return(g, ok) PROVE OwnAdmitted(g)'
    BY <2>8 DEF Return, Finish
  <2> HIDE DEF OwnAdmitted
  <2> QED BY <2>2, <2>3, <2>4, <2>5, <2>6, <2>7, <2>8, StepCases DEF Inv, Moves, Step
<1> QED BY <1>1, <1>2, ServiceInvariant, PTL DEF Spec

\* What record builds when a call ends is a CallMetric.
LEMMA MetricTyped ==
    ASSUME Inv, Admitted, NEW g \in Goroutines, pc[g] = "calling",
           NEW ms \in Latencies, NEW ok \in BOOLEAN
    PROVE  Metric(g, ms, ok) \in R!CallMetric /\ Name(req[g]) \in ToolNames
<1>1. Refusal(req[g]) = None /\ Route(req[g]) = "invoke"
  BY DEF Admitted, OwnAdmitted
<1>2. req[g] \in Requests
  BY InvSplit DEF OwnTyped
<1> QED BY <1>1, <1>2, MetricFields DEF Metric, R!CallMetric

\* The recorder inside the process is the recorder its own theorems are about.
THEOREM SystemRecorderRefined == SysSpec => RecorderRefined
<1>1. SysInit => R!Init
  BY DEF SysInit
<1>2. Inv /\ Admitted /\ [SysNext]_sysVars => [R!Next]_(R!vars)
  <2> SUFFICES ASSUME Inv, Admitted, [SysNext]_sysVars PROVE [R!Next]_(R!vars)
    OBVIOUS
  <2>1. UNCHANGED recorder => UNCHANGED R!vars
    BY DEF recorder, R!vars, R!worker, R!aggregates, R!history
  <2>2. ASSUME NEW g \in Goroutines, NEW ms \in Latencies, NEW ok \in BOOLEAN, CallEnds(g, ms, ok)
        PROVE  R!Next
    BY <2>2, MetricTyped DEF CallEnds, Return, R!Next
  <2>3. CASE RecorderStep
    BY <2>3 DEF RecorderStep, R!Next
  <2>4. CASE ServiceStep \/ Exit \/ UNCHANGED sysVars
    BY <2>1, <2>4 DEF ServiceStep, Exit, sysVars
  <2> QED BY <2>2, <2>3, <2>4 DEF SysNext
<1> QED BY <1>1, <1>2, SystemServes, ServiceInvariant, ServiceAdmitted, PTL
        DEF SysSpec, RecorderRefined, R!Spec

-----------------------------------------------------------------------------
(* So what is proved of the recorder holds of the one in the process.      *)

RP == INSTANCE RecorderProof WITH pc <- wpc

LEMMA RecorderSame == SysSpec => RP!Spec
<1>1. R!Init => RP!Init
  BY DEF R!Init, RP!Init, R!NoCalls, RP!NoCalls, R!NoRows, RP!NoRows
<1>2. [R!Next]_(R!vars) => [RP!Next]_(RP!vars)
  BY DEF R!Next, RP!Next, R!vars, RP!vars, R!worker, RP!worker, R!aggregates, RP!aggregates,
         R!history, RP!history, R!Record, RP!Record, R!Enqueue, RP!Enqueue, R!Drop, RP!Drop,
         R!Capacity, RP!Capacity, R!CallMetric, RP!CallMetric,
         R!Drain, RP!Drain, R!Receive, RP!Receive, R!SeeClosed, RP!SeeClosed,
         R!FlushDone, RP!FlushDone, R!Aggregate, RP!Aggregate, R!Sink, RP!Sink,
         R!Snapshot, RP!Snapshot, R!SnapshotRow, RP!SnapshotRow,
         R!Close, RP!Close, R!CloseReturn, RP!CloseReturn
<1> QED BY <1>1, <1>2, SystemRecorderRefined, PTL DEF RecorderRefined, R!Spec, RP!Spec

LEMMA RecorderInvariants == SysSpec => [](R!TypeOK /\ R!ExactlyOnceInOrder)
<1>1. RP!TypeOK => R!TypeOK
  BY DEF R!TypeOK, RP!TypeOK, R!CallMetric, RP!CallMetric, R!Capacity, RP!Capacity, R!Row, RP!Row
<1>2. RP!ExactlyOnceInOrder => R!ExactlyOnceInOrder
  BY DEF R!ExactlyOnceInOrder, RP!ExactlyOnceInOrder
<1>3. RP!Spec => []RP!TypeOK
  BY RP!RecorderTyped, MetricFields, Zenon
<1>4. RP!Spec => []RP!ExactlyOnceInOrder
  BY RP!RecorderExactlyOnce, MetricFields, Zenon
<1> QED BY <1>1, <1>2, <1>3, <1>4, RecorderSame, PTL

\* What GET /metrics shows is, at every instant, the exact account of a prefix of
\* the transport calls that the running process has recorded, and its counters
\* never go back.
THEOREM SystemMetricsExact == SysSpec => []R!SnapshotIsConsistentCut /\ R!SnapshotMonotone
<1>1. RP!SnapshotIsConsistentCut => R!SnapshotIsConsistentCut
  <2>1. ASSUME NEW s, NEW t
        PROVE  /\ R!CallsOf(s, t) = RP!CallsOf(s, t)
               /\ R!SuccessesOf(s, t) = RP!SuccessesOf(s, t)
               /\ R!FailuresOf(s, t) = RP!FailuresOf(s, t)
    BY DEF R!CallsOf, RP!CallsOf, R!SuccessesOf, RP!SuccessesOf, R!FailuresOf, RP!FailuresOf,
           R!Cardinality, RP!Cardinality
  <2>2. ASSUME NEW s, NEW t PROVE R!LatencyOf(s, t) = RP!LatencyOf(s, t)
    BY DEF R!LatencyOf, RP!LatencyOf
  <2>3. ASSUME NEW s PROVE R!RowsOf(s) = RP!RowsOf(s)
    BY <2>1, <2>2 DEF R!RowsOf, RP!RowsOf
  <2> QED BY <2>3 DEF R!SnapshotIsConsistentCut, RP!SnapshotIsConsistentCut
<1>2. [\A t \in ToolNames : /\ snap[t].calls <= snap'[t].calls
                            /\ snap[t].fail <= snap'[t].fail]_(RP!vars)
      => [\A t \in ToolNames : /\ snap[t].calls <= snap'[t].calls
                               /\ snap[t].fail <= snap'[t].fail]_(R!vars)
  BY DEF R!vars, RP!vars, R!worker, RP!worker, R!aggregates, RP!aggregates, R!history, RP!history
<1>3. RP!Spec => []RP!SnapshotIsConsistentCut
  BY RP!RecorderSnapshotIsConsistentCut, MetricFields, Zenon
<1>4. RP!Spec => RP!SnapshotMonotone
  BY RP!RecorderSnapshotMonotone, MetricFields, Zenon
<1> QED BY <1>1, <1>2, <1>3, <1>4, RecorderSame, PTL DEF R!SnapshotMonotone, RP!SnapshotMonotone

\* When the process ends, the events it loses are those the buffer and the
\* worker's hand can hold.
THEOREM SystemLossBounded == SysSpec => []LossBounded
<1>1. R!TypeOK /\ R!ExactlyOnceInOrder => LossBounded
  <2> SUFFICES ASSUME R!TypeOK, R!ExactlyOnceInOrder
               PROVE  Len(accepted) - Len(delivered) <= R!Capacity + 1
    BY DEF LossBounded
  <2>1. /\ ch \in Seq(R!CallMetric) /\ Len(ch) <= R!Capacity
        /\ delivered \in Seq(R!CallMetric)
        /\ hand = <<>> \/ \E m \in R!CallMetric : hand = <<m>>
    BY DEF R!TypeOK
  <2>2. hand \in Seq(R!CallMetric) /\ Len(hand) <= 1
    <3>1. CASE hand = <<>>
      BY <3>1
    <3>2. ASSUME NEW m \in R!CallMetric, hand = <<m>> PROVE hand \in Seq(R!CallMetric) /\ Len(hand) <= 1
      BY <3>2
    <3> QED BY <2>1, <3>1, <3>2
  <2>3. accepted = delivered \o hand \o ch
    BY DEF R!ExactlyOnceInOrder
  <2>4. Len(accepted) = Len(delivered) + Len(hand) + Len(ch)
    <3> DEFINE front == delivered \o hand
    <3>1. front \in Seq(R!CallMetric) /\ Len(front) = Len(delivered) + Len(hand)
      BY <2>1, <2>2
    <3>2. accepted = front \o ch
      BY <2>3
    <3> HIDE DEF front
    <3>3. Len(accepted) = Len(front) + Len(ch)
      BY <2>1, <3>1, <3>2, ConcatProperties
    <3> QED BY <3>1, <3>3
  <2>5. R!Capacity \in Int
    BY MetricFields DEF R!Capacity
  <2> QED BY <2>1, <2>2, <2>4, <2>5
<1> QED BY <1>1, RecorderInvariants, PTL

\* How many events of a tool a sequence holds is a number.
LEMMA CallsOfNat ==
    ASSUME NEW c \in Seq(R!CallMetric), NEW n
    PROVE  /\ IsFiniteSet({i \in DOMAIN c : c[i].tool = n})
           /\ R!CallsOf(c, n) = Cardinality({i \in DOMAIN c : c[i].tool = n})
           /\ R!CallsOf(c, n) \in Nat
<1> DEFINE A == {i \in DOMAIN c : c[i].tool = n}
<1>1. \A S : R!Cardinality(S) = Cardinality(S)
  BY DEF R!Cardinality, Cardinality
<1>2. R!CallsOf(c, n) = Cardinality(A)
  BY <1>1 DEF R!CallsOf
<1>3. A \in SUBSET (1..Len(c)) /\ IsFiniteSet(1..Len(c))
  BY FS_Interval
<1> HIDE DEF A
<1>4. IsFiniteSet(A)
  BY <1>3, FS_Subset
<1>5. Cardinality(A) \in Nat
  BY <1>4, FS_CardinalityType
<1> QED BY <1>2, <1>4, <1>5 DEF A

\* An event taken from the front of a sequence is counted under its tool alone.
LEMMA CallsOfFront ==
    ASSUME NEW c \in Seq(R!CallMetric), NEW m \in R!CallMetric, NEW n
    PROVE  R!CallsOf(<<m>> \o c, n) = R!CallsOf(c, n) + (IF m.tool = n THEN 1 ELSE 0)
<1> DEFINE a == <<m>> \o c
           A == {i \in DOMAIN c : c[i].tool = n}
           B == {i + 1 : i \in A}
           D == {i \in DOMAIN a : a[i].tool = n}
           shift == [i \in A |-> i + 1]
<1>1. a \in Seq(R!CallMetric)
  OBVIOUS
<1>2. R!CallsOf(c, n) = Cardinality(A) /\ R!CallsOf(a, n) = Cardinality(D)
  BY <1>1, CallsOfNat
<1>3. /\ Len(c) \in Nat /\ DOMAIN c = 1..Len(c)
      /\ DOMAIN a = 1..(Len(c) + 1)
      /\ a[1] = m /\ \A i \in 1..Len(c) : a[i + 1] = c[i]
  OBVIOUS
<1>4. IsFiniteSet(A)
  BY CallsOfNat
<1>5. IsFiniteSet(B) /\ Cardinality(B) = Cardinality(A)
  <2>1. \A i \in A : i \in Int
    BY <1>3
  <2>2. shift \in Bijection(A, B)
    <3>1. shift \in [A -> B]
      OBVIOUS
    <3>2. \A i, j \in A : shift[i] = shift[j] => i = j
      BY <2>1
    <3>3. \A k \in B : \E i \in A : shift[i] = k
      OBVIOUS
    <3> HIDE DEF A, B, shift
    <3> QED BY <3>1, <3>2, <3>3 DEF Bijection, Injection, Surjection, IsInjective
  <2>3. ExistsBijection(A, B)
    BY <2>2 DEF ExistsBijection
  <2> HIDE DEF A, B
  <2> QED BY <1>4, <2>3, FS_Bijection
<1>6. D = IF m.tool = n THEN B \cup {1} ELSE B
  <2>1. ASSUME NEW j \in 1..(Len(c) + 1), j # 1
        PROVE  j - 1 \in 1..Len(c) /\ a[j] = c[j - 1] /\ j = (j - 1) + 1
    BY <1>3, <2>1
  <2>2. \A j \in 1..(Len(c) + 1) : j # 1 => (a[j].tool = n <=> j \in B)
    <3> SUFFICES ASSUME NEW j \in 1..(Len(c) + 1), j # 1 PROVE a[j].tool = n <=> j \in B
      OBVIOUS
    <3>1. j \in B => j - 1 \in A
      BY <1>3
    <3> QED BY <1>3, <2>1, <3>1
  <2>3. \A j \in B : j \in 1..(Len(c) + 1) /\ j # 1
    BY <1>3
  <2>4. 1 \in 1..(Len(c) + 1)
    BY <1>3
  <2> HIDE DEF B, a
  <2> QED BY <1>3, <2>2, <2>3, <2>4
<1>7. 1 \notin B
  BY <1>3
<1> HIDE DEF A, B, D, a
<1>8. R!CallsOf(c, n) \in Nat
  BY CallsOfNat
<1>9. Cardinality(B \cup {1}) = Cardinality(B) + 1
  BY <1>5, <1>7, FS_AddElement
<1>10. Cardinality(D) = Cardinality(A) + (IF m.tool = n THEN 1 ELSE 0)
  BY <1>2, <1>5, <1>6, <1>8, <1>9
<1> QED BY <1>2, <1>10 DEF a

\* So is an event put at the back.
LEMMA CallsOfBack ==
    ASSUME NEW s \in Seq(R!CallMetric), NEW m \in R!CallMetric, NEW n \in ToolNames
    PROVE  R!CallsOf(Append(s, m), n) = R!CallsOf(s, n) + (IF m.tool = n THEN 1 ELSE 0)
<1>1. \A q, t : R!CallsOf(q, t) = RP!CallsOf(q, t)
  BY DEF R!CallsOf, RP!CallsOf, R!Cardinality, RP!Cardinality
<1>2. s \in Seq(RP!CallMetric) /\ m \in RP!CallMetric
  BY DEF R!CallMetric, RP!CallMetric
<1>3. RP!CallsOf(Append(s, m), n) = RP!CallsOf(s, n) + (IF m.tool = n THEN 1 ELSE 0)
  BY <1>2, MetricFields, RP!CountsOfAppend
<1> QED BY <1>1, <1>3

\* Every transport call that has ended is in the aggregates, on its way there
\* or dropped, under its own tool.
THEOREM SystemMeteringConserved == SysSpec => []MeteringConserved
<1> DEFINE Waiting == (IF wpc = "aggregate" THEN hand ELSE <<>>) \o ch
           Counters == ended \in [ToolNames -> Int] /\ lost \in [ToolNames -> Int]
           Balanced(n) == ended[n] = calls[n] + R!CallsOf(Waiting, n) + lost[n]
<1>1. SysInit => Counters /\ MeteringConserved
  <2> SUFFICES ASSUME SysInit PROVE Counters /\ MeteringConserved
    OBVIOUS
  <2>1. /\ ended = [n \in ToolNames |-> 0] /\ lost = ended /\ calls = ended
        /\ (IF wpc = "aggregate" THEN hand ELSE <<>>) \o ch = <<>>
    BY DEF SysInit, R!Init, R!NoCalls
  <2>2. \A n : R!CallsOf(<<>>, n) = 0
    <3>1. \A S : R!Cardinality(S) = Cardinality(S)
      BY DEF R!Cardinality, Cardinality
    <3>2. \A n : {i \in DOMAIN <<>> : <<>>[i].tool = n} = {}
      OBVIOUS
    <3> QED BY <3>1, <3>2, FS_EmptySet DEF R!CallsOf
  <2> QED BY <2>1, <2>2 DEF MeteringConserved
<1>2. /\ Inv /\ Admitted /\ R!TypeOK /\ R!TypeOK' /\ Counters /\ MeteringConserved
      /\ [SysNext]_sysVars
      => Counters' /\ MeteringConserved'
  <2> SUFFICES ASSUME Inv, Admitted, R!TypeOK, R!TypeOK', Counters, MeteringConserved,
                      [SysNext]_sysVars
               PROVE  Counters' /\ MeteringConserved'
    OBVIOUS
  <2>1. \A n \in ToolNames : Balanced(n)
    BY DEF MeteringConserved
  <2>2. (\A n \in ToolNames : Balanced(n)') => MeteringConserved'
    BY DEF MeteringConserved
  <2>3. CASE UNCHANGED <<wpc, hand, ch, calls, ended, lost>>
    BY <2>3 DEF MeteringConserved
  <2>4. /\ ch \in Seq(R!CallMetric) /\ calls \in [ToolNames -> Nat] /\ dropped \in Nat
        /\ Waiting \in Seq(R!CallMetric)
        /\ wpc = "aggregate" => \E m \in R!CallMetric : hand = <<m>>
    <3>1. ch \in Seq(R!CallMetric) /\ calls \in [ToolNames -> Nat] /\ dropped \in Nat
      BY DEF R!TypeOK
    <3>2. wpc = "aggregate" => \E m \in R!CallMetric : hand = <<m>>
      BY DEF R!TypeOK
    <3>3. CASE wpc # "aggregate"
      BY <3>1, <3>2, <3>3
    <3>4. ASSUME wpc = "aggregate", NEW m \in R!CallMetric, hand = <<m>>
          PROVE  Waiting \in Seq(R!CallMetric)
      BY <3>1, <3>4
    <3> QED BY <3>1, <3>2, <3>3, <3>4
  <2>5. \A n : R!CallsOf(Waiting, n) \in Nat
    BY <2>4, CallsOfNat
  <2>6. ASSUME NEW g \in Goroutines, NEW ms \in Latencies, NEW ok \in BOOLEAN, CallEnds(g, ms, ok)
        PROVE  Counters' /\ MeteringConserved'
    <3> DEFINE m == Metric(g, ms, ok)
               name == Name(req[g])
               more == dropped' - dropped
    <3>1. m \in R!CallMetric /\ name \in ToolNames /\ m.tool = name
      BY <2>6, MetricTyped DEF CallEnds, Return, Metric
    <3>2. /\ ended' = [ended EXCEPT ![name] = @ + 1]
          /\ lost' = [lost EXCEPT ![name] = @ + more]
          /\ UNCHANGED <<wpc, hand, calls>>
      BY <2>6 DEF CallEnds, Count, R!Record, R!worker, R!aggregates
    <3>3. R!Enqueue(m) \/ R!Drop
      BY <2>6 DEF CallEnds, R!Record
    <3>4. more \in Int
      BY <2>4, <3>3 DEF R!Enqueue, R!Drop
    <3> HIDE DEF m, name
    <3>5. Counters'
      BY <3>1, <3>2, <3>4
    <3>6. ASSUME NEW n \in ToolNames PROVE Balanced(n)'
      <4> DEFINE hit == IF n = name THEN 1 ELSE 0
                 gone == IF n = name THEN more ELSE 0
      <4>1. R!CallsOf(Waiting', n) + gone = R!CallsOf(Waiting, n) + hit
        <5>1. CASE R!Enqueue(m)
          <6>1. more = 0
            BY <2>4, <5>1 DEF R!Enqueue
          <6>2. Waiting' = Append(Waiting, m)
            <7> DEFINE front == IF wpc = "aggregate" THEN hand ELSE <<>>
            <7>1. front \in Seq(R!CallMetric)
              BY <2>4
            <7>2. Waiting = front \o ch /\ Waiting' = front \o Append(ch, m)
              BY <3>2, <5>1 DEF R!Enqueue
            <7> HIDE DEF front, Waiting
            <7> QED BY <2>4, <3>1, <7>1, <7>2
          <6>3. R!CallsOf(Append(Waiting, m), n) = R!CallsOf(Waiting, n) + hit
            BY <2>4, <3>1, CallsOfBack
          <6> HIDE DEF Waiting, more
          <6> QED BY <2>5, <6>1, <6>2, <6>3
        <5>2. CASE R!Drop
          <6>1. Waiting' = Waiting /\ more = 1
            BY <2>4, <3>2, <5>2 DEF R!Drop
          <6> HIDE DEF Waiting, more
          <6> QED BY <2>5, <6>1
        <5> QED BY <3>3, <5>1, <5>2
      <4>2. /\ ended'[n] = ended[n] + hit /\ lost'[n] = lost[n] + gone
            /\ calls'[n] = calls[n] /\ calls[n] \in Nat /\ ended[n] \in Int /\ lost[n] \in Int
        BY <2>4, <3>1, <3>2, <3>4
      <4>3. R!CallsOf(Waiting', n) \in Int
        <5>1. Waiting' \in Seq(R!CallMetric)
          <6>1. CASE R!Enqueue(m)
            BY <2>4, <3>1, <3>2, <6>1 DEF R!Enqueue
          <6>2. CASE R!Drop
            BY <2>4, <3>2, <6>2 DEF R!Drop
          <6> QED BY <3>3, <6>1, <6>2
        <5> HIDE DEF Waiting
        <5>2. \A c \in Seq(R!CallMetric) : R!CallsOf(c, n) \in Nat
          BY CallsOfNat
        <5> QED BY <5>1, <5>2
      <4>4. Balanced(n)
        BY <2>1
      <4>5. hit \in Int /\ gone \in Int
        BY <3>4
      <4> HIDE DEF Waiting, more, hit, gone
      <4> QED BY <2>5, <4>1, <4>2, <4>3, <4>4, <4>5
    <3> QED BY <2>2, <3>5, <3>6
  <2>7. CASE R!Aggregate /\ UNCHANGED <<ended, lost>>
    <3>1. PICK m \in R!CallMetric : hand = <<m>>
      BY <2>4, <2>7 DEF R!Aggregate
    <3>2. /\ Waiting = <<m>> \o ch /\ Waiting' = ch
          /\ calls' = [calls EXCEPT ![m.tool] = @ + 1]
      BY <2>4, <2>7, <3>1 DEF R!Aggregate
    <3> HIDE DEF Waiting
    <3>3. ASSUME NEW n \in ToolNames PROVE Balanced(n)'
      <4>1. Balanced(n) /\ calls[n] \in Nat
        BY <2>1, <2>4
      <4>2. calls'[n] = calls[n] + (IF m.tool = n THEN 1 ELSE 0)
        BY <2>4, <3>2
      <4>3. /\ R!CallsOf(ch, n) \in Nat
            /\ R!CallsOf(Waiting, n) = R!CallsOf(ch, n) + (IF m.tool = n THEN 1 ELSE 0)
        BY <2>4, <3>2, CallsOfFront, CallsOfNat
      <4>4. ended'[n] = ended[n] /\ lost'[n] = lost[n]
        BY <2>7
      <4> QED BY <3>2, <4>1, <4>2, <4>3, <4>4
    <3> QED BY <2>2, <2>7, <3>3
  <2>8. CASE RecorderStep
    <3>1. UNCHANGED <<ended, lost>>
      BY <2>8 DEF RecorderStep
    <3>2. CASE R!Aggregate
      BY <2>7, <3>1, <3>2
    <3>3. CASE R!Receive \/ R!SeeClosed \/ R!FlushDone \/ R!Sink \/ R!Snapshot
      <4>1. Waiting' = Waiting /\ calls' = calls
        <5>1. CASE R!Receive
          BY <2>4, <5>1 DEF R!Receive, R!aggregates
        <5>2. CASE R!SeeClosed \/ R!FlushDone \/ R!Sink \/ R!Snapshot
          BY <5>2 DEF R!SeeClosed, R!FlushDone, R!Sink, R!Snapshot, R!aggregates, R!worker
        <5> QED BY <3>3, <5>1, <5>2
      <4> QED BY <2>1, <2>2, <3>1, <4>1
    <3> QED BY <2>8, <3>2, <3>3 DEF RecorderStep, R!Drain
  <2>9. CASE ServiceStep \/ Exit \/ UNCHANGED sysVars
    BY <2>3, <2>9 DEF ServiceStep, Exit, sysVars, recorder
  <2> QED BY <2>6, <2>8, <2>9 DEF SysNext
<1> QED BY <1>1, <1>2, SystemServes, ServiceInvariant, ServiceAdmitted, RecorderInvariants, PTL
        DEF SysSpec
=============================================================================
