--------------------------- MODULE DiscoveryProof ---------------------------
(* Service discovery keeps one instance per endpoint, and the weighted     *)
(* choice among the healthy ones is what it says, for all instances,       *)
(* weights and sizes of an int.                                            *)
EXTENDS Discovery, Balancer, Foundations, TLAPS

-----------------------------------------------------------------------------
(* The lists of instances.                                                 *)

Distinct(list) ==
    \A i, j \in 1..Len(list) : list[i].endpoint = list[j].endpoint => i = j

\* The new instance is appended, or takes the place of one with its endpoint.
Reported(old, new, inst) ==
    \/ /\ \A i \in 1..Len(old) : old[i].endpoint # inst.endpoint
       /\ new = Append(old, inst)
    \/ \E m \in 1..Len(old) :
          old[m].endpoint = inst.endpoint /\ new = [old EXCEPT ![m] = inst]

\* What reporting an instance does to the tool's list.
LEMMA InstanceReported ==
    ASSUME DiscoveryTypeOK, NEW id \in ToolIDs, NEW inst \in InstanceOffers,
           RegisterInstance(id, inst)
    PROVE  /\ instances' = [instances EXCEPT ![id] = instances'[id]]
           /\ Reported(instances[id], instances'[id], inst)
<1> DEFINE list == instances[id]
           same == {i \in DOMAIN list : list[i].endpoint = inst.endpoint}
<1>1. list \in Seq(InstanceOffers) /\ DOMAIN list = 1..Len(list)
  BY DEF DiscoveryTypeOK
<1>2. instances' = [instances EXCEPT ![id] = IF same = {} THEN Append(list, inst)
                                             ELSE [list EXCEPT ![Min(same)] = inst]]
  BY DEF RegisterInstance
<1>3. instances'[id] = IF same = {} THEN Append(list, inst)
                       ELSE [list EXCEPT ![Min(same)] = inst]
  BY <1>2 DEF DiscoveryTypeOK
<1>4. same # {} => Min(same) \in same
  <2>1. same \in SUBSET Nat
    BY <1>1
  <2> HIDE DEF same
  <2> QED BY <2>1, MinOfNaturals
<1>5. CASE same = {}
  BY <1>1, <1>2, <1>3, <1>5 DEF Reported
<1>6. CASE same # {}
  BY <1>1, <1>2, <1>3, <1>4, <1>6 DEF Reported
<1> QED BY <1>5, <1>6

\* What taking an instance off does: the others stay, in their order.
LEMMA InstanceRemoved ==
    ASSUME DiscoveryTypeOK, NEW id \in ToolIDs, NEW endpoint, DeregisterInstance(id, endpoint)
    PROVE  /\ instances' = [instances EXCEPT ![id] = instances'[id]]
           /\ instances'[id] \in Seq(InstanceOffers)
           /\ \E p : Picks(p, instances'[id], instances[id],
                       {i \in 1..Len(instances[id]) : instances[id][i].endpoint # endpoint})
<1> DEFINE list == instances[id]
           I == {i \in 1..Len(list) : list[i].endpoint # endpoint}
<1>1. list \in Seq(InstanceOffers) /\ DOMAIN list = 1..Len(list)
  BY DEF DiscoveryTypeOK
<1>2. instances' = [instances EXCEPT ![id] = Kept(list, I)]
  BY <1>1 DEF DeregisterInstance
<1>3. instances'[id] = Kept(list, I)
  BY <1>2 DEF DiscoveryTypeOK
<1>4. Kept(list, I) \in Seq(InstanceOffers) /\ \E p : Picks(p, Kept(list, I), list, I)
  <2>1. I \in SUBSET (1..Len(list))
    OBVIOUS
  <2> HIDE DEF I, list
  <2> QED BY <1>1, <2>1, KeptProperties
<1> QED BY <1>2, <1>3, <1>4

\* Reports keep the lists typed.
LEMMA DiscoveryStepTyped ==
    ASSUME DiscoveryTypeOK, [DiscoveryNext]_instances
    PROVE  DiscoveryTypeOK'
<1>1. ASSUME NEW id \in ToolIDs, NEW inst \in InstanceOffers, RegisterInstance(id, inst)
      PROVE  DiscoveryTypeOK'
  <2>1. instances'[id] \in Seq(InstanceOffers)
    <3>1. instances[id] \in Seq(InstanceOffers)
      BY DEF DiscoveryTypeOK
    <3>2. Append(instances[id], inst) \in Seq(InstanceOffers)
      BY <3>1
    <3>3. ASSUME NEW m \in 1..Len(instances[id])
          PROVE  [instances[id] EXCEPT ![m] = inst] \in Seq(InstanceOffers)
      BY <3>1, ExceptSeq
    <3> HIDE DEF DiscoveryTypeOK
    <3>4. Reported(instances[id], instances'[id], inst)
      BY <1>1, InstanceReported
    <3> QED BY <3>2, <3>3, <3>4, Zenon DEF Reported
  <2> QED BY <1>1, <2>1, InstanceReported DEF DiscoveryTypeOK
<1>2. ASSUME NEW id \in ToolIDs, NEW inst \in InstanceOffers,
             DeregisterInstance(id, inst.endpoint)
      PROVE  DiscoveryTypeOK'
  BY <1>2, InstanceRemoved DEF DiscoveryTypeOK
<1>3. CASE UNCHANGED instances
  BY <1>3 DEF DiscoveryTypeOK
<1> QED BY <1>1, <1>2, <1>3 DEF DiscoveryNext

\* Every list holds reported instances only.
THEOREM DiscoveryTyped == DiscoverySpec => []DiscoveryTypeOK
<1>1. DiscoveryInit => DiscoveryTypeOK
  BY DEF DiscoveryInit, DiscoveryTypeOK
<1>2. DiscoveryTypeOK /\ [DiscoveryNext]_instances => DiscoveryTypeOK'
  BY DiscoveryStepTyped
<1> QED BY <1>1, <1>2, PTL DEF DiscoverySpec

\* Whatever is reported and taken off, an endpoint is listed once per tool.
THEOREM DiscoveryOneInstancePerEndpoint == DiscoverySpec => []OneInstancePerEndpoint
<1>0. DiscoveryTypeOK => (OneInstancePerEndpoint <=> \A id \in ToolIDs : Distinct(instances[id]))
  <2>1. DiscoveryTypeOK => \A id \in ToolIDs : DOMAIN instances[id] = 1..Len(instances[id])
    BY DEF DiscoveryTypeOK
  <2> QED BY <2>1 DEF OneInstancePerEndpoint, Distinct
<1>1. DiscoveryInit => OneInstancePerEndpoint
  BY DEF DiscoveryInit, OneInstancePerEndpoint
<1>2. DiscoveryTypeOK /\ OneInstancePerEndpoint /\ [DiscoveryNext]_instances
        => OneInstancePerEndpoint'
  <2> SUFFICES ASSUME DiscoveryTypeOK, [DiscoveryNext]_instances, NEW tool \in ToolIDs,
                      \A id \in ToolIDs : Distinct(instances[id])
               PROVE  Distinct(instances'[tool])
    <3>1. DiscoveryTypeOK /\ [DiscoveryNext]_instances => DiscoveryTypeOK'
      BY DiscoveryStepTyped
    <3>2. DiscoveryTypeOK' => (OneInstancePerEndpoint' <=>
                                 \A id \in ToolIDs : Distinct(instances'[id]))
      <4>1. DiscoveryTypeOK' => \A id \in ToolIDs : DOMAIN instances'[id] = 1..Len(instances'[id])
        BY DEF DiscoveryTypeOK
      <4> QED BY <4>1 DEF OneInstancePerEndpoint, Distinct
    <3> QED BY <1>0, <3>1, <3>2
  <2>0. instances[tool] \in Seq(InstanceOffers) /\ Len(instances[tool]) \in Nat
    BY DEF DiscoveryTypeOK
  <2>1. ASSUME NEW id \in ToolIDs, NEW inst \in InstanceOffers, RegisterInstance(id, inst)
        PROVE  Distinct(instances'[tool])
    <3>1. CASE id # tool
      BY <2>1, <3>1, InstanceReported DEF DiscoveryTypeOK
    <3>2. CASE id = tool
      <4>1. CASE /\ \A i \in 1..Len(instances[tool]) : instances[tool][i].endpoint # inst.endpoint
                 /\ instances'[tool] = Append(instances[tool], inst)
        BY <2>0, <4>1 DEF Distinct
      <4>2. ASSUME NEW m \in 1..Len(instances[tool]),
                   instances[tool][m].endpoint = inst.endpoint,
                   instances'[tool] = [instances[tool] EXCEPT ![m] = inst]
            PROVE  Distinct(instances'[tool])
        <5>1. /\ Len(instances'[tool]) = Len(instances[tool])
              /\ \A i \in 1..Len(instances[tool]) :
                    instances'[tool][i].endpoint = instances[tool][i].endpoint
          BY <2>0, <4>2, ExceptSeq
        <5> QED BY <5>1 DEF Distinct
      <4>3. Reported(instances[tool], instances'[tool], inst)
        BY <2>1, <3>2, InstanceReported
      <4> QED BY <4>1, <4>2, <4>3, Zenon DEF Reported
    <3> QED BY <3>1, <3>2
  <2>2. ASSUME NEW id \in ToolIDs, NEW inst \in InstanceOffers,
               DeregisterInstance(id, inst.endpoint)
        PROVE  Distinct(instances'[tool])
    <3>1. CASE id # tool
      BY <2>2, <3>1, InstanceRemoved DEF DiscoveryTypeOK
    <3>2. CASE id = tool
      <4> DEFINE list == instances[tool]
                 new == instances'[tool]
                 I == {i \in 1..Len(list) : list[i].endpoint # inst.endpoint}
      <4>1. new \in Seq(InstanceOffers)
        BY <2>2, <3>2, InstanceRemoved
      <4>2. PICK p : Picks(p, new, list, I)
        BY <2>2, <3>2, InstanceRemoved
      <4>3. \A i \in I : i \in 1..Len(list)
        OBVIOUS
      <4> HIDE DEF I
      <4>4. \A j \in 1..Len(new) : p[j] \in I /\ new[j] = list[p[j]]
        BY <4>2 DEF Picks
      <4>5. \A j, k \in 1..Len(new) : p[j] = p[k] => j = k
        <5> SUFFICES ASSUME NEW j \in 1..Len(new), NEW k \in 1..Len(new), p[j] = p[k]
                     PROVE  j = k
          OBVIOUS
        <5>1. j \in Int /\ k \in Int /\ p[j] \in Int
          BY <4>1, <4>3, <4>4
        <5>2. ~(j < k) /\ ~(k < j)
          BY <4>2, <5>1 DEF Picks
        <5> QED BY <5>1, <5>2
      <4>6. Distinct(list)
        OBVIOUS
      <4> HIDE DEF list, new
      <4>7. Distinct(new)
        BY <4>3, <4>4, <4>5, <4>6 DEF Distinct
      <4> QED BY <4>7 DEF new
    <3> QED BY <3>1, <3>2
  <2>3. CASE UNCHANGED instances
    BY <2>3
  <2> QED BY <2>1, <2>2, <2>3 DEF DiscoveryNext
<1> QED BY <1>1, <1>2, DiscoveryTyped, PTL DEF DiscoverySpec

\* A report replaces what was listed for its endpoint of its tool, and nothing
\* else.
THEOREM DiscoveryReportsStick == DiscoverySpec => ReportsStick
<1>1. DiscoveryTypeOK /\ OneInstancePerEndpoint
        => [\A id \in ToolIDs, i \in InstanceOffers : RegisterInstance(id, i) =>
             /\ ToSet(instances'[id]) = {e \in ToSet(instances[id]) : e.endpoint # i.endpoint}
                                        \cup {i}
             /\ \A other \in ToolIDs \ {id} : instances'[other] = instances[other]]_instances
  <2> SUFFICES ASSUME DiscoveryTypeOK, OneInstancePerEndpoint,
                      NEW id \in ToolIDs, NEW inst \in InstanceOffers, RegisterInstance(id, inst)
               PROVE  /\ ToSet(instances'[id])
                           = {e \in ToSet(instances[id]) : e.endpoint # inst.endpoint} \cup {inst}
                      /\ \A other \in ToolIDs \ {id} : instances'[other] = instances[other]
    OBVIOUS
  <2>1. \A other \in ToolIDs \ {id} : instances'[other] = instances[other]
    BY InstanceReported DEF DiscoveryTypeOK
  <2> DEFINE list == instances[id]
             new == instances'[id]
             N == Len(list)
  <2>2. list \in Seq(InstanceOffers) /\ N \in Nat /\ DOMAIN list = 1..N
    BY DEF DiscoveryTypeOK
  <2>3. \A i, j \in 1..N : list[i].endpoint = list[j].endpoint => i = j
    BY <2>2 DEF OneInstancePerEndpoint
  <2>4. Reported(list, new, inst)
    BY InstanceReported
  <2> HIDE DEF list, new, N
  <2>5. ASSUME \A i \in 1..N : list[i].endpoint # inst.endpoint, new = Append(list, inst)
        PROVE  ToSet(new) = {e \in ToSet(list) : e.endpoint # inst.endpoint} \cup {inst}
    <3>1. /\ DOMAIN new = 1..(N + 1) /\ new[N + 1] = inst
          /\ \A i \in 1..N : new[i] = list[i]
      BY <2>2, <2>5 DEF N
    <3>2. 1..(N + 1) = (1..N) \cup {N + 1}
      BY <2>2
    <3>3. ToSet(new) = ToSet(list) \cup {inst}
      BY <2>2, <3>1, <3>2 DEF ToSet
    <3>4. \A e \in ToSet(list) : e.endpoint # inst.endpoint
      BY <2>2, <2>5 DEF ToSet
    <3> QED BY <3>3, <3>4
  <2>6. ASSUME NEW m \in 1..N, list[m].endpoint = inst.endpoint,
               new = [list EXCEPT ![m] = inst]
        PROVE  ToSet(new) = {e \in ToSet(list) : e.endpoint # inst.endpoint} \cup {inst}
    <3>1. /\ DOMAIN new = 1..N /\ new[m] = inst
          /\ \A i \in 1..N : i # m => new[i] = list[i]
      BY <2>2, <2>6
    <3>2. \A i \in 1..N : i # m => list[i].endpoint # inst.endpoint
      BY <2>3, <2>6
    <3>3. ASSUME NEW e \in ToSet(new)
          PROVE  e \in {x \in ToSet(list) : x.endpoint # inst.endpoint} \cup {inst}
      BY <2>2, <3>1, <3>2 DEF ToSet
    <3>4. ASSUME NEW e \in {x \in ToSet(list) : x.endpoint # inst.endpoint} \cup {inst}
          PROVE  e \in ToSet(new)
      <4>1. CASE e = inst
        BY <3>1, <4>1 DEF ToSet
      <4>2. CASE e \in ToSet(list) /\ e.endpoint # inst.endpoint
        <5>1. PICK i \in 1..N : e = list[i]
          BY <2>2, <4>2 DEF ToSet
        <5>2. i # m
          BY <2>6, <4>2, <5>1
        <5> QED BY <3>1, <5>1, <5>2 DEF ToSet
      <4> QED BY <4>1, <4>2
    <3> QED BY <3>3, <3>4
  <2>7. ToSet(new) = {e \in ToSet(list) : e.endpoint # inst.endpoint} \cup {inst}
    BY <2>4, <2>5, <2>6, Zenon DEF Reported, N
  <2> QED BY <2>1, <2>7 DEF list, new
<1> QED BY <1>1, DiscoveryTyped, DiscoveryOneInstancePerEndpoint, PTL DEF ReportsStick
-----------------------------------------------------------------------------
(* The weighted choice.                                                    *)

\* The healthy instances are a sequence with integer weights.
LEMMA HealthyTyped ==
    ASSUME offered \in Offers
    PROVE  /\ healthy \in Seq(ToSet(offered)) /\ Len(healthy) \in Nat
           /\ DOMAIN healthy = 1..Len(healthy)
           /\ \A n \in 1..Len(healthy) : Weight(healthy[n]) \in Nat /\ Weight(healthy[n]) >= 1
<1> DEFINE S == ToSet(offered)
           I == {i \in DOMAIN offered : offered[i].healthy}
<1>1. offered \in Seq(S) /\ \A i \in S : i.weight \in Int
  BY BalancerConstants
<1> HIDE DEF S
<1>2. I \in SUBSET (1..Len(offered))
  BY <1>1
<1>3. Kept(offered, I) \in Seq(S)
  BY <1>1, <1>2, KeptProperties
<1>4. healthy \in Seq(S)
  BY <1>3 DEF healthy, Healthy
<1>5. \A n \in 1..Len(healthy) : healthy[n].weight \in Int
  BY <1>1, <1>4
<1> QED BY <1>4, <1>5 DEF S, Weight

\* What the loop keeps true of at, and what it returns.
Choosing ==
    /\ offered \in Offers /\ dial \in 0..(Dial - 1)
    /\ returned \in BOOLEAN
    /\ at \in 0..Len(healthy)
    /\ ~returned /\ healthy # <<>> => at < Len(healthy)
    /\ PickedIsHealthy

\* The choice keeps to Choosing.
LEMMA ChoosingKept == BalancerSpec => []Choosing
<1>1. BalancerInit => Choosing
  <2> SUFFICES ASSUME BalancerInit PROVE Choosing
    OBVIOUS
  <2>1. offered \in Offers
    BY DEF BalancerInit
  <2>2. /\ Len(healthy) \in Nat
        /\ healthy # <<>> => 0 < Len(healthy)
    BY <2>1, HealthyTyped
  <2>3. at \in 0..Len(healthy) /\ (healthy # <<>> => at < Len(healthy))
    BY <2>2 DEF BalancerInit
  <2> QED BY <2>3, Zenon DEF BalancerInit, Choosing, PickedIsHealthy
<1>2. Choosing /\ [BalancerNext]_balancerVars => Choosing'
  <2> SUFFICES ASSUME Choosing, [BalancerNext]_balancerVars PROVE Choosing'
    OBVIOUS
  <2>1. /\ Len(healthy) \in Nat /\ DOMAIN healthy = 1..Len(healthy)
        /\ healthy # <<>> <=> ToSet(healthy) # {}
    <3>1. healthy \in Seq(ToSet(offered))
      BY HealthyTyped DEF Choosing
    <3>2. Len(healthy) \in Nat /\ DOMAIN healthy = 1..Len(healthy)
      BY <3>1
    <3>3. healthy # <<>> <=> DOMAIN healthy # {}
      BY <3>1
    <3>4. ToSet(healthy) # {} <=> DOMAIN healthy # {}
      BY DEF ToSet
    <3> QED BY <3>2, <3>3, <3>4
  <2>2. Pick(offered) = ToSet(healthy)
    BY DEF Pick, healthy
  <2>3. CASE PickAtOnce
    <3>1. UNCHANGED <<offered, dial, at>> /\ healthy' = healthy /\ Pick(offered)' = Pick(offered)
      BY <2>3 DEF PickAtOnce, healthy, Pick
    <3>2. PickedIsHealthy'
      BY <2>1, <2>2, <2>3, <3>1 DEF PickAtOnce, PickedIsHealthy
    <3> QED BY <2>3, <3>1, <3>2 DEF PickAtOnce, Choosing
  <2>4. CASE PickStep
    <3>1. UNCHANGED <<offered, dial>> /\ healthy' = healthy /\ Pick(offered)' = Pick(offered)
      BY <2>4 DEF PickStep, healthy, Pick
    <3>2. /\ at' = at + 1 /\ at' \in 1..Len(healthy) /\ healthy # <<>>
          /\ at' = Len(healthy) => returned'
          /\ returned' => picked' = healthy[at']
          /\ returned' \in BOOLEAN
      <4>1. at' = at + 1 /\ healthy # <<>> /\ ~returned
        BY <2>4 DEF PickStep
      <4>2. \/ picked' = healthy[at'] /\ returned' = TRUE
            \/ at' # Len(healthy) /\ returned' = returned
        BY <2>4 DEF PickStep
      <4>3. returned = FALSE
        BY <4>1, Zenon DEF Choosing
      <4>4. at \in 0..Len(healthy) /\ at < Len(healthy)
        BY <4>1 DEF Choosing
      <4>5. at + 1 \in 1..Len(healthy)
        BY <2>1, <4>4
      <4> QED BY <4>1, <4>2, <4>3, <4>5, Zenon
    <3>3. PickedIsHealthy'
      BY <2>1, <2>2, <3>1, <3>2 DEF PickedIsHealthy, ToSet
    <3>4. ~returned' => at' < Len(healthy)
      BY <2>1, <3>2
    <3>5. at' \in 0..Len(healthy)
      BY <2>1, <3>2
    <3> QED BY <3>1, <3>2, <3>3, <3>4, <3>5 DEF Choosing
  <2>5. CASE UNCHANGED balancerVars
    BY <2>5 DEF balancerVars, Choosing, PickedIsHealthy, healthy
  <2> QED BY <2>3, <2>4, <2>5 DEF BalancerNext
<1> QED BY <1>1, <1>2, PTL DEF BalancerSpec

\* Pick returns one of the healthy instances whatever their weights and however
\* their sum wraps around, and none only if there is none.
THEOREM BalancerPickedIsHealthy == BalancerSpec => []PickedIsHealthy
<1>1. Choosing => PickedIsHealthy
  BY DEF Choosing
<1> QED BY <1>1, ChoosingKept, PTL

\* A number that fits into an int does not wrap.
LEMMA WrapFits ==
    ASSUME NEW n \in 0..MaxInt
    PROVE  Wrap(n) = n
<1> DEFINE a == n + MaxInt + 1
           b == 2 * (MaxInt + 1)
<1>1. MaxInt \in Nat
  BY BalancerConstants
<1>2. a \in 0..(b - 1) /\ b \in Nat /\ b > 0
  BY <1>1
<1>3. a % b = a
  <2> HIDE DEF a, b
  <2> QED BY <1>2
<1> QED BY <1>1, <1>3 DEF Wrap

\* The exact sums of the weights, as a function of how many are added up.
Sums(f) ==
    /\ f[0] = 0
    /\ \A n \in 1..Len(healthy) : f[n] = f[n - 1] + Weight(healthy[n])

LEMMA SumToIsSum ==
    ASSUME offered \in Offers
    PROVE  \E f \in Track(Len(healthy), Nat) : Sums(f) /\ \A n \in 0..Len(healthy) : SumTo(n) = f[n]
<1> DEFINE N == Len(healthy)
           w == [n \in 1..N |-> Weight(healthy[n])]
           step == [n \in 1..N |-> [v \in Nat |-> v + w[n]]]
           Loop(f) == [k \in 0..N |-> IF k = 0 THEN 0 ELSE f[k - 1] + Weight(healthy[k])]
<1>1. N \in Nat /\ \A n \in 1..N : w[n] \in Nat /\ w[n] = Weight(healthy[n])
  BY HealthyTyped
<1> HIDE DEF w
<1>2. step \in Steps(N, Nat)
  BY <1>1 DEF Steps
<1>3. PICK f \in Track(N, Nat) : Follows(f, N, 0, step)
  <2> HIDE DEF step, N
  <2> QED BY <1>1, <1>2, RecursionExists
<1>4. f \in [0..N -> Nat]
  BY DEF Track
<1>5. ASSUME NEW n \in 1..N PROVE f[n] = f[n - 1] + Weight(healthy[n])
  <2>1. f[n - 1] \in Nat
    BY <1>1, <1>4
  <2>2. f[n] = step[n][f[n - 1]]
    BY <1>3 DEF Follows
  <2> QED BY <1>1, <2>1, <2>2
<1>6. f[0] = 0
  BY <1>3 DEF Follows
<1>7. f = Loop(f)
  <2>1. \A n \in 0..N : n = 0 \/ n \in 1..N
    BY <1>1
  <2>2. \A n \in 0..N : f[n] = Loop(f)[n]
    BY <1>5, <1>6, <2>1
  <2>3. f = [n \in 0..N |-> f[n]]
    BY <1>4
  <2> QED BY <2>2, <2>3
<1>8. \E g : g = Loop(g) /\ \A n : SumTo(n) = g[n]
  BY <1>7 DEF SumTo
<1>9. PICK g : g = Loop(g) /\ \A n : SumTo(n) = g[n]
  BY <1>8
<1>10. \A n \in 0..N : g[n] = f[n]
  <2> DEFINE T == {n \in 0..N : g[n] = f[n]}
  <2>1. 0 \in T
    BY <1>1, <1>6, <1>9
  <2>2. ASSUME NEW n \in 1..N, n - 1 \in T PROVE n \in T
    <3>1. n \in 0..N /\ n # 0 /\ g[n - 1] = f[n - 1]
      BY <1>1, <2>2
    <3>2. g[n] = Loop(g)[n]
      BY <1>9
    <3>3. g[n] = g[n - 1] + Weight(healthy[n])
      BY <3>1, <3>2
    <3> QED BY <1>5, <3>1, <3>3
  <2> HIDE DEF T
  <2>3. 0..N \subseteq T
    BY <1>1, <2>1, <2>2, InductionUpTo
  <2> QED BY <2>3 DEF T
<1>11. Sums(f)
  BY <1>5, <1>6 DEF Sums
<1> HIDE DEF N, Loop
<1> QED BY <1>9, <1>10, <1>11 DEF N

\* The sums only grow.
LEMMA SumsGrow ==
    ASSUME offered \in Offers, NEW f \in Track(Len(healthy), Nat), Sums(f)
    PROVE  /\ \A n \in 0..Len(healthy) : f[n] <= f[Len(healthy)]
           /\ Len(healthy) > 0 => f[Len(healthy)] >= 1
<1> DEFINE N == Len(healthy)
           T == {n \in 0..N : \A m \in 0..n : f[m] <= f[n]}
<1>1. /\ N \in Nat
      /\ \A n \in 1..N : Weight(healthy[n]) \in Nat /\ Weight(healthy[n]) >= 1
  BY HealthyTyped
<1>2. f \in [0..N -> Nat]
  BY DEF Track
<1>3. \A n \in 1..N : n - 1 \in 0..N /\ f[n - 1] \in Nat /\ f[n] \in Nat /\ f[n - 1] + 1 <= f[n]
  <2> SUFFICES ASSUME NEW n \in 1..N
               PROVE  n - 1 \in 0..N /\ f[n - 1] \in Nat /\ f[n] \in Nat /\ f[n - 1] + 1 <= f[n]
    OBVIOUS
  <2>1. n - 1 \in 0..N /\ n \in 0..N
    BY <1>1
  <2>2. f[n - 1] \in Nat /\ f[n] \in Nat
    BY <1>2, <2>1
  <2>3. f[n] = f[n - 1] + Weight(healthy[n])
    BY DEF Sums
  <2> QED BY <1>1, <2>1, <2>2, <2>3
<1>4. 0 \in T
  BY <1>1, <1>2
<1>5. ASSUME NEW n \in 1..N, n - 1 \in T PROVE n \in T
  <2> SUFFICES ASSUME NEW m \in 0..n PROVE f[m] <= f[n]
    BY <1>1
  <2>1. m = n \/ m \in 0..(n - 1)
    BY <1>1
  <2>2. m \in 0..(n - 1) => f[m] <= f[n - 1]
    BY <1>5
  <2>3. f[m] \in Nat
    BY <1>1, <1>2
  <2> QED BY <1>3, <2>1, <2>2, <2>3
<1> HIDE DEF T
<1>6. N \in T
  <2>1. 0..N \subseteq T
    BY <1>1, <1>4, <1>5, InductionUpTo
  <2> QED BY <1>1, <2>1
<1>7. \A m \in 0..N : f[m] <= f[N]
  BY <1>6 DEF T
<1>8. N > 0 => f[N] >= 1
  <2> SUFFICES ASSUME N > 0 PROVE f[N] >= 1
    OBVIOUS
  <2>1. N \in 1..N
    BY <1>1
  <2> QED BY <1>3, <2>1
<1> QED BY <1>7, <1>8

\* TotalWeight is the exact sum if that fits into an int.
LEMMA TotalFits ==
    ASSUME offered \in Offers, NEW f \in Track(Len(healthy), Nat), Sums(f),
           f[Len(healthy)] <= MaxInt
    PROVE  total = f[Len(healthy)]
<1> DEFINE N == Len(healthy)
           Loop(g) == [n \in 0..N |-> IF n = 0 THEN 0 ELSE Wrap(g[n - 1] + Weight(healthy[n]))]
<1>1. N \in Nat /\ MaxInt \in Nat
  BY HealthyTyped, BalancerConstants
<1>2. f \in [0..N -> Nat] /\ f[0] = 0
  BY DEF Track, Sums
<1>3. ASSUME NEW n \in 1..N PROVE f[n] = Wrap(f[n - 1] + Weight(healthy[n]))
  <2>1. f[n] \in 0..MaxInt
    <3>1. n \in 0..N /\ N \in 0..N
      BY <1>1
    <3>2. f[n] \in Nat /\ f[N] \in Nat /\ f[n] <= f[N]
      BY <1>2, <3>1, SumsGrow
    <3> QED BY <1>1, <3>2
  <2>2. f[n] = f[n - 1] + Weight(healthy[n])
    BY DEF Sums
  <2> QED BY <2>1, <2>2, WrapFits
<1>4. f = Loop(f)
  <2>1. \A n \in 0..N : n = 0 \/ n \in 1..N
    BY <1>1
  <2>2. \A n \in 0..N : f[n] = Loop(f)[n]
    BY <1>2, <1>3, <2>1
  <2>3. f = [n \in 0..N |-> f[n]]
    BY <1>2
  <2> QED BY <2>2, <2>3
<1>5. \E g : g = Loop(g) /\ total = g[N]
  BY <1>4 DEF total, TotalWeight
<1>6. PICK g : g = Loop(g) /\ total = g[N]
  BY <1>5
<1> DEFINE T == {n \in 0..N : g[n] = f[n]}
<1>7. 0 \in T
  BY <1>1, <1>2, <1>6
<1>8. ASSUME NEW n \in 1..N, n - 1 \in T PROVE n \in T
  <2>1. n \in 0..N /\ n # 0 /\ g[n - 1] = f[n - 1]
    BY <1>1, <1>8
  <2>2. g[n] = Loop(g)[n]
    BY <1>6
  <2>3. g[n] = Wrap(g[n - 1] + Weight(healthy[n]))
    BY <2>1, <2>2
  <2> QED BY <1>3, <2>1, <2>3
<1> HIDE DEF T
<1>9. N \in T
  <2>1. 0..N \subseteq T
    BY <1>1, <1>7, <1>8, InductionUpTo
  <2> QED BY <1>1, <2>1
<1> QED BY <1>6, <1>9 DEF T

\* What the loop knows of the weights it has added up, f[n] being the sum of
\* the first n and N their number.
Weighed(f, N) ==
    /\ acc = f[at]
    /\ ~returned /\ at > 0 => f[at] * Dial < dial * f[N]
    /\ returned =>
         /\ at > 0 /\ picked = healthy[at]
         /\ dial * f[N] <= f[at] * Dial
         /\ at > 1 => f[at - 1] * Dial < dial * f[N]

\* The invariant behind WeightsDecide: until the loop returns, the dial lies
\* beyond the stretches it has passed.
Weighing ==
    healthy # <<>> /\ SumTo(Len(healthy)) <= MaxInt =>
        Weighed([n \in 0..Len(healthy) |-> SumTo(n)], Len(healthy))

\* One iteration, given the exact sums.
LEMMA WeighedStep ==
    ASSUME Choosing, healthy # <<>>, NEW N, N = Len(healthy),
           NEW f \in [0..N -> Nat], Sums(f), f[N] <= MaxInt, Weighed(f, N), BalancerNext
    PROVE  Weighed(f, N)'
<1>1. /\ N \in Nat /\ N > 0 /\ Dial \in Nat /\ MaxInt \in Nat
      /\ offered \in Offers /\ at \in 0..N /\ dial \in 0..(Dial - 1)
      /\ \A n \in 1..N : Weight(healthy[n]) \in Nat
  <2>1. offered \in Offers /\ at \in 0..N /\ dial \in 0..(Dial - 1)
    BY DEF Choosing
  <2>2. healthy \in Seq(ToSet(offered)) /\ \A n \in 1..N : Weight(healthy[n]) \in Nat
    BY <2>1, HealthyTyped
  <2> QED BY <2>1, <2>2, BalancerConstants
<1>2. f \in Track(Len(healthy), Nat)
  BY DEF Track
<1>3. total = f[N] /\ f[N] >= 1 /\ f[N] \in Nat
  BY <1>1, <1>2, TotalFits, SumsGrow
<1>4. PickStep
  BY <1>3 DEF BalancerNext, PickAtOnce
<1>5. healthy' = healthy /\ dial' = dial /\ ~returned /\ at' = at + 1 /\ at < N
  BY <1>4 DEF PickStep, healthy, Choosing
<1>6. at' \in 1..N /\ at \in 0..N /\ at' \in 0..N /\ at' - 1 = at
  BY <1>1, <1>5
<1>7. f[at'] = f[at] + Weight(healthy[at']) /\ f[at'] \in Nat /\ f[at] \in Nat
  BY <1>6 DEF Sums
<1>8. f[at'] \in 0..MaxInt
  <2>1. f[at'] <= f[N]
    BY <1>1, <1>2, <1>6, SumsGrow
  <2> QED BY <1>1, <1>3, <1>7, <2>1
<1>9. acc' = f[at']
  <2>1. acc' = Wrap(acc + Weight(healthy[at']))
    BY <1>4 DEF PickStep
  <2> QED BY <1>7, <1>8, <2>1, WrapFits DEF Weighed
<1>10. at > 0 => f[at] * Dial < dial * f[N]
  BY <1>5 DEF Weighed
<1>11. CASE f[at'] * Dial >= dial * f[N] \/ at' = N
  <2>1. picked' = healthy[at'] /\ returned' = TRUE
    BY <1>3, <1>4, <1>9, <1>11 DEF PickStep
  <2>2. dial * f[N] <= f[at'] * Dial
    <3>1. CASE at' = N
      <4>1. ASSUME NEW d \in Nat, NEW D \in Nat, NEW w \in Nat, d <= D
            PROVE  d * w <= w * D
        BY <4>1
      <4> QED BY <1>1, <1>3, <3>1, <4>1
    <3>2. CASE at' # N
      <4>1. f[at'] * Dial \in Int /\ dial * f[N] \in Int
        BY <1>1, <1>3, <1>7
      <4> QED BY <1>11, <3>2, <4>1
    <3> QED BY <3>1, <3>2
  <2>3. at' > 1 => f[at' - 1] * Dial < dial * f[N]
    BY <1>1, <1>5, <1>6, <1>10
  <2> QED BY <1>5, <1>6, <1>9, <2>1, <2>2, <2>3 DEF Weighed
<1>12. CASE f[at'] * Dial < dial * f[N] /\ at' # N
  <2>1. returned' = returned
    <3>1. ~(f[at'] * Dial >= dial * f[N])
      <4>1. f[at'] * Dial \in Int /\ dial * f[N] \in Int
        BY <1>1, <1>3, <1>7
      <4> QED BY <1>12, <4>1
    <3> QED BY <1>3, <1>4, <1>9, <1>12, <3>1 DEF PickStep
  <2> QED BY <1>5, <1>9, <1>12, <2>1 DEF Weighed
<1>13. f[at'] * Dial \in Int /\ dial * f[N] \in Int
  BY <1>1, <1>3, <1>7
<1> QED BY <1>11, <1>12, <1>13

\* When the sum of the weights fits into an int, the instance returned is the
\* one on whose stretch the dial comes to rest.
THEOREM BalancerWeightsDecide == BalancerSpec => []WeightsDecide
<1>1. BalancerInit => Weighing
  <2> SUFFICES ASSUME BalancerInit PROVE Weighing
    OBVIOUS
  <2>1. offered \in Offers /\ at = 0 /\ acc = 0 /\ returned = FALSE
    BY DEF BalancerInit
  <2>2. Len(healthy) \in Nat /\ SumTo(0) = 0
    <3>1. PICK f \in Track(Len(healthy), Nat) :
            Sums(f) /\ \A n \in 0..Len(healthy) : SumTo(n) = f[n]
      BY <2>1, SumToIsSum
    <3>2. Len(healthy) \in Nat
      BY <2>1, HealthyTyped
    <3> QED BY <3>1, <3>2 DEF Sums
  <2> QED BY <2>1, <2>2 DEF Weighing, Weighed
<1>2. Choosing /\ Weighing /\ [BalancerNext]_balancerVars => Weighing'
  <2> SUFFICES ASSUME Choosing, Weighing, [BalancerNext]_balancerVars PROVE Weighing'
    OBVIOUS
  <2> DEFINE N == Len(healthy)
             f == [n \in 0..N |-> SumTo(n)]
  <2>1. healthy' = healthy
    BY DEF BalancerNext, PickAtOnce, PickStep, balancerVars, healthy
  <2>2. SumTo(N)' = SumTo(N) /\ f' = f
    BY <2>1 DEF SumTo
  <2>3. N \in Nat /\ offered \in Offers
    BY HealthyTyped DEF Choosing
  <2>4. f \in [0..N -> Nat] /\ Sums(f)
    <3>1. PICK g \in Track(N, Nat) : Sums(g) /\ \A n \in 0..N : SumTo(n) = g[n]
      BY <2>3, SumToIsSum
    <3>2. g \in [0..N -> Nat] /\ f = g
      BY <3>1 DEF Track
    <3> QED BY <3>1, <3>2
  <2> SUFFICES ASSUME healthy # <<>>, SumTo(N) <= MaxInt PROVE Weighed(f, N)'
    BY <2>1, <2>2 DEF Weighing
  <2>5. f[N] <= MaxInt /\ Weighed(f, N)
    BY <2>3 DEF Weighing
  <2>6. Weighed(f, N)'
    <3>1. PICK g, M : g = f /\ M = N
      OBVIOUS
    <3>2. CASE BalancerNext
      <4>1. g \in [0..M -> Nat] /\ Sums(g) /\ g[M] <= MaxInt /\ Weighed(g, M) /\ M = Len(healthy)
        BY <2>4, <2>5, <3>1
      <4> HIDE DEF f, N
      <4>2. Weighed(g, M)'
        BY <3>2, <4>1, WeighedStep
      <4> QED BY <2>1, <2>2, <3>1, <4>2 DEF N, Weighed
    <3>3. CASE UNCHANGED balancerVars
      <4> HIDE DEF f
      <4> QED BY <2>1, <2>2, <2>5, <3>3 DEF balancerVars, Weighed
    <3> QED BY <3>2, <3>3
  <2> QED BY <2>6
<1>3. Choosing /\ Weighing => WeightsDecide
  <2> SUFFICES ASSUME Choosing, Weighing, returned, healthy # <<>>,
                      SumTo(Len(healthy)) <= MaxInt
               PROVE  /\ dial * SumTo(Len(healthy)) <= SumTo(at) * Dial
                      /\ at > 1 => SumTo(at - 1) * Dial < dial * SumTo(Len(healthy))
                      /\ picked = healthy[at]
    BY DEF WeightsDecide
  <2>1. Len(healthy) \in Nat /\ at \in 0..Len(healthy)
    BY HealthyTyped DEF Choosing
  <2> QED BY <2>1 DEF Weighing, Weighed
<1> QED BY <1>1, <1>2, <1>3, ChoosingKept, PTL DEF BalancerSpec
=============================================================================
