----------------------------- MODULE Discovery ------------------------------
(***************************************************************************)
(* The in-memory service discovery (infrastructure/discovery/discovery.go).*)
(* Every method is one critical section of m.mu; Instances returns a copy. *)
(***************************************************************************)
EXTENDS Selection

CONSTANTS
    ToolIDs,        \* the ids instances are reported for
    InstanceOffers  \* the instances that may be registered: records
                    \* [endpoint, healthy, weight]

VARIABLE instances  \* m.instances; a missing key is the empty list

DiscoveryInit == instances = [id \in ToolIDs |-> <<>>]

\* Mutant: always appends.
RegisterInstanceTwice(id, inst) ==
    instances' = [instances EXCEPT ![id] = Append(@, inst)]

\* Mutant: replacing an instance cuts off those listed behind it.
RegisterInstanceTruncating(id, inst) ==
    LET list == instances[id]
        same == {i \in DOMAIN list : list[i].endpoint = inst.endpoint}
    IN instances' = [instances EXCEPT ![id] =
                       IF same = {} THEN Append(list, inst)
                       ELSE Append(SubSeq(list, 1, Min(same) - 1), inst)]

\* Replaces the instance with the same endpoint or appends a new one.
RegisterInstance(id, inst) ==
    LET list == instances[id]
        same == {i \in DOMAIN list : list[i].endpoint = inst.endpoint}
    IN instances' = [instances EXCEPT ![id] =
                       IF same = {} THEN Append(list, inst)
                       ELSE [list EXCEPT ![Min(same)] = inst]]

DeregisterInstance(id, endpoint) ==
    instances' = [instances EXCEPT ![id] = Kept(@, {i \in DOMAIN @ : @[i].endpoint # endpoint})]

\* Whoever reports instances and their health; the registry only reads them.
DiscoveryNext ==
    \E id \in ToolIDs, i \in InstanceOffers :
        RegisterInstance(id, i) \/ DeregisterInstance(id, i.endpoint)

DiscoverySpec == DiscoveryInit /\ [][DiscoveryNext]_instances

Instances(id) == IF id \in ToolIDs THEN instances[id] ELSE <<>>

-----------------------------------------------------------------------------
\* Every id has a list of instances that were reported.
DiscoveryTypeOK == instances \in [ToolIDs -> Seq(InstanceOffers)]

\* An endpoint is listed at most once per tool, so that the health and weight
\* last reported for it are the ones in force.
OneInstancePerEndpoint ==
    \A id \in ToolIDs : \A i, j \in DOMAIN instances[id] :
        instances[id][i].endpoint = instances[id][j].endpoint => i = j

\* A report replaces what was listed for that endpoint of that tool and nothing
\* else: no other instance is lost, doubled or changed.
ReportsStick ==
    [][\A id \in ToolIDs, i \in InstanceOffers : RegisterInstance(id, i) =>
         /\ ToSet(instances'[id]) = {e \in ToSet(instances[id]) : e.endpoint # i.endpoint} \cup {i}
         /\ \A other \in ToolIDs \ {id} : instances'[other] = instances[other]]_instances
=============================================================================
