------------------------------ MODULE Balancer ------------------------------
(***************************************************************************)
(* The weighted choice of discovery.Pick (application/discovery/pick.go),  *)
(* one step per iteration of its loop, in machine integers: weights come   *)
(* from whoever reports instances, and their sum may wrap around.          *)
(*                                                                         *)
(* The random number is dial / Dial.  The code compares acc with           *)
(* r * total in floating point; here both sides are multiplied by Dial.    *)
(***************************************************************************)
EXTENDS Selection

CONSTANTS
    MaxInt,     \* the largest int (2^63 - 1 in the build); the least is -MaxInt - 1
    Dial,       \* how many values rng may return
    Offers,     \* the lists of instances Pick may be given
    NoPick      \* nothing returned yet, or ok = false

ASSUME BalancerConstants ==
    /\ MaxInt \in Nat /\ Dial \in Nat \ {0}
    /\ \A o \in Offers : o \in Seq(ToSet(o)) /\ \A i \in ToSet(o) : i.weight \in Int

VARIABLES
    offered,    \* insts
    dial,       \* what rng returns
    at,         \* how many healthy instances the loop has added up
    acc,        \* acc, or 0
    picked,     \* the instance returned
    returned    \* has Pick returned?

balancerVars == <<offered, dial, at, acc, picked, returned>>

Wrap(n) == ((n + MaxInt + 1) % (2 * (MaxInt + 1))) - (MaxInt + 1)

\* The minimum of 1 that TotalWeight and Pick both apply.
Weight(i) == IF i.weight <= 0 THEN 1 ELSE i.weight

TotalWeight(insts) ==
    LET sum[n \in 0..Len(insts)] ==
          IF n = 0 THEN 0 ELSE Wrap(sum[n - 1] + Weight(insts[n]))
    IN sum[Len(insts)]

healthy == Healthy(offered)
total   == TotalWeight(healthy)

BalancerInit ==
    /\ offered \in Offers /\ dial \in 0..(Dial - 1)
    /\ at = 0 /\ acc = 0
    /\ picked = NoPick /\ returned = FALSE

\* No healthy instance; or the sum has wrapped to nothing: rand.Intn decides.
PickAtOnce ==
    /\ ~returned /\ at = 0 /\ (healthy = <<>> \/ total <= 0)
    /\ picked' \in IF healthy = <<>> THEN {NoPick} ELSE ToSet(healthy)
    /\ returned' = TRUE
    /\ UNCHANGED <<offered, dial, at, acc>>

\* Mutant: the minimum weight is forgotten in the loop.
PickStepRawWeight ==
    /\ ~returned /\ healthy # <<>> /\ total > 0
    /\ at' = at + 1
    /\ acc' = Wrap(acc + healthy[at'].weight)
    /\ IF acc' * Dial >= dial * total \/ at' = Len(healthy)
       THEN picked' = healthy[at'] /\ returned' = TRUE
       ELSE UNCHANGED <<picked, returned>>
    /\ UNCHANGED <<offered, dial>>

\* Mutant: the index is used on the unfiltered list.
PickStepUnfiltered ==
    /\ ~returned /\ healthy # <<>> /\ total > 0
    /\ at' = at + 1
    /\ acc' = Wrap(acc + Weight(healthy[at']))
    /\ IF acc' * Dial >= dial * total \/ at' = Len(healthy)
       THEN picked' = offered[at'] /\ returned' = TRUE
       ELSE UNCHANGED <<picked, returned>>
    /\ UNCHANGED <<offered, dial>>

\* One iteration; behind the last one Pick returns the last instance.
PickStep ==
    /\ ~returned /\ healthy # <<>> /\ total > 0
    /\ at' = at + 1
    /\ acc' = Wrap(acc + Weight(healthy[at']))
    /\ IF acc' * Dial >= dial * total \/ at' = Len(healthy)
       THEN picked' = healthy[at'] /\ returned' = TRUE
       ELSE UNCHANGED <<picked, returned>>
    /\ UNCHANGED <<offered, dial>>

BalancerNext == PickAtOnce \/ PickStep

BalancerSpec == BalancerInit /\ [][BalancerNext]_balancerVars

-----------------------------------------------------------------------------
\* The weights of the first n healthy instances, without overflow.
SumTo(n) ==
    LET sum[k \in 0..Len(healthy)] == IF k = 0 THEN 0 ELSE sum[k - 1] + Weight(healthy[k])
    IN sum[n]

\* Whatever the weights, a sum that wraps around included, Pick returns one of
\* the healthy instances, and none only if there is none.
PickedIsHealthy ==
    returned => IF Pick(offered) = {} THEN picked = NoPick ELSE picked \in Pick(offered)

\* "weighted random": with the weights laid end to end, the instance returned
\* is the one on whose stretch the dial comes to rest, so that each is chosen
\* in proportion to its weight, provided the sum fits into an int.
WeightsDecide ==
    returned /\ healthy # <<>> /\ SumTo(Len(healthy)) <= MaxInt =>
        /\ dial * SumTo(Len(healthy)) <= SumTo(at) * Dial
        /\ at > 1 => SumTo(at - 1) * Dial < dial * SumTo(Len(healthy))
        /\ picked = healthy[at]
=============================================================================
