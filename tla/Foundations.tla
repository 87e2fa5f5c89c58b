---------------------------- MODULE Foundations -----------------------------
(* Induction over the naturals and recursion along an interval, stated     *)
(* about sets and functions, so that a proof can cite them for the         *)
(* recursive functions of the modules; what Selection's Kept returns; the  *)
(* version order; the enumerations of a finite set; and joined strings.    *)
EXTENDS Selection, Versions, SequenceTheorems, FiniteSetTheorems, WellFoundedInduction, TLAPS

\* A set of naturals that is not empty has a least element.
LEMMA LeastElement ==
    ASSUME NEW T \in SUBSET Nat, T # {}
    PROVE  \E x \in T : \A y \in T : x <= y
<1>1. \E x \in T : \A y \in T : ~(<<y, x>> \in OpToRel(<, Nat))
  BY NatLessThanWellFounded, WFMin
<1>2. PICK x \in T : \A y \in T : ~(<<y, x>> \in OpToRel(<, Nat))
  BY <1>1
<1>3. \A y \in T : ~(y < x)
  BY <1>2 DEF OpToRel
<1> QED BY <1>3

\* A set that holds 0 and, with a natural, its successor holds them all.
LEMMA InductiveSet ==
    ASSUME NEW S, 0 \in S, \A n \in Nat : n \in S => n + 1 \in S
    PROVE  Nat \subseteq S
<1> SUFFICES ASSUME Nat \ S # {} PROVE FALSE
  OBVIOUS
<1>1. PICK x \in Nat \ S : \A y \in Nat \ S : x <= y
  BY LeastElement
<1>2. x # 0 /\ x - 1 \in Nat /\ x - 1 \notin Nat \ S
  BY <1>1
<1> QED BY <1>1, <1>2

\* The same up to a bound.
LEMMA InductionUpTo ==
    ASSUME NEW N \in Nat, NEW S, 0 \in S, \A n \in 1..N : n - 1 \in S => n \in S
    PROVE  0..N \subseteq S
<1> DEFINE U == {n \in Nat : n <= N => n \in S}
<1>1. 0 \in U
  OBVIOUS
<1>2. \A n \in Nat : n \in U => n + 1 \in U
  <2> SUFFICES ASSUME NEW n \in Nat, n \in U, n + 1 <= N PROVE n + 1 \in S
    OBVIOUS
  <2>1. n \in S /\ n + 1 \in 1..N /\ (n + 1) - 1 = n
    OBVIOUS
  <2> QED BY <2>1
<1> HIDE DEF U
<1>3. Nat \subseteq U
  BY <1>1, <1>2, InductiveSet
<1> QED BY <1>3 DEF U

Steps(N, V) == [1..N -> [V -> V]]
Track(N, V) == [0..N -> V]

\* f starts at base and takes the steps up to N.
Follows(f, N, base, step) == f[0] = base /\ \A n \in 1..N : f[n] = step[n][f[n - 1]]

\* A step function for each position defines a function along 0..N.
LEMMA RecursionExists ==
    ASSUME NEW N \in Nat, NEW V, NEW base \in V, NEW step \in Steps(N, V)
    PROVE  \E f \in Track(N, V) : Follows(f, N, base, step)
<1> USE DEF Steps, Track, Follows
<1> DEFINE Starts(f, k) == f[0] = base /\ \A n \in 1..k : f[n] = step[n][f[n - 1]]
           S == {k \in 0..N : \E f \in [0..k -> V] : Starts(f, k)}
<1>1. 0 \in S
  <2> DEFINE g == [i \in 0..0 |-> base]
  <2>1. g \in [0..0 -> V] /\ Starts(g, 0)
    OBVIOUS
  <2> HIDE DEF g
  <2> QED BY <2>1
<1>2. ASSUME NEW k \in 1..N, k - 1 \in S PROVE k \in S
  <2>1. PICK f \in [0..(k - 1) -> V] : Starts(f, k - 1)
    BY <1>2
  <2> DEFINE v == step[k][f[k - 1]]
             g == [i \in 0..k |-> IF i = k THEN v ELSE f[i]]
  <2>2. v \in V
    OBVIOUS
  <2>3. g \in [0..k -> V]
    BY <2>2
  <2>4. g[0] = base
    BY <2>1
  <2>5. ASSUME NEW n \in 1..k PROVE g[n] = step[n][g[n - 1]]
    <3>1. n - 1 \in 0..k /\ n - 1 # k /\ g[n - 1] = f[n - 1]
      OBVIOUS
    <3>2. CASE n = k
      BY <3>1, <3>2
    <3>3. CASE n # k
      <4>1. n \in 1..(k - 1)
        BY <3>3
      <4>2. f[n] = step[n][f[n - 1]]
        BY <2>1, <4>1
      <4> QED BY <3>1, <3>3, <4>2
    <3> QED BY <3>2, <3>3
  <2>6. Starts(g, k)
    BY <2>4, <2>5
  <2> HIDE DEF g
  <2> QED BY <2>3, <2>6
<1> HIDE DEF S
<1>3. N \in S
  <2>1. 0..N \subseteq S
    BY <1>1, <1>2, InductionUpTo
  <2> QED BY <2>1
<1> QED BY <1>3 DEF S

\* Two functions with the same first value that take the same steps are equal
\* as far as they both go.
LEMMA RecursionUnique ==
    ASSUME NEW N \in Nat, NEW base, NEW step, NEW f, NEW g,
           Follows(f, N, base, step), Follows(g, N, base, step)
    PROVE  \A n \in 0..N : f[n] = g[n]
<1> USE DEF Follows
<1> DEFINE S == {n \in 0..N : f[n] = g[n]}
<1>1. 0 \in S
  OBVIOUS
<1>2. \A n \in 1..N : n - 1 \in S => n \in S
  OBVIOUS
<1> HIDE DEF S
<1>3. 0..N \subseteq S
  BY <1>1, <1>2, InductionUpTo
<1> QED BY <1>3 DEF S

-----------------------------------------------------------------------------
\* The least element of a set of naturals is its Min.
LEMMA MinOfNaturals ==
    ASSUME NEW S \in SUBSET Nat, S # {}
    PROVE  Min(S) \in S /\ \A y \in S : Min(S) <= y
BY LeastElement DEF Min

\* The loop behind Kept, as a function of the number of its iterations.
KeptLoop(f, s, I) ==
    /\ f[0] = <<>>
    /\ \A n \in 1..Len(s) : f[n] = IF n \in I THEN Append(f[n - 1], s[n]) ELSE f[n - 1]

LEMMA KeptIsLoop ==
    ASSUME NEW S, NEW s \in Seq(S), NEW I
    PROVE  \E f \in Track(Len(s), Seq(S)) : KeptLoop(f, s, I) /\ Kept(s, I) = f[Len(s)]
<1> DEFINE N == Len(s)
           V == Seq(S)
           base == <<>>
           step == [n \in 1..N |-> [v \in V |-> IF n \in I THEN Append(v, s[n]) ELSE v]]
           Loop(f) == [n \in 0..N |-> IF n = 0 THEN <<>>
                                      ELSE IF n \in I THEN Append(f[n - 1], s[n]) ELSE f[n - 1]]
<1>1. N \in Nat /\ \A n \in 1..N : s[n] \in S
  OBVIOUS
<1>2. step \in [1..N -> [V -> V]] /\ base \in V
  BY <1>1
<1>3. \A n \in 1..N, v \in V : step[n][v] = IF n \in I THEN Append(v, s[n]) ELSE v
  OBVIOUS
<1>4. \E f \in Track(N, V) : Follows(f, N, base, step)
  <2>1. step \in Steps(N, V)
    BY <1>2 DEF Steps
  <2> HIDE DEF step, V, base, N
  <2> QED BY <1>1, <1>2, <2>1, RecursionExists
<1> HIDE DEF step
<1>5. PICK f \in [0..N -> V] : f[0] = base /\ \A n \in 1..N : f[n] = step[n][f[n - 1]]
  BY <1>4 DEF Track, Follows
<1>6. f = Loop(f)
  <2>1. ASSUME NEW n \in 1..N
        PROVE  f[n] = IF n \in I THEN Append(f[n - 1], s[n]) ELSE f[n - 1]
    <3>1. n - 1 \in 0..N
      BY <1>1
    <3>2. f[n - 1] \in V
      BY <1>5, <3>1
    <3> QED BY <1>3, <1>5, <3>2
  <2>2. \A n \in 0..N : n = 0 \/ n \in 1..N
    BY <1>1
  <2>3. \A n \in 0..N : f[n] = Loop(f)[n]
    BY <1>5, <2>1, <2>2
  <2>4. f = [n \in 0..N |-> f[n]]
    BY <1>5
  <2> QED BY <2>3, <2>4
<1>7. \E g : g = Loop(g) /\ Kept(s, I) = g[N]
  BY <1>6 DEF Kept
<1>8. PICK g : g = Loop(g) /\ Kept(s, I) = g[N]
  BY <1>7
<1>9. g[0] = <<>>
  BY <1>1, <1>8
<1>10. ASSUME NEW n \in 1..N
       PROVE  g[n] = IF n \in I THEN Append(g[n - 1], s[n]) ELSE g[n - 1]
  <2>1. n \in 0..N /\ n # 0
    BY <1>1
  <2>2. g[n] = Loop(g)[n]
    BY <1>8
  <2> QED BY <2>1, <2>2
<1>11. \A n \in 0..N : g[n] \in V
  <2> DEFINE T == {n \in 0..N : g[n] \in V}
  <2>1. 0 \in T
    <3>1. 0 \in 0..N
      BY <1>1
    <3>2. g[0] \in V
      BY <1>2, <1>9, Zenon
    <3> QED BY <3>1, <3>2, Zenon
  <2>2. ASSUME NEW n \in 1..N, n - 1 \in T PROVE n \in T
    <3>1. g[n - 1] \in Seq(S) /\ s[n] \in S
      BY <1>1, <2>2
    <3>2. Append(g[n - 1], s[n]) \in Seq(S)
      BY <3>1, AppendProperties
    <3>3. g[n] \in {g[n - 1], Append(g[n - 1], s[n])}
      BY <1>10
    <3>4. g[n] \in V
      BY <3>1, <3>2, <3>3
    <3> QED BY <3>4
  <2> HIDE DEF T
  <2>3. 0..N \subseteq T
    BY <1>1, <2>1, <2>2, InductionUpTo
  <2> QED BY <2>3 DEF T
<1>12. g \in [0..N -> V]
  BY <1>8, <1>11
<1>13. KeptLoop(g, s, I)
  BY <1>9, <1>10 DEF KeptLoop
<1>14. g \in Track(N, V)
  BY <1>12 DEF Track
<1> HIDE DEF Loop
<1> QED BY <1>8, <1>13, <1>14

\* Kept returns the wanted entries, all of them, once each and in their order.
Picks(p, q, s, I) ==
    /\ p \in [1..Len(q) -> I]
    /\ \A j \in 1..Len(q) : q[j] = s[p[j]]
    /\ \A j, k \in 1..Len(q) : j < k => p[j] < p[k]
    /\ \A i \in I : \E j \in 1..Len(q) : p[j] = i

LEMMA KeptProperties ==
    ASSUME NEW S, NEW s \in Seq(S), NEW I \in SUBSET (1..Len(s))
    PROVE  Kept(s, I) \in Seq(S) /\ \E p : Picks(p, Kept(s, I), s, I)
<1> DEFINE N == Len(s)
           UpTo(n) == I \cap (1..n)
<1> USE DEF Picks
<1>1. PICK f \in [0..N -> Seq(S)] :
        /\ f[0] = <<>>
        /\ \A n \in 1..N : f[n] = IF n \in I THEN Append(f[n - 1], s[n]) ELSE f[n - 1]
        /\ Kept(s, I) = f[N]
  <2>1. \E f \in Track(N, Seq(S)) : KeptLoop(f, s, I) /\ Kept(s, I) = f[N]
    BY KeptIsLoop, Zenon
  <2> QED BY <2>1 DEF Track, KeptLoop
<1>2. N \in Nat
  OBVIOUS
<1> DEFINE T == {n \in 0..N : \E p : Picks(p, f[n], s, UpTo(n))}
<1>3. 0 \in T
  <2> DEFINE e == [j \in 1..0 |-> j]
  <2>1. Picks(e, f[0], s, UpTo(0))
    BY <1>1
  <2> HIDE DEF e, Picks
  <2> QED BY <1>2, <2>1
<1>4. ASSUME NEW n \in 1..N, n - 1 \in T PROVE n \in T
  <2> DEFINE q == f[n - 1]
             L == Len(q)
  <2>1. PICK p : Picks(p, q, s, UpTo(n - 1))
    BY <1>4
  <2>2. q \in Seq(S) /\ L \in Nat /\ s[n] \in S
    BY <1>2
  <2>3. CASE n \notin I
    <3>1. f[n] = q
      BY <1>1, <2>3
    <3>2. I \cap (1..n) = I \cap (1..(n - 1))
      BY <2>3
    <3>3. Picks(p, f[n], s, UpTo(n))
      BY <2>1, <3>1, <3>2
    <3> HIDE DEF Picks
    <3> QED BY <3>3
  <2>4. CASE n \in I
    <3> DEFINE r == Append(q, s[n])
               pn == [j \in 1..(L + 1) |-> IF j = L + 1 THEN n ELSE p[j]]
    <3>1. f[n] = r
      BY <1>1, <2>4
    <3>2. /\ Len(r) = L + 1 /\ r[L + 1] = s[n]
          /\ \A j \in 1..L : r[j] = q[j]
      BY <2>2
    <3>3. I \cap (1..n) = (I \cap (1..(n - 1))) \cup {n}
      BY <2>4
    <3>4. \A j \in 1..L : p[j] \in I \cap (1..(n - 1)) /\ p[j] < n
      BY <2>1
    <3>5. /\ pn[L + 1] = n
          /\ \A j \in 1..L : pn[j] = p[j]
          /\ pn \in [1..(L + 1) -> I \cap (1..n)]
      BY <2>2, <3>3, <3>4
    <3> HIDE DEF r, pn, q, L
    <3>6. \A j \in 1..(L + 1) : j \in 1..L \/ j = L + 1
      BY <2>2
    <3>7. \A j \in 1..(L + 1) : r[j] = s[pn[j]]
      BY <2>1, <3>2, <3>5, <3>6 DEF L
    <3>8. \A j, k \in 1..(L + 1) : j < k => pn[j] < pn[k]
      <4> SUFFICES ASSUME NEW j \in 1..(L + 1), NEW k \in 1..(L + 1), j < k
                   PROVE  pn[j] < pn[k]
        OBVIOUS
      <4>1. j \in 1..L
        BY <2>2
      <4> QED BY <2>1, <3>4, <3>5, <3>6, <4>1 DEF L
    <3>9. \A i \in I \cap (1..n) : \E j \in 1..(L + 1) : pn[j] = i
      <4> SUFFICES ASSUME NEW i \in I \cap (1..n) PROVE \E j \in 1..(L + 1) : pn[j] = i
        OBVIOUS
      <4>1. CASE i = n
        <5>1. L + 1 \in 1..(L + 1)
          BY <2>2
        <5> QED BY <3>5, <4>1, <5>1
      <4>2. CASE i \in I \cap (1..(n - 1))
        <5>1. PICK j \in 1..L : p[j] = i
          BY <2>1, <4>2 DEF L
        <5> QED BY <2>2, <3>5, <5>1
      <4> QED BY <3>3, <4>1, <4>2
    <3>10. Picks(pn, f[n], s, UpTo(n))
      BY <3>1, <3>2, <3>5, <3>7, <3>8, <3>9
    <3> HIDE DEF Picks
    <3> QED BY <3>10
  <2> QED BY <2>3, <2>4
<1> HIDE DEF T
<1>5. N \in T
  <2>1. 0..N \subseteq T
    BY <1>2, <1>3, <1>4, InductionUpTo
  <2> QED BY <1>2, <2>1
<1>6. PICK p : Picks(p, f[N], s, UpTo(N))
  BY <1>5 DEF T
<1>7. UpTo(N) = I
  OBVIOUS
<1>8. Kept(s, I) = f[N] /\ f[N] \in Seq(S)
  BY <1>1, <1>2
<1> HIDE DEF Picks, UpTo
<1> QED BY <1>6, <1>7, <1>8

\* The entries of Kept, as a set.
LEMMA KeptEntries ==
    ASSUME NEW S, NEW s \in Seq(S), NEW I \in SUBSET (1..Len(s))
    PROVE  ToSet(Kept(s, I)) = {s[i] : i \in I}
<1> DEFINE K == Kept(s, I)
<1>1. K \in Seq(S)
  BY KeptProperties
<1>2. PICK p \in [1..Len(K) -> I] :
        /\ \A j \in 1..Len(K) : K[j] = s[p[j]]
        /\ \A i \in I : \E j \in 1..Len(K) : p[j] = i
  <2>1. \E p : Picks(p, K, s, I)
    BY KeptProperties
  <2> QED BY <2>1 DEF Picks
<1> HIDE DEF K
<1>3. DOMAIN K = 1..Len(K)
  BY <1>1
<1>4. ToSet(K) = {K[j] : j \in 1..Len(K)}
  BY <1>3 DEF ToSet
<1>5. ASSUME NEW i \in I PROVE s[i] \in ToSet(K)
  BY <1>2, <1>4
<1>6. ASSUME NEW j \in 1..Len(K) PROVE \E i \in I : K[j] = s[i]
  BY <1>2
<1>7. ToSet(K) = {s[i] : i \in I}
  BY <1>4, <1>5, <1>6
<1> QED BY <1>7 DEF K
-----------------------------------------------------------------------------
(* compareVersion in terms of the first difference.                        *)

\* Versions are equal outside Differ, where positions are naturals and parts
\* are integers.
LEMMA DifferFacts ==
    ASSUME NEW a, NEW b, IsVersion(a), IsVersion(b)
    PROVE  /\ Differ(a, b) \in SUBSET Nat
           /\ \A i : PartNum(a, i) \in Int
           /\ \A i : i \in Differ(a, b) <=> PartNum(a, i) # PartNum(b, i)
<1>1. \A i \in DOMAIN a \cup DOMAIN b : i \in Nat
  BY DEF IsVersion
<1>2. \A i : PartNum(a, i) \in Int
  BY DEF IsVersion, PartNum, atoiSafe
<1>3. \A i : i \notin DOMAIN a \cup DOMAIN b => PartNum(a, i) = PartNum(b, i)
  BY DEF PartNum
<1> QED BY <1>1, <1>2, <1>3 DEF Differ

\* a is below or equal to b exactly when they agree or a is smaller at the
\* first part at which they differ.
LEMMA CompareLeq ==
    ASSUME NEW a, NEW b, IsVersion(a), IsVersion(b)
    PROVE  /\ compareVersion(a, b) \in {-1, 0, 1}
           /\ compareVersion(a, b) <= 0 <=>
                \/ \A i : PartNum(a, i) = PartNum(b, i)
                \/ \E k \in Nat : /\ PartNum(a, k) < PartNum(b, k)
                                  /\ \A i \in Nat : i < k => PartNum(a, i) = PartNum(b, i)
<1> DEFINE D == Differ(a, b)
<1>1. CASE D = {}
  <2>1. \A i : PartNum(a, i) = PartNum(b, i)
    BY <1>1, DifferFacts
  <2>2. compareVersion(a, b) = 0
    BY <1>1 DEF compareVersion
  <2> QED BY <2>1, <2>2
<1>2. CASE D # {}
  <2> DEFINE m == Min(D)
  <2>1. m \in D /\ \A y \in D : m <= y
    BY <1>2, DifferFacts, MinOfNaturals
  <2>2. compareVersion(a, b) = IF PartNum(a, m) < PartNum(b, m) THEN -1 ELSE 1
    BY <1>2 DEF compareVersion
  <2> HIDE DEF m
  <2>3. m \in Nat /\ PartNum(a, m) # PartNum(b, m)
        /\ PartNum(a, m) \in Int /\ PartNum(b, m) \in Int
    BY <2>1, DifferFacts
  <2>4. \A i \in Nat : i < m => PartNum(a, i) = PartNum(b, i)
    BY <2>1, <2>3, DifferFacts
  <2>5. \A k \in Nat : PartNum(a, k) \in Int /\ PartNum(b, k) \in Int
    BY DifferFacts
  <2>6. ASSUME NEW k \in Nat, PartNum(a, k) < PartNum(b, k),
               \A i \in Nat : i < k => PartNum(a, i) = PartNum(b, i)
        PROVE  k = m
    BY <2>3, <2>4, <2>5, <2>6
  <2> QED BY <2>2, <2>3, <2>4, <2>6
<1> QED BY <1>1, <1>2

\* The order is transitive.
LEMMA CompareTransitive ==
    ASSUME NEW a, NEW b, NEW c, IsVersion(a), IsVersion(b), IsVersion(c),
           compareVersion(a, b) <= 0, compareVersion(b, c) <= 0
    PROVE  compareVersion(a, c) <= 0
<1> DEFINE Eq(x, y) == \A i : PartNum(x, i) = PartNum(y, i)
           First(x, y, k) == /\ PartNum(x, k) < PartNum(y, k)
                             /\ \A i \in Nat : i < k => PartNum(x, i) = PartNum(y, i)
<1>1. /\ Eq(a, b) \/ \E k \in Nat : First(a, b, k)
      /\ Eq(b, c) \/ \E k \in Nat : First(b, c, k)
  BY CompareLeq
<1>2. \A k \in Nat : PartNum(a, k) \in Int /\ PartNum(b, k) \in Int /\ PartNum(c, k) \in Int
  BY DifferFacts
<1>3. Eq(a, c) \/ \E k \in Nat : First(a, c, k)
  <2>1. CASE Eq(a, b)
    BY <1>1, <2>1
  <2>2. CASE Eq(b, c)
    BY <1>1, <2>2
  <2>3. ASSUME NEW j \in Nat, First(a, b, j), NEW k \in Nat, First(b, c, k)
        PROVE  \E l \in Nat : First(a, c, l)
    <3>1. CASE j <= k
      <4>1. First(a, c, j)
        BY <1>2, <2>3, <3>1
      <4> QED BY <4>1
    <3>2. CASE k < j
      <4>1. First(a, c, k)
        BY <1>2, <2>3, <3>2
      <4> QED BY <4>1
    <3> QED BY <3>1, <3>2
  <2> QED BY <1>1, <2>1, <2>2, <2>3
<1> QED BY <1>3, CompareLeq

\* The order is total: whatever is not above is below.
LEMMA CompareTotal ==
    ASSUME NEW a, NEW b, IsVersion(a), IsVersion(b), ~(compareVersion(a, b) <= 0)
    PROVE  compareVersion(b, a) <= 0
<1>1. Differ(a, b) = Differ(b, a)
  BY DEF Differ
<1>2. Differ(a, b) # {}
  BY DEF compareVersion
<1>3. Min(Differ(a, b)) \in Differ(a, b)
  BY <1>2, DifferFacts, MinOfNaturals
<1> DEFINE m == Min(Differ(a, b))
<1>4. PartNum(a, m) # PartNum(b, m) /\ PartNum(a, m) \in Int /\ PartNum(b, m) \in Int
  BY <1>3, DifferFacts
<1>5. ~(PartNum(a, m) < PartNum(b, m))
  BY <1>2 DEF compareVersion
<1>6. compareVersion(b, a) = -1
  BY <1>1, <1>2, <1>4, <1>5 DEF compareVersion
<1> QED BY <1>6

\* Of finitely many versions one is the latest.
LEMMA LatestExists ==
    ASSUME NEW S, IsFiniteSet(S), S # {}, \A v \in S : IsVersion(v)
    PROVE  \E v \in S : \A w \in S : compareVersion(w, v) <= 0
<1> DEFINE HasLatest(A) == A = {} \/ \E v \in A : \A w \in A : compareVersion(w, v) <= 0
           T == {n \in Nat : \A A \in SUBSET S : Cardinality(A) = n => HasLatest(A)}
<1>1. \A A \in SUBSET S : IsFiniteSet(A) /\ Cardinality(A) \in Nat
  BY FS_Subset, FS_CardinalityType
<1>2. 0 \in T
  BY <1>1, FS_EmptySet
<1>3. ASSUME NEW n \in Nat, n \in T PROVE n + 1 \in T
  <2> SUFFICES ASSUME NEW A \in SUBSET S, Cardinality(A) = n + 1, A # {}
               PROVE  \E v \in A : \A w \in A : compareVersion(w, v) <= 0
    OBVIOUS
  <2>1. PICK x : x \in A
    OBVIOUS
  <2> DEFINE B == A \ {x}
  <2>2. B \in SUBSET S /\ Cardinality(B) = n
    <3>1. IsFiniteSet(A)
      BY <1>1
    <3>2. Cardinality(B) = Cardinality(A) - 1
      BY <2>1, <3>1, FS_RemoveElement
    <3> QED BY <3>2
  <2>3. HasLatest(B)
    BY <1>3, <2>2
  <2>4. IsVersion(x) /\ compareVersion(x, x) <= 0
    <3>1. compareVersion(x, x) = 0
      BY DEF compareVersion, Differ
    <3> QED BY <2>1, <3>1
  <2>5. \A w \in A : w = x \/ w \in B
    OBVIOUS
  <2> HIDE DEF B
  <2>6. CASE B = {}
    BY <2>1, <2>4, <2>5, <2>6
  <2>7. CASE B # {}
    <3>1. PICK v \in B : \A w \in B : compareVersion(w, v) <= 0
      BY <2>3, <2>7
    <3>2. v \in A /\ IsVersion(v)
      BY DEF B
    <3>3. CASE compareVersion(x, v) <= 0
      BY <2>5, <3>1, <3>2, <3>3
    <3>4. CASE ~(compareVersion(x, v) <= 0)
      <4>1. compareVersion(v, x) <= 0
        BY <2>4, <3>2, <3>4, CompareTotal
      <4>2. \A w \in B : compareVersion(w, x) <= 0
        <5> TAKE w \in B
        <5>1. IsVersion(w) /\ compareVersion(w, v) <= 0
          BY <3>1 DEF B
        <5> QED BY <2>4, <3>2, <4>1, <5>1, CompareTransitive
      <4> QED BY <2>1, <2>4, <2>5, <4>2
    <3> QED BY <3>3, <3>4
  <2> QED BY <2>6, <2>7
<1> HIDE DEF T
<1>4. Nat \subseteq T
  BY <1>2, <1>3, InductiveSet
<1>5. Cardinality(S) \in Nat
  BY <1>1
<1>6. HasLatest(S)
  BY <1>4, <1>5 DEF T
<1> QED BY <1>6

-----------------------------------------------------------------------------
\* A sequence of SetToSeqs holds every element of the set once.
LEMMA Enumeration ==
    ASSUME NEW S, IsFiniteSet(S), NEW s \in SetToSeqs(S)
    PROVE  /\ s \in Seq(S) /\ Len(s) \in Nat /\ DOMAIN s = 1..Len(s)
           /\ ToSet(s) = S
           /\ \A i, j \in 1..Len(s) : s[i] = s[j] => i = j
<1> DEFINE n == Cardinality(S)
<1>1. n \in Nat
  BY FS_CardinalityType
<1>2. /\ s \in [1..n -> S]
      /\ \A i, j \in 1..n : i # j => s[i] # s[j]
  BY DEF SetToSeqs
<1>3. Cardinality(1..n) = n
  BY <1>1, FS_Interval
<1> HIDE DEF n
<1>4. s \in Injection(1..n, S)
  BY <1>2 DEF Injection, IsInjective
<1>5. s \in Surjection(1..n, S)
  BY <1>3, <1>4, FS_Injection DEF n
<1>6. ToSet(s) = S
  BY <1>2, <1>5 DEF ToSet, Surjection
<1>7. s \in Seq(S) /\ Len(s) = n
  BY <1>1, <1>2
<1> QED BY <1>1, <1>2, <1>6, <1>7

\* The values of a function on a finite set are finitely many.
LEMMA RangeFinite ==
    ASSUME NEW f, IsFiniteSet(DOMAIN f), f = [x \in DOMAIN f |-> f[x]]
    PROVE  IsFiniteSet({f[x] : x \in DOMAIN f})
<1> DEFINE T == {f[x] : x \in DOMAIN f}
<1>1. f \in Surjection(DOMAIN f, T)
  BY DEF Surjection
<1> HIDE DEF T
<1>2. IsFiniteSet(T)
  BY <1>1, FS_Surjection
<1> QED BY <1>2 DEF T

-----------------------------------------------------------------------------
(* Strings as sequences of their segments.                                 *)

\* What concatenating one more segment does.
LEMMA AppendOne ==
    ASSUME NEW S, NEW c \in Seq(S), NEW v \in S, NEW e, e = c \o <<v>>
    PROVE  /\ e \in Seq(S) /\ Len(e) = Len(c) + 1
           /\ \A i \in 1..Len(c) : e[i] = c[i]
           /\ e[Len(c) + 1] = v
<1> DEFINE w == <<v>>
<1>1. w \in Seq(S) /\ Len(w) = 1 /\ w[1] = v
  OBVIOUS
<1>2. e = c \o w
  OBVIOUS
<1> HIDE DEF w
<1>3. /\ e \in Seq(S) /\ Len(e) = Len(c) + Len(w)
      /\ \A i \in 1..(Len(c) + Len(w)) : e[i] = IF i <= Len(c) THEN c[i] ELSE w[i - Len(c)]
  BY <1>1, <1>2, ConcatProperties
<1>4. Len(c) \in Nat
  BY LenProperties
<1>5. Len(c) + 1 \in 1..(Len(c) + Len(w)) /\ ~(Len(c) + 1 <= Len(c)) /\ (Len(c) + 1) - Len(c) = 1
  BY <1>1, <1>4
<1>6. e[Len(c) + 1] = v
  BY <1>1, <1>3, <1>5
<1>7. \A i \in 1..Len(c) : e[i] = c[i]
  BY <1>1, <1>3, <1>4
<1> QED BY <1>1, <1>3, <1>6, <1>7

\* Joining three strings of one segment each.
LEMMA JoinThree ==
    ASSUME NEW t, NEW n, NEW v
    PROVE  <<t>> \o <<n>> \o <<v>> = <<t, n, v>>
<1> DEFINE S == {t, n, v}
           b == <<t>>
           c == b \o <<n>>
           e == c \o <<v>>
<1>1. b \in Seq(S) /\ Len(b) = 1 /\ b[1] = t
  OBVIOUS
<1>2. <<t, n, v>> \in Seq(S) /\ Len(<<t, n, v>>) = 3
  OBVIOUS
<1>3. n \in S /\ c = b \o <<n>>
  OBVIOUS
<1>4. v \in S /\ e = c \o <<v>>
  OBVIOUS
<1> HIDE DEF S, b, c, e
<1>5. c \in Seq(S) /\ Len(c) = 2 /\ c[1] = t /\ c[2] = n
  <2>1. /\ c \in Seq(S) /\ Len(c) = Len(b) + 1
        /\ \A i \in 1..Len(b) : c[i] = b[i]
        /\ c[Len(b) + 1] = n
    BY <1>1, <1>3, AppendOne
  <2> QED BY <1>1, <2>1
<1>6. e \in Seq(S) /\ Len(e) = 3 /\ e[1] = t /\ e[2] = n /\ e[3] = v
  <2>1. /\ e \in Seq(S) /\ Len(e) = Len(c) + 1
        /\ \A i \in 1..Len(c) : e[i] = c[i]
        /\ e[Len(c) + 1] = v
    BY <1>4, <1>5, AppendOne
  <2> QED BY <1>5, <2>1
<1>7. \A i \in 1..3 : e[i] = <<t, n, v>>[i]
  BY <1>6
<1>8. e = <<t, n, v>>
  BY <1>2, <1>6, <1>7, SeqEqual
<1> QED BY <1>8 DEF e, c, b
=============================================================================
