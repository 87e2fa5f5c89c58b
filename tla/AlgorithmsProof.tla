-------------------------- MODULE AlgorithmsProof ---------------------------
(* Two algorithms that range over a Go map: GetLatestTool's scan finds a   *)
(* latest version and the schema validator comes to one verdict, in        *)
(* whatever order they meet the entries.                                   *)
EXTENDS LatestScan, Schema, Foundations, TLAPS

-----------------------------------------------------------------------------
\* The scan of GetLatestTool keeps a latest version of what it has visited, for
\* every set of versions and every order in which the map is ranged over.
THEOREM ScanFindsLatest == Spec => [](TypeOK /\ ScanKeepsLatest)
<1> DEFINE Inv == TypeOK /\ ScanKeepsLatest
<1>1. Init => Inv
  BY DEF Init, TypeOK, ScanKeepsLatest
<1>2. Inv /\ [Next]_vars => Inv'
  <2> SUFFICES ASSUME TypeOK, ScanKeepsLatest, [Next]_vars PROVE Inv'
    OBVIOUS
  <2>1. ASSUME NEW v \in todo, Visit(v) PROVE Inv'
    <3>1. TypeOK'
      BY <2>1 DEF Visit, TypeOK
    <3>2. v \in VersionSet /\ IsVersion(v) /\ compareVersion(v, v) <= 0
      <4>1. v \in VersionSet /\ IsVersion(v)
        BY VersionsAreVersions DEF TypeOK
      <4> QED BY <4>1, CompareLeq
    <3>3. CASE done = {}
      <4>1. bestV' = v /\ done' = {v}
        BY <2>1, <3>3 DEF Visit, ScanKeepsLatest
      <4> QED BY <3>1, <3>2, <4>1 DEF ScanKeepsLatest, Latest
    <3>4. CASE done # {}
      <4>1. /\ bestV \in done /\ bestV \in VersionSet /\ IsVersion(bestV)
            /\ bestV # NoVersion
            /\ \A w \in done : IsVersion(w) /\ compareVersion(w, bestV) <= 0
        BY <3>4, VersionsAreVersions, NoVersionIsNone DEF ScanKeepsLatest, Latest, TypeOK
      <4>2. CASE compareVersion(v, bestV) <= 0
        <5>1. ~(compareVersion(v, bestV) > 0)
          BY <4>2, <4>1, <3>2, CompareLeq
        <5>2. bestV' = bestV /\ done' = done \cup {v}
          BY <2>1, <4>1, <5>1 DEF Visit
        <5> QED BY <3>1, <4>1, <4>2, <5>2 DEF ScanKeepsLatest, Latest
      <4>3. CASE ~(compareVersion(v, bestV) <= 0)
        <5>1. compareVersion(v, bestV) > 0
          BY <4>3, <4>1, <3>2, CompareLeq
        <5>2. bestV' = v /\ done' = done \cup {v}
          BY <2>1, <4>1, <5>1 DEF Visit
        <5>3. compareVersion(bestV, v) <= 0
          BY <4>1, <4>3, <3>2, CompareTotal
        <5>4. \A w \in done : compareVersion(w, v) <= 0
          BY <4>1, <3>2, <5>3, CompareTransitive
        <5> QED BY <3>1, <3>2, <5>2, <5>4 DEF ScanKeepsLatest, Latest
      <4> QED BY <4>2, <4>3
    <3> QED BY <3>3, <3>4
  <2>2. CASE UNCHANGED vars
    BY <2>2 DEF vars, TypeOK, ScanKeepsLatest
  <2> QED BY <2>1, <2>2 DEF Next
<1> QED BY <1>1, <1>2, PTL DEF Spec

-----------------------------------------------------------------------------
(* The levels of a schema.                                                 *)

BelowAll(C) == UNION {Below(c) : c \in C}

CallLevels(f, k, s, v) ==
    f = [n \in 0..k |-> IF n = 0 THEN Calls(s.parts, v.parts) ELSE BelowAll(f[n - 1])]

\* The calls at each depth are those below the calls one level up.
LEMMA LevelsStep ==
    ASSUME NEW s, NEW v
    PROVE  /\ Levels(s, v)[0] = Calls(s.parts, v.parts)
           /\ \A n \in 1..MaxDepth : Levels(s, v)[n] = BelowAll(Levels(s, v)[n - 1])
<1> DEFINE base == Calls(s.parts, v.parts)
           S == {k \in 0..MaxDepth : \E f : CallLevels(f, k, s, v)}
<1>1. MaxDepth \in Nat
  BY SchemaConstants
<1>2. 0 \in S
  <2> DEFINE g == [n \in 0..0 |-> base]
  <2> HIDE DEF base
  <2>1. g = [n \in 0..0 |-> IF n = 0 THEN base ELSE BelowAll(g[n - 1])]
    OBVIOUS
  <2>2. CallLevels(g, 0, s, v)
    BY <2>1 DEF CallLevels, base
  <2> QED BY <1>1, <2>2
<1>3. ASSUME NEW k \in 1..MaxDepth, k - 1 \in S PROVE k \in S
  <2>1. PICK f : CallLevels(f, k - 1, s, v)
    BY <1>3
  <2> DEFINE g == [n \in 0..k |-> IF n = k THEN BelowAll(f[k - 1]) ELSE f[n]]
  <2>2. \A n \in 0..(k - 1) : f[n] = IF n = 0 THEN base ELSE BelowAll(f[n - 1])
    BY <1>1, <2>1 DEF CallLevels
  <2> HIDE DEF base
  <2>3. ASSUME NEW n \in 0..k PROVE g[n] = IF n = 0 THEN base ELSE BelowAll(g[n - 1])
    <3>1. CASE n = k
      <4>1. n # 0 /\ g[n] = BelowAll(f[k - 1]) /\ g[n - 1] = f[k - 1]
        BY <1>1, <3>1
      <4> QED BY <4>1
    <3>2. CASE n # k
      <4>1. n \in 0..(k - 1) /\ g[n] = f[n] /\ (n # 0 => g[n - 1] = f[n - 1])
        BY <1>1, <3>2
      <4> QED BY <2>2, <4>1
    <3> QED BY <3>1, <3>2
  <2>4. g = [n \in 0..k |-> IF n = 0 THEN base ELSE BelowAll(g[n - 1])]
    <3> DEFINE h == [n \in 0..k |-> IF n = 0 THEN base ELSE BelowAll(g[n - 1])]
    <3>1. \A n \in 0..k : g[n] = h[n]
      BY <2>3
    <3>2. g = [n \in 0..k |-> g[n]] /\ h = [n \in 0..k |-> h[n]]
      OBVIOUS
    <3> HIDE DEF g, h
    <3>3. g = h
      BY <3>1, <3>2
    <3> QED BY <3>3 DEF h
  <2>5. CallLevels(g, k, s, v)
    BY <2>4 DEF CallLevels, base
  <2> HIDE DEF g
  <2> QED BY <2>5
<1>4. \E f : CallLevels(f, MaxDepth, s, v)
  <2> HIDE DEF S
  <2>1. 0..MaxDepth \subseteq S
    BY <1>1, <1>2, <1>3, InductionUpTo
  <2> QED BY <1>1, <2>1 DEF S
<1>5. Levels(s, v) = CHOOSE f : CallLevels(f, MaxDepth, s, v)
  BY DEF Levels, CallLevels, BelowAll
<1>6. CallLevels(Levels(s, v), MaxDepth, s, v)
  BY <1>4, <1>5
<1> HIDE DEF base
<1> QED BY <1>1, <1>6 DEF CallLevels

MembersAll(X) == UNION {Members(x) : x \in X}

MeantLevels(f, k, s, v) ==
    f = [n \in 0..k |-> IF n = 0 THEN {[pSchema |-> s, val |-> v]} ELSE MembersAll(f[n - 1])]

\* The values at each depth are the members of those one level up.
LEMMA MeantStep ==
    ASSUME NEW s, NEW v
    PROVE  /\ Meant(s, v)[0] = {[pSchema |-> s, val |-> v]}
           /\ \A n \in 1..(MaxDepth + 1) : Meant(s, v)[n] = MembersAll(Meant(s, v)[n - 1])
<1> DEFINE D == MaxDepth + 1
           base == {[pSchema |-> s, val |-> v]}
           S == {k \in 0..D : \E f : MeantLevels(f, k, s, v)}
<1>1. D \in Nat /\ D = MaxDepth + 1
  BY SchemaConstants
<1> HIDE DEF D
<1>2. 0 \in S
  <2> DEFINE g == [n \in 0..0 |-> base]
  <2> HIDE DEF base
  <2>1. g = [n \in 0..0 |-> IF n = 0 THEN base ELSE MembersAll(g[n - 1])]
    OBVIOUS
  <2>2. MeantLevels(g, 0, s, v)
    BY <2>1 DEF MeantLevels, base
  <2> QED BY <1>1, <2>2
<1>3. ASSUME NEW k \in 1..D, k - 1 \in S PROVE k \in S
  <2>1. PICK f : MeantLevels(f, k - 1, s, v)
    BY <1>3
  <2> DEFINE g == [n \in 0..k |-> IF n = k THEN MembersAll(f[k - 1]) ELSE f[n]]
  <2>2. \A n \in 0..(k - 1) : f[n] = IF n = 0 THEN base ELSE MembersAll(f[n - 1])
    BY <1>1, <2>1 DEF MeantLevels
  <2> HIDE DEF base
  <2>3. ASSUME NEW n \in 0..k PROVE g[n] = IF n = 0 THEN base ELSE MembersAll(g[n - 1])
    <3>1. CASE n = k
      <4>1. n # 0 /\ g[n] = MembersAll(f[k - 1]) /\ g[n - 1] = f[k - 1]
        BY <1>1, <3>1
      <4> QED BY <4>1
    <3>2. CASE n # k
      <4>1. n \in 0..(k - 1) /\ g[n] = f[n] /\ (n # 0 => g[n - 1] = f[n - 1])
        BY <1>1, <3>2
      <4> QED BY <2>2, <4>1
    <3> QED BY <3>1, <3>2
  <2>4. g = [n \in 0..k |-> IF n = 0 THEN base ELSE MembersAll(g[n - 1])]
    <3> DEFINE h == [n \in 0..k |-> IF n = 0 THEN base ELSE MembersAll(g[n - 1])]
    <3>1. \A n \in 0..k : g[n] = h[n]
      BY <2>3
    <3>2. g = [n \in 0..k |-> g[n]] /\ h = [n \in 0..k |-> h[n]]
      OBVIOUS
    <3> HIDE DEF g, h
    <3>3. g = h
      BY <3>1, <3>2
    <3> QED BY <3>3 DEF h
  <2>5. MeantLevels(g, k, s, v)
    BY <2>4 DEF MeantLevels, base
  <2> HIDE DEF g
  <2> QED BY <2>5
<1>4. \E f : MeantLevels(f, D, s, v)
  <2> HIDE DEF S
  <2>1. 0..D \subseteq S
    BY <1>1, <1>2, <1>3, InductionUpTo
  <2> QED BY <1>1, <2>1 DEF S
<1>5. Meant(s, v) = CHOOSE f : MeantLevels(f, D, s, v)
  BY DEF Meant, MeantLevels, MembersAll, D
<1>6. MeantLevels(Meant(s, v), D, s, v)
  BY <1>4, <1>5
<1>7. \A n \in 0..D :
        Meant(s, v)[n] = IF n = 0 THEN base ELSE MembersAll(Meant(s, v)[n - 1])
  BY <1>6 DEF MeantLevels
<1> HIDE DEF base
<1>8. /\ Meant(s, v)[0] = base
      /\ \A n \in 1..D : Meant(s, v)[n] = MembersAll(Meant(s, v)[n - 1])
  BY <1>1, <1>7
<1> QED BY <1>1, <1>8 DEF base
-----------------------------------------------------------------------------
(* The calls that there are to make.                                       *)

AllCalls(s, v) == UNION {Levels(s, v)[n] : n \in 0..MaxDepth}

\* They hold the calls for the root, and those below any of them: there are none
\* below the deepest level.
LEMMA CallsClosed ==
    ASSUME NEW s \in Schemas, NEW v \in Inputs
    PROVE  /\ Calls(s.parts, v.parts) \subseteq AllCalls(s, v)
           /\ \A c \in AllCalls(s, v) : Below(c) \subseteq AllCalls(s, v)
<1> DEFINE L == Levels(s, v)
<1>1. MaxDepth \in Nat /\ \A c \in L[MaxDepth] : Below(c) = {}
  BY SchemaConstants
<1>2. L[0] = Calls(s.parts, v.parts) /\ \A n \in 1..MaxDepth : L[n] = BelowAll(L[n - 1])
  BY LevelsStep
<1> HIDE DEF L
<1>3. L[0] \subseteq UNION {L[n] : n \in 0..MaxDepth}
  BY <1>1
<1>4. ASSUME NEW n \in 0..MaxDepth, NEW c \in L[n]
      PROVE  Below(c) \subseteq UNION {L[k] : k \in 0..MaxDepth}
  <2>1. CASE n = MaxDepth
    BY <1>1, <2>1
  <2>2. CASE n # MaxDepth
    <3>1. n + 1 \in 1..MaxDepth /\ n + 1 \in 0..MaxDepth /\ (n + 1) - 1 = n
      BY <1>1, <2>2
    <3>2. Below(c) \subseteq L[n + 1]
      BY <1>2, <3>1 DEF BelowAll
    <3> QED BY <3>1, <3>2
  <2> QED BY <2>1, <2>2
<1> QED BY <1>2, <1>3, <1>4 DEF AllCalls, L

\* Whatever holds the calls for the root, and those below its own, holds all.
LEMMA CallsLeast ==
    ASSUME NEW s, NEW v, NEW P, Calls(s.parts, v.parts) \subseteq P,
           \A c \in P : Below(c) \subseteq P
    PROVE  AllCalls(s, v) \subseteq P
<1> DEFINE L == Levels(s, v)
           T == {n \in 0..MaxDepth : L[n] \subseteq P}
<1>1. MaxDepth \in Nat
  BY SchemaConstants
<1>2. L[0] = Calls(s.parts, v.parts) /\ \A n \in 1..MaxDepth : L[n] = BelowAll(L[n - 1])
  BY LevelsStep
<1> HIDE DEF L
<1>3. 0 \in T
  BY <1>1, <1>2
<1>4. ASSUME NEW n \in 1..MaxDepth, n - 1 \in T PROVE n \in T
  <2>1. L[n] = BelowAll(L[n - 1]) /\ L[n - 1] \subseteq P
    BY <1>2, <1>4
  <2>2. BelowAll(L[n - 1]) \subseteq P
    BY <2>1 DEF BelowAll
  <2> QED BY <2>1, <2>2
<1> HIDE DEF T
<1>5. 0..MaxDepth \subseteq T
  BY <1>1, <1>3, <1>4, InductionUpTo
<1> QED BY <1>5 DEF AllCalls, L, T

-----------------------------------------------------------------------------
(* The calls that the stack has pending.                                   *)

Pending(st) == UNION {st[i] : i \in DOMAIN st}

\* A stack is its innermost call on top of the others.
LEMMA PendingTop ==
    ASSUME NEW C, NEW st \in Seq(SUBSET C), st # <<>>
    PROVE  /\ Head(st) \in SUBSET C /\ Tail(st) \in Seq(SUBSET C)
           /\ Pending(st) = Head(st) \cup Pending(Tail(st))
<1>1. /\ Len(st) \in Nat \ {0} /\ DOMAIN st = 1..Len(st) /\ Head(st) = st[1]
      /\ Head(st) \in SUBSET C
  BY EmptySeq, LenProperties, HeadTailProperties
<1>2. /\ Tail(st) \in Seq(SUBSET C) /\ Len(Tail(st)) = Len(st) - 1
      /\ \A i \in 1..Len(Tail(st)) : Tail(st)[i] = st[i + 1]
  BY HeadTailProperties
<1> DEFINE t == Tail(st)
<1>3. DOMAIN t = 1..(Len(st) - 1)
  BY <1>2, LenProperties
<1> HIDE DEF t
<1>4. \A i \in 1..Len(st) : i = 1 \/ (i - 1 \in DOMAIN t /\ t[i - 1] = st[i])
  BY <1>1, <1>2, <1>3 DEF t
<1>5. \A i \in DOMAIN t : i + 1 \in 1..Len(st) /\ t[i] = st[i + 1]
  BY <1>1, <1>2, <1>3 DEF t
<1>6. 1 \in 1..Len(st)
  BY <1>1
<1>7. Pending(st) = st[1] \cup Pending(t)
  BY <1>1, <1>4, <1>5, <1>6 DEF Pending
<1> QED BY <1>1, <1>2, <1>7 DEF t

\* What putting a call on top of the others adds.
LEMMA PendingPush ==
    ASSUME NEW C, NEW st \in Seq(SUBSET C), NEW F \in SUBSET C
    PROVE  /\ <<F>> \o st \in Seq(SUBSET C) /\ <<F>> \o st # <<>>
           /\ Pending(<<F>> \o st) = F \cup Pending(st)
<1> DEFINE w == <<F>>
           e == w \o st
<1>1. w \in Seq(SUBSET C) /\ Len(w) = 1 /\ w[1] = F
  OBVIOUS
<1> HIDE DEF w
<1>2. /\ e \in Seq(SUBSET C) /\ Len(e) = 1 + Len(st)
      /\ \A i \in 1..(1 + Len(st)) : e[i] = IF i <= 1 THEN w[i] ELSE st[i - 1]
  <2> DEFINE S == SUBSET C
  <2>1. w \in Seq(S) /\ st \in Seq(S)
    BY <1>1
  <2> HIDE DEF S
  <2>2. /\ e \in Seq(S) /\ Len(e) = Len(w) + Len(st)
        /\ \A i \in 1..(Len(w) + Len(st)) : e[i] = IF i <= Len(w) THEN w[i] ELSE st[i - Len(w)]
    BY <2>1, ConcatProperties
  <2> HIDE DEF e
  <2>3. /\ e \in Seq(S) /\ Len(e) = 1 + Len(st)
        /\ \A i \in 1..(1 + Len(st)) : e[i] = IF i <= 1 THEN w[i] ELSE st[i - 1]
    BY <1>1, <2>2
  <2> QED BY <2>3 DEF S
<1>3. Len(st) \in Nat /\ DOMAIN st = 1..Len(st)
  BY LenProperties
<1> HIDE DEF e
<1>4. DOMAIN e = 1..(1 + Len(st)) /\ e # <<>>
  <2>1. DOMAIN e = 1..Len(e)
    BY <1>2
  <2>2. Len(e) # 0
    BY <1>2, <1>3
  <2>3. e # <<>>
    BY <2>2
  <2> QED BY <1>2, <2>1, <2>3
<1>5. e[1] = F /\ 1 \in DOMAIN e
  BY <1>1, <1>2, <1>3, <1>4
<1>6. \A i \in DOMAIN e : i = 1 \/ (i - 1 \in DOMAIN st /\ e[i] = st[i - 1])
  BY <1>2, <1>3, <1>4
<1>7. \A i \in DOMAIN st : i + 1 \in DOMAIN e /\ e[i + 1] = st[i]
  BY <1>2, <1>3, <1>4
<1>8. Pending(e) = F \cup Pending(st)
  BY <1>5, <1>6, <1>7 DEF Pending
<1> QED BY <1>2, <1>4, <1>8 DEF e, w
-----------------------------------------------------------------------------
(* The verdict of the validator.                                           *)

OutcomesOf(s, v) ==
    {IF requiredMissing(s.parts, v.parts) THEN "invalid" ELSE "ok"}
    \cup {Outcome(c) : c \in AllCalls(s, v)}

\* The calls in P have passed, and what is to be made for the root or below one
\* of them has passed too or is pending.
Passed(P, s, v, st) ==
    /\ Calls(s.parts, v.parts) \subseteq P \cup Pending(st)
    /\ \A c \in P : Outcome(c) = "ok" /\ Below(c) \subseteq P \cup Pending(st)

Checking(s, v, st) ==
    st # <<>> /\ ~requiredMissing(s.parts, v.parts) /\ \E P : Passed(P, s, v, st)

\* The verdict x is that of the checks.
Decides(x, s, v) ==
    x \in OutcomesOf(s, v) /\ (x = "ok" <=> OutcomesOf(s, v) = {"ok"})

\* While the validator is at it, nothing has failed and nothing is forgotten.
SchemaInv ==
    /\ schema \in Schemas /\ input \in Inputs
    /\ stack \in Seq(SUBSET AllCalls(schema, input))
    /\ \/ verdict = "none"
       \/ verdict = "checking" /\ Checking(schema, input, stack)
       \/ verdict \in {"ok", "invalid", "panic"} /\ Decides(verdict, schema, input)

\* A check passes, fails or panics.
LEMMA OutcomeRange ==
    ASSUME NEW c
    PROVE  checkValue(c) \in {"ok", "invalid", "panic"}
BY DEF checkValue, inEnum

\* Nothing is left to do once all that has passed holds what is below it.
LEMMA AllPassed ==
    ASSUME NEW s, NEW v, NEW st, Pending(st) = {}, Checking(s, v, st)
    PROVE  Decides("ok", s, v)
<1>1. PICK P : Passed(P, s, v, st)
  BY DEF Checking
<1>2. Calls(s.parts, v.parts) \subseteq P /\ \A c \in P : Below(c) \subseteq P
  BY <1>1 DEF Passed
<1>3. AllCalls(s, v) \subseteq P
  BY <1>2, CallsLeast
<1>4. \A c \in AllCalls(s, v) : Outcome(c) = "ok"
  BY <1>1, <1>3 DEF Passed
<1> QED BY <1>4 DEF Checking, Decides, OutcomesOf

\* A failed check decides.
LEMMA FailureDecides ==
    ASSUME NEW s, NEW v, NEW x \in {"invalid", "panic"}, x \in OutcomesOf(s, v)
    PROVE  Decides(x, s, v)
BY DEF Decides

\* What the invariant comes to when the call of Invoke is the same.
LEMMA SchemaInvNext ==
    ASSUME UNCHANGED <<schema, input>>
    PROVE  SchemaInv' <=>
             /\ schema \in Schemas /\ input \in Inputs
             /\ stack' \in Seq(SUBSET AllCalls(schema, input))
             /\ \/ verdict' = "none"
                \/ verdict' = "checking" /\ Checking(schema, input, stack')
                \/ verdict' \in {"ok", "invalid", "panic"} /\ Decides(verdict', schema, input)
BY DEF SchemaInv

\* Validate starts with the calls for the root, or has its verdict at once.
LEMMA ValidateStep ==
    ASSUME SchemaInv, Validate PROVE SchemaInv'
<1> DEFINE s == schema.parts
           v == input.parts
           C == AllCalls(schema, input)
<1>1. schema \in Schemas /\ input \in Inputs /\ stack \in Seq(SUBSET C) /\ UNCHANGED <<schema, input>>
  BY DEF SchemaInv, Validate
<1>2. <<>> \in Seq(SUBSET C) /\ Pending(<<>>) = {}
  BY DEF Pending
<1>3. Calls(s, v) \in SUBSET C
  BY <1>1, CallsClosed
<1>4. CASE DOMAIN s = {}
  <2>1. ~requiredMissing(s, v) /\ Calls(s, v) = {}
    BY <1>4 DEF requiredMissing, Calls, Has
  <2>2. C \subseteq {}
    BY <2>1, CallsLeast
  <2>3. Decides("ok", schema, input)
    BY <2>1, <2>2 DEF Decides, OutcomesOf
  <2>4. verdict' = "ok" /\ stack' = stack
    BY <1>4 DEF Validate
  <2> QED BY <1>1, <2>3, <2>4, SchemaInvNext
<1>5. CASE DOMAIN s # {} /\ requiredMissing(s, v)
  <2>1. verdict' = "invalid" /\ stack' = <<>>
    BY <1>5 DEF Validate, validateNode
  <2>2. Decides("invalid", schema, input)
    BY <1>5, FailureDecides DEF OutcomesOf
  <2> QED BY <1>1, <1>2, <2>1, <2>2, SchemaInvNext
<1>6. CASE DOMAIN s # {} /\ ~requiredMissing(s, v)
  <2> DEFINE st == <<Calls(s, v)>> \o <<>>
  <2>1. verdict' = "checking" /\ stack' = st
    BY <1>6 DEF Validate, validateNode
  <2>2. st \in Seq(SUBSET C) /\ st # <<>> /\ Pending(st) = Calls(s, v)
    <3>1. /\ st \in Seq(SUBSET C) /\ st # <<>>
          /\ Pending(st) = Calls(s, v) \cup Pending(<<>>)
      BY <1>2, <1>3, PendingPush, Zenon
    <3> QED BY <1>2, <3>1, Zenon
  <2> HIDE DEF st
  <2>3. Passed({}, schema, input, st)
    BY <2>2 DEF Passed
  <2>4. Checking(schema, input, st)
    BY <1>6, <2>2, <2>3 DEF Checking
  <2> QED BY <1>1, <2>1, <2>2, <2>4, SchemaInvNext
<1> QED BY <1>4, <1>5, <1>6

\* A call of validateValue fails, and so decides, or it has passed and has the
\* calls below it pending.
LEMMA ValidateValueStep ==
    ASSUME SchemaInv, NEW c, validateValue(c) PROVE SchemaInv'
<1> DEFINE C == AllCalls(schema, input)
           callers == <<Head(stack) \ {c}>> \o Tail(stack)
<1>1. /\ schema \in Schemas /\ input \in Inputs /\ stack \in Seq(SUBSET C)
      /\ UNCHANGED <<schema, input>> /\ c \in Head(stack)
      /\ Checking(schema, input, stack) /\ stack # <<>>
  BY DEF SchemaInv, validateValue, Checking
<1> HIDE DEF C
<1>2. /\ Head(stack) \in SUBSET C /\ Tail(stack) \in Seq(SUBSET C)
      /\ Pending(stack) = Head(stack) \cup Pending(Tail(stack))
  BY <1>1, PendingTop
<1>3. /\ callers \in Seq(SUBSET C) /\ callers # <<>>
      /\ Pending(callers) = (Head(stack) \ {c}) \cup Pending(Tail(stack))
  <2>1. Head(stack) \ {c} \in SUBSET C
    BY <1>2
  <2> QED BY <1>2, <2>1, PendingPush, Zenon
<1>4. c \in C /\ Below(c) \in SUBSET C
  BY <1>1, <1>2, CallsClosed DEF C
<1>5. Outcome(c) \in OutcomesOf(schema, input)
  BY <1>4 DEF OutcomesOf, C
<1>6. PICK P : Passed(P, schema, input, stack)
  BY <1>1 DEF Checking
<1>7. ~requiredMissing(schema.parts, input.parts)
  BY <1>1 DEF Checking
<1>8. ASSUME NEW st, st # <<>>, Outcome(c) = "ok", Pending(st) = Below(c) \cup Pending(callers)
      PROVE  Checking(schema, input, st)
  <2> DEFINE Q == P \cup {c}
  <2>1. P \cup Pending(stack) \subseteq Q \cup Pending(st)
    BY <1>2, <1>3, <1>8
  <2>2. Below(c) \subseteq Q \cup Pending(st)
    BY <1>8
  <2> HIDE DEF callers
  <2>3. Passed(Q, schema, input, st)
    BY <1>6, <1>8, <2>1, <2>2 DEF Passed
  <2> HIDE DEF Q
  <2> QED BY <1>7, <1>8, <2>3 DEF Checking
<1>9. CASE checkValue(c) # "ok"
  <2>1. verdict' = checkValue(c) /\ stack' = callers
    BY <1>9 DEF validateValue
  <2>2. Outcome(c) = checkValue(c) /\ checkValue(c) \in {"invalid", "panic"}
    BY <1>9, OutcomeRange DEF Outcome
  <2>3. Decides(checkValue(c), schema, input)
    BY <1>5, <2>2, FailureDecides
  <2> HIDE DEF callers
  <2> QED BY <1>1, <1>3, <2>1, <2>2, <2>3, SchemaInvNext DEF C
<1>10. CASE checkValue(c) = "ok" /\ HasSub(c) /\ requiredMissing(sub(c), c.val.parts)
  <2>1. verdict' = "invalid" /\ stack' = callers
    BY <1>10 DEF validateValue, validateNode
  <2>2. Outcome(c) = "invalid"
    BY <1>10 DEF Outcome
  <2>3. Decides("invalid", schema, input)
    BY <1>5, <2>2, FailureDecides
  <2> HIDE DEF callers
  <2> QED BY <1>1, <1>3, <2>1, <2>3, SchemaInvNext DEF C
<1>11. CASE checkValue(c) = "ok" /\ HasSub(c) /\ ~requiredMissing(sub(c), c.val.parts)
  <2> DEFINE st == <<Below(c)>> \o callers
  <2>1. verdict' = "checking" /\ stack' = st
    BY <1>11 DEF validateValue, validateNode, Below
  <2>2. Outcome(c) = "ok"
    BY <1>11 DEF Outcome
  <2> HIDE DEF callers
  <2>3. st \in Seq(SUBSET C) /\ st # <<>> /\ Pending(st) = Below(c) \cup Pending(callers)
    BY <1>3, <1>4, PendingPush
  <2> HIDE DEF st
  <2>4. Checking(schema, input, st)
    BY <1>8, <2>2, <2>3
  <2> QED BY <1>1, <2>1, <2>3, <2>4, SchemaInvNext DEF C
<1>12. CASE checkValue(c) = "ok" /\ ~HasSub(c)
  <2>1. verdict' = "checking" /\ stack' = callers
    BY <1>12 DEF validateValue
  <2>2. Outcome(c) = "ok" /\ Below(c) = {}
    BY <1>12 DEF Outcome, Below
  <2> HIDE DEF callers
  <2>3. Checking(schema, input, callers)
    BY <1>3, <1>8, <2>2
  <2> QED BY <1>1, <1>3, <2>1, <2>3, SchemaInvNext DEF C
<1> QED BY <1>9, <1>10, <1>11, <1>12

\* At the end of a validateNode nothing is pending in it; at the end of the
\* outermost one nothing is pending at all.
LEMMA ReturnStep ==
    ASSUME SchemaInv, Return PROVE SchemaInv'
<1> DEFINE C == AllCalls(schema, input)
<1>1. /\ schema \in Schemas /\ input \in Inputs /\ stack \in Seq(SUBSET C)
      /\ UNCHANGED <<schema, input>> /\ stack' = Tail(stack)
      /\ Checking(schema, input, stack) /\ stack # <<>>
  BY DEF SchemaInv, Return, Checking
<1> HIDE DEF C
<1>2. Tail(stack) \in Seq(SUBSET C) /\ Pending(stack) = Pending(Tail(stack))
  <2>1. Head(stack) = {}
    BY DEF Return
  <2>2. /\ Tail(stack) \in Seq(SUBSET C)
        /\ Pending(stack) = Head(stack) \cup Pending(Tail(stack))
    BY <1>1, PendingTop, Zenon
  <2> QED BY <2>1, <2>2
<1>3. CASE Tail(stack) = <<>>
  <2>1. Pending(<<>>) = {}
    BY DEF Pending
  <2>2. Pending(stack) = {}
    BY <1>2, <1>3, <2>1, Zenon
  <2>3. Decides("ok", schema, input)
    BY <1>1, <2>2, AllPassed
  <2>4. verdict' = "ok"
    BY <1>3 DEF Return
  <2> QED BY <1>1, <1>2, <2>3, <2>4, SchemaInvNext DEF C
<1>4. CASE Tail(stack) # <<>>
  <2>1. verdict' = "checking"
    BY <1>4 DEF Return
  <2>2. Checking(schema, input, Tail(stack))
    BY <1>1, <1>2, <1>4 DEF Checking, Passed
  <2> QED BY <1>1, <1>2, <2>1, <2>2, SchemaInvNext DEF C
<1> QED BY <1>3, <1>4

THEOREM SchemaInvariant == SchemaSpec => []SchemaInv
<1>1. SchemaInit => SchemaInv
  BY DEF SchemaInit, SchemaInv
<1>2. SchemaInv /\ [SchemaNext]_schemaVars => SchemaInv'
  <2>1. CASE UNCHANGED schemaVars
    BY <2>1 DEF schemaVars, SchemaInv
  <2> QED BY <2>1, ValidateStep, ValidateValueStep, ReturnStep DEF SchemaNext
<1> QED BY <1>1, <1>2, PTL DEF SchemaSpec

\* The verdict of the validator does not depend on the order in which Go ranges
\* over the properties, at any level and for every schema and input.
THEOREM SchemaVerdictDetermined == SchemaSpec => []VerdictDetermined
<1>1. SchemaInv => VerdictDetermined
  BY DEF SchemaInv, VerdictDetermined, Decides, Outcomes, OutcomesOf, AllCalls
<1> QED BY <1>1, SchemaInvariant, PTL
-----------------------------------------------------------------------------
(* What the verdict says of the input.                                     *)

\* checkType and JSON Schema differ in the whole numbers outside int64 only.
LEMMA KindsAgree ==
    /\ DOMAIN kindsMeant = DOMAIN kindsOf
    /\ \A t \in DOMAIN kindsOf : kindsOf[t] \subseteq kindsMeant[t]
                                 /\ kindsMeant[t] \subseteq kindsOf[t] \cup {"huge"}
    /\ "object" \in kindsMeant["object"] /\ Empty \notin DOMAIN kindsOf
<1> DEFINE keys == {"string", "number", "integer", "boolean", "array", "object", "null"}
<1>1. DOMAIN kindsOf = keys
  BY DEF kindsOf
<1>2. DOMAIN kindsMeant = keys
  BY DEF kindsMeant
<1>3. \A t \in keys : kindsOf[t] \subseteq kindsMeant[t]
                      /\ kindsMeant[t] \subseteq kindsOf[t] \cup {"huge"}
  BY DEF kindsMeant, kindsOf
<1>4. "object" \in kindsMeant["object"]
  BY DEF kindsMeant, kindsOf
<1>5. Empty \notin keys
  BY Zenon DEF Empty
<1> QED BY <1>1, <1>2, <1>3, <1>4, <1>5

\* Whatever holds the root and the members of its own holds all that is meant.
LEMMA MeantLeast ==
    ASSUME NEW s, NEW v, NEW P, [pSchema |-> s, val |-> v] \in P,
           \A x \in P : Members(x) \subseteq P
    PROVE  \A n \in 0..(MaxDepth + 1) : Meant(s, v)[n] \subseteq P
<1> DEFINE D == MaxDepth + 1
           M == Meant(s, v)
           x0 == [pSchema |-> s, val |-> v]
           T == {n \in 0..D : M[n] \subseteq P}
<1>1. D \in Nat
  BY SchemaConstants
<1>2. M[0] = {x0} /\ \A n \in 1..D : M[n] = MembersAll(M[n - 1])
  BY MeantStep
<1>3. x0 \in P
  OBVIOUS
<1> HIDE DEF M, x0, D
<1>4. 0 \in T
  BY <1>1, <1>2, <1>3
<1>5. ASSUME NEW n \in 1..D, n - 1 \in T PROVE n \in T
  <2>1. M[n] = MembersAll(M[n - 1]) /\ M[n - 1] \subseteq P
    BY <1>2, <1>5
  <2>2. MembersAll(M[n - 1]) \subseteq P
    BY <2>1 DEF MembersAll
  <2> QED BY <2>1, <2>2
<1> HIDE DEF T
<1>6. 0..D \subseteq T
  BY <1>1, <1>4, <1>5, InductionUpTo
<1>7. \A n \in 0..D : M[n] \subseteq P
  BY <1>6 DEF T
<1> QED BY <1>7 DEF D, M

\* A call for the root checks a member of the input against the schema of its
\* property.
LEMMA RootCalls ==
    ASSUME NEW s, s.kind = "object", NEW v, v.kind = "object", NEW x
    PROVE  x \in Calls(s.parts, v.parts) <=>
             x \in Members([pSchema |-> s, val |-> v]) /\ x.pSchema.kind = "object"
BY DEF Calls, Members

\* What is required is not missing, and the other way round but for the property
\* with the empty name, which the code passes over.
LEMMA RequiredAgree ==
    ASSUME NEW m, NEW data
    PROVE  /\ RequiredNames(m) \subseteq DOMAIN data => ~requiredMissing(m, data)
           /\ ~requiredMissing(m, data) /\ Empty \notin RequiredNames(m)
              => RequiredNames(m) \subseteq DOMAIN data
BY DEF RequiredNames, requiredMissing

\* No conforming call is refused or dropped, for every schema and input in which
\* no array or object is looked up in an enum.
THEOREM SchemaConformingNeverRefused == SchemaSpec => []ConformingNeverRefused
<1>1. SchemaInv => ConformingNeverRefused
  <2> SUFFICES ASSUME SchemaInv, verdict \in {"invalid", "panic"}, Conforms,
                      \A n \in 0..(MaxDepth + 1) :
                        \A x \in Meant(schema, input)[n] : x.val.kind # "huge",
                      \A n \in 1..(MaxDepth + 1) :
                        \A x \in Meant(schema, input)[n] : ~Uncomparable(x),
                      \A p \in PropertySchemas : ~Misread(p)
               PROVE  FALSE
    BY DEF ConformingNeverRefused
  <2> DEFINE s == schema
             v == input
             x0 == [pSchema |-> s, val |-> v]
             C == Calls(s.parts, v.parts)
  <2>1. s \in Schemas /\ v \in Inputs /\ s.kind = "object" /\ v.kind = "object" /\ MaxDepth \in Nat
    BY SchemaConstants DEF SchemaInv
  <2>2. verdict \in OutcomesOf(s, v) /\ verdict # "ok"
    BY DEF SchemaInv, Decides
  <2>3. 0 \in 0..(MaxDepth + 1) /\ 1 \in 0..(MaxDepth + 1) /\ 1 \in 1..(MaxDepth + 1)
    BY <2>1
  <2>4. Meant(s, v)[0] = {x0} /\ Meant(s, v)[1] = Members(x0)
    <3>1. Meant(s, v)[0] = {x0} /\ Meant(s, v)[1] = MembersAll(Meant(s, v)[0])
      <4>1. 1 - 1 = 0
        OBVIOUS
      <4> QED BY <2>3, <4>1, MeantStep
    <3> HIDE DEF x0
    <3> QED BY <3>1 DEF MembersAll
  <2>5. ~requiredMissing(s.parts, v.parts)
    <3>1. Meets(x0)
      BY <2>3, <2>4 DEF Conforms
    <3> QED BY <2>1, <3>1, RequiredAgree DEF Meets
  <2>6. ASSUME NEW c \in C
        PROVE  /\ Meets(c) /\ c.val.kind # "huge" /\ c.pSchema.kind = "object"
               /\ ~Uncomparable(c)
               /\ Below(c) = {} /\ Outcome(c) = checkValue(c)
    <3>1. c \in Meant(s, v)[1] /\ c.pSchema.kind = "object"
      BY <2>1, <2>4, <2>6, RootCalls
    <3>2. Meets(c) /\ c.val.kind # "huge" /\ ~Uncomparable(c)
      BY <2>3, <3>1 DEF Conforms
    <3>3. c.pSchema \in PropertySchemas
      BY DEF PropertySchemas, Calls, Range
    <3>4. ~Misread(c.pSchema)
      BY <3>3
    <3>5. HasSub(c) => /\ ~Has(sub(c), "required", "array")
                       /\ Has(sub(c), "properties", "object") =>
                            \A x \in Range(sub(c)["properties"].parts) : x.kind # "object"
      BY <3>1, <3>4 DEF Misread, HasSub, sub
    <3>6. Outcome(c) = checkValue(c)
      BY <3>5 DEF Outcome, requiredMissing
    <3>7. Below(c) = {}
      BY <3>5 DEF Below, Calls, Range
    <3> QED BY <3>1, <3>2, <3>6, <3>7
  <2>7. AllCalls(s, v) \subseteq C
    BY <2>6, CallsLeast
  <2>8. PICK c \in C : checkValue(c) # "ok"
    <3>1. PICK c \in AllCalls(s, v) : Outcome(c) # "ok"
      BY <2>2, <2>5 DEF OutcomesOf
    <3> QED BY <2>6, <2>7, <3>1
  <2> DEFINE m == c.pSchema.parts
  <2>9. checkType(TypeOf(m), c.val)
    BY <2>6, KindsAgree DEF Meets, checkType
  <2>10. Has(m, "enum", "array") => c.val \in ToSet(m["enum"].parts)
    BY <2>6 DEF Meets
  <2>11. Has(m, "enum", "array") => inEnum(m["enum"].parts, c.val) = "ok"
    BY <2>6, <2>10 DEF inEnum, Uncomparable
  <2> QED BY <2>8, <2>9, <2>11 DEF checkValue
<1> QED BY <1>1, SchemaInvariant, PTL

\* For schemas of one level, what is accepted conforms.
THEOREM SchemaFlatAcceptedConforms == SchemaSpec => []FlatAcceptedConforms
<1>1. SchemaInv => FlatAcceptedConforms
  <2> SUFFICES ASSUME SchemaInv, verdict = "ok",
                      TypeOf(schema.parts) \in {Empty, "object"},
                      "enum" \notin DOMAIN schema.parts, Empty \notin RequiredNames(schema.parts),
                      \A p \in PropertySchemas : DOMAIN p.parts \cap {"properties", "required"} = {}
               PROVE  Conforms
    BY DEF FlatAcceptedConforms
  <2> DEFINE s == schema
             v == input
             x0 == [pSchema |-> s, val |-> v]
             P == {x0} \cup Members(x0)
  <2>1. s \in Schemas /\ v \in Inputs /\ s.kind = "object" /\ v.kind = "object"
    BY SchemaConstants DEF SchemaInv
  <2>2. OutcomesOf(s, v) = {"ok"}
    BY DEF SchemaInv, Decides
  <2>3. ~requiredMissing(s.parts, v.parts) /\ \A c \in AllCalls(s, v) : Outcome(c) = "ok"
    BY <2>2 DEF OutcomesOf
  <2>4. Meets(x0)
    <3>1. x0.pSchema = s /\ x0.val = v
      OBVIOUS
    <3>2. TypeOf(s.parts) \in DOMAIN kindsMeant => v.kind \in kindsMeant[TypeOf(s.parts)]
      BY <2>1, KindsAgree
    <3>3. RequiredNames(s.parts) \subseteq DOMAIN v.parts
      BY <2>3, RequiredAgree
    <3> HIDE DEF x0
    <3> QED BY <3>1, <3>2, <3>3 DEF Meets, Has
  <2>5. ASSUME NEW x \in Members(x0)
        PROVE  Meets(x) /\ Members(x) = {}
    <3> DEFINE m == x.pSchema.parts
    <3>1. x.pSchema \in PropertySchemas
      BY <2>5 DEF Members, PropertySchemas, Range
    <3>2. "properties" \notin DOMAIN m /\ "required" \notin DOMAIN m
      BY <3>1
    <3>3. Members(x) = {} /\ RequiredNames(m) = {}
      BY <3>2 DEF Members, RequiredNames, Has
    <3>4. CASE x.pSchema.kind # "object"
      BY <3>3, <3>4 DEF Meets
    <3>5. CASE x.pSchema.kind = "object"
      <4>1. x \in AllCalls(s, v)
        BY <2>1, <2>5, <3>5, RootCalls, CallsClosed
      <4>2. checkValue(x) = "ok"
        BY <2>3, <4>1 DEF Outcome
      <4>3. checkType(TypeOf(m), x.val)
        BY <4>2 DEF checkValue
      <4>4. Has(m, "enum", "array") => inEnum(m["enum"].parts, x.val) = "ok"
        BY <4>2, <4>3 DEF checkValue
      <4>5. Has(m, "enum", "array") => x.val \in ToSet(m["enum"].parts)
        BY <4>4 DEF inEnum
      <4>6. TypeOf(m) \in DOMAIN kindsMeant => x.val.kind \in kindsMeant[TypeOf(m)]
        BY <4>3, KindsAgree DEF checkType
      <4> QED BY <3>3, <4>5, <4>6 DEF Meets
    <3> QED BY <3>4, <3>5
  <2>6. \A n \in 0..(MaxDepth + 1) : Meant(s, v)[n] \subseteq P
    <3>1. x0 \in P /\ \A x \in P : Members(x) \subseteq P
      <4> HIDE DEF x0
      <4> QED BY <2>5
    <3> HIDE DEF P
    <3> QED BY <3>1, MeantLeast
  <2>7. \A x \in P : Meets(x)
    BY <2>4, <2>5
  <2> HIDE DEF P
  <2> QED BY <2>6, <2>7 DEF Conforms
<1> QED BY <1>1, SchemaInvariant, PTL
=============================================================================
