--------------------------- MODULE RecorderProof ----------------------------
(* Proofs about the metering recorder, for every buffer size, event bound  *)
(* and set of metrics.                                                     *)
EXTENDS Recorder, Foundations, TLAPS

\* New never builds an unbuffered channel.
LEMMA CapacityPositive == Capacity \in Nat /\ Capacity >= 1
BY RecorderConstants DEF Capacity

\* The average latency of a row is a natural number.
LEMMA QuotientNat ==
    ASSUME NEW a \in Nat, NEW b \in Nat, b > 0
    PROVE  a \div b \in Nat
BY Z3

\* Every variable keeps its type: the state of the recorder after any sequence
\* of Record, drain, Snapshot and Close steps.
THEOREM RecorderTyped == Spec => []TypeOK
<1>1. Init => TypeOK
  <2> SUFFICES ASSUME Init PROVE TypeOK
    OBVIOUS
  <2>1. NoCalls \in [ToolNames -> Nat]
    BY DEF NoCalls
  <2>2. NoRows \in [ToolNames -> Row]
    BY DEF NoRows, Row
  <2>3. <<>> \in Seq(CallMetric) /\ Len(<<>>) <= Capacity
    BY CapacityPositive
  <2> QED BY <2>1, <2>2, <2>3 DEF Init, TypeOK
<1>2. TypeOK /\ [Next]_vars => TypeOK'
  <2> SUFFICES ASSUME TypeOK, [Next]_vars PROVE TypeOK'
    OBVIOUS
  <2> USE CapacityPositive
  <2>1. ASSUME NEW m \in CallMetric, Record(m) PROVE TypeOK'
    <3>1. CASE Enqueue(m)
      BY <2>1, <3>1 DEF Record, Enqueue, TypeOK, worker, aggregates
    <3>2. CASE Drop
      BY <2>1, <3>2 DEF Record, Drop, TypeOK, worker, aggregates
    <3> QED BY <2>1, <3>1, <3>2 DEF Record
  <2>2. CASE Receive
    BY <2>2 DEF Receive, TypeOK, aggregates, history
  <2>3. CASE SeeClosed
    BY <2>3 DEF SeeClosed, TypeOK, aggregates, history
  <2>4. CASE FlushDone
    BY <2>4 DEF FlushDone, TypeOK, aggregates, history
  <2>5. CASE Aggregate
    <3>1. PICK m \in CallMetric : hand = <<m>>
      BY <2>5 DEF Aggregate, TypeOK
    <3>2. m.tool \in ToolNames /\ m.ms \in Nat
      BY RecorderConstants DEF CallMetric
    <3>3. hand[1] = m
      BY <3>1
    <3>4. calls' \in [ToolNames -> Nat]
      <4>1. calls' = [calls EXCEPT ![m.tool] = @ + 1]
        BY <2>5, <3>3 DEF Aggregate
      <4>2. calls \in [ToolNames -> Nat]
        BY DEF TypeOK
      <4>3. 1 \in Nat
        BY <3>2
      <4> QED BY <3>2, <4>1, <4>2, <4>3
    <3>5. success' \in [ToolNames -> Nat]
      <4>1. success' = [success EXCEPT ![m.tool] = @ + (IF m.ok THEN 1 ELSE 0)]
        BY <2>5, <3>3 DEF Aggregate
      <4>2. success \in [ToolNames -> Nat]
        BY DEF TypeOK
      <4>3. (IF m.ok THEN 1 ELSE 0) \in Nat
        BY <3>2
      <4> QED BY <3>2, <4>1, <4>2, <4>3
    <3>6. fail' \in [ToolNames -> Nat]
      <4>1. fail' = [fail EXCEPT ![m.tool] = @ + (IF m.ok THEN 0 ELSE 1)]
        BY <2>5, <3>3 DEF Aggregate
      <4>2. fail \in [ToolNames -> Nat]
        BY DEF TypeOK
      <4>3. (IF m.ok THEN 0 ELSE 1) \in Nat
        BY <3>2
      <4> QED BY <3>2, <4>1, <4>2, <4>3
    <3>7. latSum' \in [ToolNames -> Nat]
      <4>1. latSum' = [latSum EXCEPT ![m.tool] = @ + m.ms]
        BY <2>5, <3>3 DEF Aggregate
      <4>2. latSum \in [ToolNames -> Nat]
        BY DEF TypeOK
      <4>3. m.ms \in Nat
        BY <3>2
      <4> QED BY <3>2, <4>1, <4>2, <4>3
    <3> QED BY <2>5, <3>4, <3>5, <3>6, <3>7 DEF Aggregate, TypeOK, history
  <2>6. CASE Sink
    <3>1. PICK m \in CallMetric : hand = <<m>>
      BY <2>6 DEF Sink, TypeOK
    <3>2. delivered' \in Seq(CallMetric)
      BY <2>6, <3>1 DEF Sink, TypeOK
    <3> QED BY <2>6, <3>2 DEF Sink, TypeOK, aggregates
  <2>7. CASE Snapshot
    <3>1. ASSUME NEW t \in ToolNames PROVE SnapshotRow(t) \in Row
      <4>1. calls[t] \in Nat /\ success[t] \in Nat /\ fail[t] \in Nat /\ latSum[t] \in Nat
        BY DEF TypeOK
      <4>2. calls[t] > 0 => latSum[t] \div calls[t] \in Nat
        BY <4>1, QuotientNat
      <4> QED BY <4>1, <4>2 DEF SnapshotRow, Row
    <3> QED BY <2>7, <3>1 DEF Snapshot, TypeOK, worker, aggregates, history
  <2>8. CASE Close
    BY <2>8 DEF Close, TypeOK, worker, aggregates
  <2>9. CASE CloseReturn
    BY <2>9 DEF CloseReturn, TypeOK, worker, aggregates, history
  <2>10. CASE UNCHANGED vars
    BY <2>10 DEF vars, TypeOK, worker, aggregates, history
  <2> QED
    BY <2>1, <2>2, <2>3, <2>4, <2>5, <2>6, <2>7, <2>8, <2>9, <2>10 DEF Next, Drain
<1> QED BY <1>1, <1>2, PTL DEF Spec

-----------------------------------------------------------------------------
(* How the sequences of ExactlyOnceInOrder change.                         *)

\* Record: an event pushed on the channel ends up last.
LEMMA PushLast ==
    ASSUME NEW S, NEW s \in Seq(S), NEW c \in Seq(S), NEW m \in S
    PROVE  s \o Append(c, m) = Append(s \o c, m)
OBVIOUS

\* Receive: moving the head of the channel to the worker's hand.
LEMMA PopFirst ==
    ASSUME NEW S, NEW s \in Seq(S), NEW c \in Seq(S), c # <<>>
    PROVE  (s \o <<Head(c)>>) \o Tail(c) = s \o c
OBVIOUS

\* The worker's hand is a sequence of at most one metric.
LEMMA HandTyped ==
    ASSUME TypeOK
    PROVE  hand \in Seq(CallMetric)
<1>1. CASE hand = <<>>
  BY <1>1
<1>2. ASSUME NEW m \in CallMetric, hand = <<m>> PROVE hand \in Seq(CallMetric)
  BY <1>2
<1> QED BY <1>1, <1>2 DEF TypeOK

-----------------------------------------------------------------------------
\* The events the sink has received, the one the worker holds and those in the
\* buffer are the accepted ones, in order, after every step of every goroutine.
THEOREM RecorderExactlyOnce == Spec => []ExactlyOnceInOrder
<1>1. Init => ExactlyOnceInOrder
  BY DEF Init, ExactlyOnceInOrder
<1>2. TypeOK /\ ExactlyOnceInOrder /\ [Next]_vars => ExactlyOnceInOrder'
  <2> SUFFICES ASSUME TypeOK, ExactlyOnceInOrder, [Next]_vars
               PROVE  ExactlyOnceInOrder'
    OBVIOUS
  <2>h. /\ hand \in Seq(CallMetric) /\ ch \in Seq(CallMetric)
        /\ delivered \in Seq(CallMetric) /\ accepted = (delivered \o hand) \o ch
        /\ delivered \o hand \in Seq(CallMetric)
    BY HandTyped, ConcatProperties DEF TypeOK, ExactlyOnceInOrder
  <2>1. ASSUME NEW m \in CallMetric, Record(m) PROVE ExactlyOnceInOrder'
    <3>1. CASE Enqueue(m)
      <4>1. (delivered \o hand) \o Append(ch, m) = Append((delivered \o hand) \o ch, m)
        BY <2>h, PushLast
      <4> QED BY <2>1, <3>1, <4>1, <2>h DEF Record, Enqueue, ExactlyOnceInOrder, worker
    <3>2. CASE Drop
      BY <2>1, <3>2 DEF Record, Drop, ExactlyOnceInOrder, worker
    <3> QED BY <2>1, <3>1, <3>2 DEF Record
  <2>2. CASE Receive
    <3>1. hand = <<>>
      BY <2>2 DEF Receive, TypeOK
    <3>2. delivered \o hand = delivered
      BY <3>1, <2>h, ConcatEmptySeq
    <3>3. (delivered \o <<Head(ch)>>) \o Tail(ch) = delivered \o ch
      BY <2>2, <2>h, PopFirst DEF Receive
    <3> QED BY <2>2, <2>h, <3>2, <3>3 DEF Receive, ExactlyOnceInOrder, history
  <2>3. CASE Sink
    <3>1. (delivered \o hand) \o <<>> = delivered \o hand
      BY <2>h, ConcatEmptySeq
    <3> QED BY <2>3, <2>h, <3>1 DEF Sink, ExactlyOnceInOrder
  <2>4. CASE SeeClosed \/ FlushDone \/ Aggregate \/ Snapshot \/ Close \/ CloseReturn
    BY <2>4 DEF SeeClosed, FlushDone, Aggregate, Snapshot, Close, CloseReturn,
                ExactlyOnceInOrder, worker, history
  <2>5. CASE UNCHANGED vars
    BY <2>5 DEF vars, ExactlyOnceInOrder, worker, history
  <2> QED BY <2>1, <2>2, <2>3, <2>4, <2>5 DEF Next, Drain
<1> QED BY <1>1, <1>2, RecorderTyped, PTL DEF Spec

\* The hand-over between Close and the drain worker.
THEOREM RecorderDrainProtocol == Spec => []DrainProtocol
<1>1. Init => DrainProtocol
  BY DEF Init, DrainProtocol
<1>2. TypeOK /\ ExactlyOnceInOrder /\ DrainProtocol /\ [Next]_vars => DrainProtocol'
  <2> SUFFICES ASSUME TypeOK, ExactlyOnceInOrder, DrainProtocol, [Next]_vars
               PROVE  DrainProtocol'
    OBVIOUS
  <2>h. /\ Len(accepted) \in Nat /\ Len(delivered) \in Nat /\ mark \in Nat
        /\ pc \in {"receive", "aggregate", "sink", "exited"}
        /\ loop \in {"serve", "flush"}
        /\ closed \in BOOLEAN /\ closer \in {"idle", "waiting", "returned"}
    BY DEF TypeOK
  <2>1. ASSUME NEW m \in CallMetric, Record(m) PROVE DrainProtocol'
    <3>1. accepted' = accepted \/ accepted' = Append(accepted, m)
      BY <2>1 DEF Record, Enqueue, Drop
    <3>2. Len(accepted') \in Nat /\ Len(accepted') >= Len(accepted)
      BY <3>1, <2>h DEF TypeOK
    <3> QED BY <2>1, <2>h, <3>2 DEF Record, DrainProtocol, worker
  <2>2. CASE Receive
    BY <2>2, <2>h DEF Receive, DrainProtocol, history
  <2>3. CASE SeeClosed
    BY <2>3, <2>h DEF SeeClosed, DrainProtocol, history
  <2>4. CASE FlushDone
    <3>1. hand = <<>> /\ ch = <<>>
      BY <2>4 DEF FlushDone, TypeOK
    <3>2. accepted = delivered
      BY <3>1, ConcatEmptySeq DEF ExactlyOnceInOrder, TypeOK
    <3> QED BY <2>4, <2>h, <3>2 DEF FlushDone, DrainProtocol, history
  <2>5. CASE Aggregate
    BY <2>5, <2>h DEF Aggregate, DrainProtocol, history
  <2>6. CASE Sink
    BY <2>6, <2>h DEF Sink, DrainProtocol
  <2>7. CASE Snapshot
    BY <2>7, <2>h DEF Snapshot, DrainProtocol, worker, history
  <2>8. CASE Close
    BY <2>8, <2>h DEF Close, DrainProtocol, worker
  <2>9. CASE CloseReturn
    BY <2>9, <2>h DEF CloseReturn, DrainProtocol, worker, history
  <2>10. CASE UNCHANGED vars
    BY <2>10 DEF vars, DrainProtocol, worker, history
  <2> QED
    BY <2>1, <2>2, <2>3, <2>4, <2>5, <2>6, <2>7, <2>8, <2>9, <2>10 DEF Next, Drain
<1> QED BY <1>1, <1>2, RecorderTyped, RecorderExactlyOnce, PTL DEF Spec

\* Close returns only after every event accepted before it was called reached
\* the sink, whatever Record does meanwhile.
THEOREM RecorderCloseFlushes == Spec => []CloseFlushes
<1>1. DrainProtocol => CloseFlushes
  BY DEF DrainProtocol, CloseFlushes
<1> QED BY <1>1, RecorderDrainProtocol, PTL

\* After Close has returned nothing is aggregated or sunk any more.
THEOREM RecorderQuietAfterClose == Spec => QuietAfterClose
<1>1. TypeOK /\ DrainProtocol /\ [Next]_vars
        => [closer = "returned" => UNCHANGED <<delivered, aggregates, hand>>]_vars
  <2> SUFFICES ASSUME TypeOK, DrainProtocol, [Next]_vars, closer = "returned"
               PROVE  UNCHANGED <<delivered, aggregates, hand>>
    OBVIOUS
  <2>1. pc = "exited"
    BY DEF DrainProtocol
  <2> QED BY <2>1 DEF Next, Drain, Record, Receive, SeeClosed, FlushDone, Aggregate, Sink,
            Snapshot, Close, CloseReturn, vars, worker, aggregates, history
<1> QED BY <1>1, RecorderTyped, RecorderDrainProtocol, PTL DEF Spec, QuietAfterClose

-----------------------------------------------------------------------------
(* The aggregate counters.                                                 *)

\* One more index of a finite set of positions.
LEMMA CountOneMore ==
    ASSUME NEW n \in Nat, NEW A \in SUBSET (1..n), NEW B, NEW hit \in BOOLEAN,
           B = IF hit THEN A \cup {n + 1} ELSE A
    PROVE  /\ Cardinality(A) \in Nat
           /\ Cardinality(B) = Cardinality(A) + (IF hit THEN 1 ELSE 0)
<1>0. IsFiniteSet(1..n)
  BY FS_Interval
<1>1. IsFiniteSet(A)
  BY <1>0, FS_Subset
<1>2. Cardinality(A) \in Nat
  BY <1>1, FS_CardinalityType
<1>3. n + 1 \notin A
  OBVIOUS
<1>4. Cardinality(A \cup {n + 1}) = Cardinality(A) + 1
  BY <1>1, <1>3, FS_AddElement
<1> QED BY <1>2, <1>4

\* Appending an event adds one to the counts it belongs to, and to no other.
LEMMA CountsOfAppend ==
    ASSUME NEW s \in Seq(CallMetric), NEW m \in CallMetric, NEW t \in ToolNames
    PROVE  /\ CallsOf(Append(s, m), t)
                = CallsOf(s, t) + (IF m.tool = t THEN 1 ELSE 0)
           /\ SuccessesOf(Append(s, m), t)
                = SuccessesOf(s, t) + (IF m.tool = t /\ m.ok THEN 1 ELSE 0)
           /\ FailuresOf(Append(s, m), t)
                = FailuresOf(s, t) + (IF m.tool = t /\ ~m.ok THEN 1 ELSE 0)
<1> DEFINE n == Len(s)
           a == Append(s, m)
           mine == m.tool = t
           ok == m.tool = t /\ m.ok
           bad == m.tool = t /\ ~m.ok
           C(q) == {i \in DOMAIN q : q[i].tool = t}
           G(q) == {i \in DOMAIN q : q[i].tool = t /\ q[i].ok}
           F(q) == {i \in DOMAIN q : q[i].tool = t /\ ~q[i].ok}
<1>1. /\ n \in Nat /\ DOMAIN s = 1..n /\ DOMAIN a = 1..(n + 1)
      /\ a[n + 1] = m /\ \A i \in 1..n : a[i] = s[i]
  OBVIOUS
<1>2. DOMAIN a = DOMAIN s \cup {n + 1}
  BY <1>1
<1>3. C(a) = IF mine THEN C(s) \cup {n + 1} ELSE C(s)
  BY <1>1, <1>2
<1>4. G(a) = IF ok THEN G(s) \cup {n + 1} ELSE G(s)
  BY <1>1, <1>2
<1>5. F(a) = IF bad THEN F(s) \cup {n + 1} ELSE F(s)
  BY <1>1, <1>2
<1>6. C(s) \in SUBSET (1..n) /\ G(s) \in SUBSET (1..n) /\ F(s) \in SUBSET (1..n)
  BY <1>1
<1> HIDE DEF C, G, F, mine, ok, bad, a, n
<1>7. mine \in BOOLEAN /\ ok \in BOOLEAN /\ bad \in BOOLEAN
  BY DEF mine, ok, bad
<1>8. Cardinality(C(a)) = Cardinality(C(s)) + (IF mine THEN 1 ELSE 0)
  BY <1>1, <1>3, <1>6, <1>7, CountOneMore
<1>9. Cardinality(G(a)) = Cardinality(G(s)) + (IF ok THEN 1 ELSE 0)
  BY <1>1, <1>4, <1>6, <1>7, CountOneMore
<1>10. Cardinality(F(a)) = Cardinality(F(s)) + (IF bad THEN 1 ELSE 0)
  BY <1>1, <1>5, <1>6, <1>7, CountOneMore
<1> QED BY <1>8, <1>9, <1>10 DEF CallsOf, SuccessesOf, FailuresOf, C, G, F, mine, ok, bad, a

\* calls, success and fail count exactly the aggregated events, per tool and
\* outcome, whenever the worker is between two steps.
THEOREM RecorderCountsMatch == Spec => []CountsMatch
<1>1. Init => CountsMatch
  <2> SUFFICES ASSUME Init, NEW t \in ToolNames
               PROVE  calls[t] = CallsOf(Aggregated, t) /\ success[t] = SuccessesOf(Aggregated, t)
                      /\ fail[t] = FailuresOf(Aggregated, t)
    BY DEF CountsMatch
  <2>1. Aggregated = <<>>
    BY DEF Init, Aggregated
  <2>2. CallsOf(<<>>, t) = 0 /\ SuccessesOf(<<>>, t) = 0 /\ FailuresOf(<<>>, t) = 0
    <3>1. DOMAIN <<>> = {}
      OBVIOUS
    <3> QED BY <3>1, FS_EmptySet DEF CallsOf, SuccessesOf, FailuresOf
  <2> QED BY <2>1, <2>2 DEF Init, NoCalls
<1>2. TypeOK /\ CountsMatch /\ [Next]_vars => CountsMatch'
  <2> SUFFICES ASSUME TypeOK, CountsMatch, [Next]_vars PROVE CountsMatch'
    OBVIOUS
  <2>1. CASE Aggregate
    <3>1. PICK m \in CallMetric : hand = <<m>>
      BY <2>1 DEF Aggregate, TypeOK
    <3>2. hand[1] = m
      BY <3>1
    <3>3. Aggregated = delivered
      BY <2>1 DEF Aggregate, Aggregated
    <3>4. Aggregated' = Append(delivered, m)
      BY <2>1, <3>1 DEF Aggregate, Aggregated, history, TypeOK
    <3> SUFFICES ASSUME NEW t \in ToolNames
                 PROVE  /\ calls'[t] = CallsOf(Append(delivered, m), t)
                        /\ success'[t] = SuccessesOf(Append(delivered, m), t)
                        /\ fail'[t] = FailuresOf(Append(delivered, m), t)
      BY <3>4 DEF CountsMatch
    <3>5. /\ calls[t] = CallsOf(delivered, t) /\ calls[t] \in Nat
          /\ success[t] = SuccessesOf(delivered, t) /\ success[t] \in Nat
          /\ fail[t] = FailuresOf(delivered, t) /\ fail[t] \in Nat
      BY <3>3 DEF CountsMatch, TypeOK
    <3>6. calls'[t] = calls[t] + (IF m.tool = t THEN 1 ELSE 0)
      <4>1. calls' = [calls EXCEPT ![m.tool] = @ + 1]
        BY <2>1, <3>2 DEF Aggregate
      <4> QED BY <4>1, <3>5 DEF TypeOK
    <3>7. success'[t] = success[t] + (IF m.tool = t /\ m.ok THEN 1 ELSE 0)
      <4>1. success' = [success EXCEPT ![m.tool] = @ + (IF m.ok THEN 1 ELSE 0)]
        BY <2>1, <3>2 DEF Aggregate
      <4> QED BY <4>1, <3>5 DEF TypeOK
    <3>8. fail'[t] = fail[t] + (IF m.tool = t /\ ~m.ok THEN 1 ELSE 0)
      <4>1. fail' = [fail EXCEPT ![m.tool] = @ + (IF m.ok THEN 0 ELSE 1)]
        BY <2>1, <3>2 DEF Aggregate
      <4> QED BY <4>1, <3>5 DEF TypeOK
    <3>9. delivered \in Seq(CallMetric)
      BY DEF TypeOK
    <3> QED BY <3>5, <3>6, <3>7, <3>8, <3>9, CountsOfAppend
  <2>2. CASE Sink
    <3>1. Aggregated' = Aggregated
      BY <2>2 DEF Sink, Aggregated
    <3> QED BY <2>2, <3>1 DEF Sink, CountsMatch, aggregates
  <2>3. CASE (\E m \in CallMetric : Record(m)) \/ Receive \/ SeeClosed \/ FlushDone
                \/ Snapshot \/ Close \/ CloseReturn \/ UNCHANGED vars
    <3>1. Aggregated' = Aggregated
      BY <2>3 DEF Record, Receive, SeeClosed, FlushDone, Snapshot, Close, CloseReturn,
                  vars, worker, history, Aggregated
    <3>2. UNCHANGED aggregates
      BY <2>3 DEF Record, Receive, SeeClosed, FlushDone, Snapshot, Close, CloseReturn,
                  vars
    <3> QED BY <3>1, <3>2 DEF CountsMatch, aggregates
  <2> QED BY <2>1, <2>2, <2>3 DEF Next, Drain
<1> QED BY <1>1, <1>2, RecorderTyped, PTL DEF Spec

-----------------------------------------------------------------------------
(* The latency sums.                                                       *)

\* The loop behind LatencyOf, as a function of how many events are added up.
Latency(f, s, t) ==
    /\ f[0] = 0
    /\ \A n \in 1..Len(s) : f[n] = f[n - 1] + (IF s[n].tool = t THEN s[n].ms ELSE 0)

LEMMA LatencyIsLoop ==
    ASSUME NEW s \in Seq(CallMetric), NEW t
    PROVE  \E f \in Track(Len(s), Nat) : Latency(f, s, t) /\ LatencyOf(s, t) = f[Len(s)]
<1> DEFINE N == Len(s)
           w == [n \in 1..N |-> IF s[n].tool = t THEN s[n].ms ELSE 0]
           step == [n \in 1..N |-> [v \in Nat |-> v + w[n]]]
           Loop(f) == [n \in 0..N |->
                         IF n = 0 THEN 0 ELSE f[n - 1] + (IF s[n].tool = t THEN s[n].ms ELSE 0)]
<1>1. N \in Nat /\ \A n \in 1..N : /\ w[n] \in Nat
                                   /\ w[n] = IF s[n].tool = t THEN s[n].ms ELSE 0
  <2>1. \A n \in 1..N : s[n] \in CallMetric
    OBVIOUS
  <2>2. \A m \in CallMetric : m.ms \in Nat
    BY RecorderConstants DEF CallMetric
  <2> QED BY <2>1, <2>2
<1> HIDE DEF w
<1>2. step \in Steps(N, Nat)
  BY <1>1 DEF Steps
<1>3. PICK f \in Track(N, Nat) : Follows(f, N, 0, step)
  <2> HIDE DEF step, N
  <2> QED BY <1>1, <1>2, RecursionExists
<1>4. f \in [0..N -> Nat]
  BY DEF Track
<1>5. ASSUME NEW n \in 1..N PROVE f[n] = f[n - 1] + (IF s[n].tool = t THEN s[n].ms ELSE 0)
  <2>1. f[n - 1] \in Nat
    BY <1>1, <1>4
  <2>2. f[n] = step[n][f[n - 1]]
    BY <1>3 DEF Follows
  <2> QED BY <1>1, <2>1, <2>2
<1>6. f[0] = 0
  BY <1>3 DEF Follows
<1>7. f = Loop(f)
  <2>1. \A n \in 0..N : n = 0 \/ n \in 1..N
    BY <1>1
  <2>2. \A n \in 0..N : f[n] = Loop(f)[n]
    BY <1>5, <1>6, <2>1
  <2>3. f = [n \in 0..N |-> f[n]]
    BY <1>4
  <2> QED BY <2>2, <2>3
<1>8. \E g : g = Loop(g) /\ LatencyOf(s, t) = g[N]
  BY <1>7 DEF LatencyOf
<1>9. PICK g : g = Loop(g) /\ LatencyOf(s, t) = g[N]
  BY <1>8
<1> DEFINE T == {n \in 0..N : g[n] = f[n]}
<1>10. 0 \in T
  BY <1>1, <1>6, <1>9
<1>11. ASSUME NEW n \in 1..N, n - 1 \in T PROVE n \in T
  <2>1. n \in 0..N /\ n # 0 /\ g[n - 1] = f[n - 1]
    BY <1>1, <1>11
  <2>2. g[n] = Loop(g)[n]
    BY <1>9
  <2>3. g[n] = g[n - 1] + (IF s[n].tool = t THEN s[n].ms ELSE 0)
    BY <2>1, <2>2
  <2> QED BY <1>5, <2>1, <2>3
<1> HIDE DEF T
<1>12. N \in T
  <2>1. 0..N \subseteq T
    BY <1>1, <1>10, <1>11, InductionUpTo
  <2> QED BY <1>1, <2>1
<1>13. LatencyOf(s, t) = f[N]
  BY <1>9, <1>12 DEF T
<1>14. Latency(f, s, t)
  BY <1>5, <1>6 DEF Latency
<1> QED BY <1>13, <1>14

\* Appending an event adds its latency to its tool, and to no other.
LEMMA LatencyOfAppend ==
    ASSUME NEW s \in Seq(CallMetric), NEW m \in CallMetric, NEW t
    PROVE  /\ LatencyOf(s, t) \in Nat
           /\ LatencyOf(Append(s, m), t) = LatencyOf(s, t) + (IF m.tool = t THEN m.ms ELSE 0)
<1> DEFINE N == Len(s)
           a == Append(s, m)
<1>1. /\ a \in Seq(CallMetric) /\ N \in Nat /\ Len(a) = N + 1
      /\ a[N + 1] = m /\ \A n \in 1..N : a[n] = s[n]
  OBVIOUS
<1>2. PICK f \in Track(N, Nat) : Latency(f, s, t) /\ LatencyOf(s, t) = f[N]
  BY LatencyIsLoop
<1> HIDE DEF a
<1>3. PICK g \in Track(N + 1, Nat) : Latency(g, a, t) /\ LatencyOf(a, t) = g[N + 1]
  BY <1>1, LatencyIsLoop
<1> DEFINE T == {n \in 0..N : f[n] = g[n]}
<1>4. 0 \in T
  BY <1>1, <1>2, <1>3 DEF Latency
<1>5. ASSUME NEW n \in 1..N, n - 1 \in T PROVE n \in T
  <2>1. n \in 1..(N + 1) /\ n \in 0..N /\ a[n] = s[n]
    BY <1>1
  <2>2. f[n] = f[n - 1] + (IF s[n].tool = t THEN s[n].ms ELSE 0)
    BY <1>2 DEF Latency
  <2>3. g[n] = g[n - 1] + (IF a[n].tool = t THEN a[n].ms ELSE 0)
    BY <1>1, <1>3, <2>1 DEF Latency
  <2> QED BY <1>5, <2>1, <2>2, <2>3
<1> HIDE DEF T
<1>6. N \in T
  <2>1. 0..N \subseteq T
    BY <1>1, <1>4, <1>5, InductionUpTo
  <2> QED BY <1>1, <2>1
<1>7. g[N + 1] = g[N] + (IF m.tool = t THEN m.ms ELSE 0)
  <2>1. N + 1 \in 1..Len(a) /\ (N + 1) - 1 = N
    BY <1>1
  <2> QED BY <1>1, <1>3, <2>1 DEF Latency
<1>8. f[N] = g[N] /\ f[N] \in Nat
  BY <1>1, <1>6 DEF T, Track
<1> QED BY <1>2, <1>3, <1>7, <1>8 DEF a

\* latency_sum adds up the aggregated events.
LEMMA RecorderLatencyMatches == Spec => []LatencyMatches
<1>1. Init => LatencyMatches
  <2> SUFFICES ASSUME Init, NEW t \in ToolNames
               PROVE  latSum[t] = LatencyOf(Aggregated, t)
    BY DEF LatencyMatches
  <2>1. Aggregated = <<>> /\ Aggregated \in Seq(CallMetric) /\ Len(Aggregated) = 0
    BY DEF Init, Aggregated
  <2>2. LatencyOf(Aggregated, t) = 0
    <3> DEFINE a == Aggregated
    <3>1. PICK f \in Track(Len(a), Nat) : Latency(f, a, t) /\ LatencyOf(a, t) = f[Len(a)]
      <4> HIDE DEF a
      <4>1. a \in Seq(CallMetric)
        BY <2>1 DEF a
      <4> QED BY <4>1, LatencyIsLoop
    <3> QED BY <2>1, <3>1 DEF Latency
  <2> QED BY <2>2 DEF Init, NoCalls
<1>2. TypeOK /\ LatencyMatches /\ [Next]_vars => LatencyMatches'
  <2> SUFFICES ASSUME TypeOK, LatencyMatches, [Next]_vars PROVE LatencyMatches'
    OBVIOUS
  <2>1. CASE Aggregate
    <3>1. PICK m \in CallMetric : hand = <<m>>
      BY <2>1 DEF Aggregate, TypeOK
    <3>2. hand[1] = m
      BY <3>1
    <3>3. Aggregated = delivered /\ delivered \in Seq(CallMetric)
      BY <2>1 DEF Aggregate, Aggregated, TypeOK
    <3>4. Aggregated' = Append(delivered, m)
      BY <2>1, <3>1 DEF Aggregate, Aggregated, history, TypeOK
    <3> SUFFICES ASSUME NEW t \in ToolNames
                 PROVE  latSum'[t] = LatencyOf(Append(delivered, m), t)
      BY <3>4 DEF LatencyMatches
    <3>5. latSum[t] = LatencyOf(delivered, t) /\ latSum[t] \in Nat /\ m.ms \in Nat
      BY <3>3, RecorderConstants DEF LatencyMatches, TypeOK, CallMetric
    <3>6. latSum'[t] = latSum[t] + (IF m.tool = t THEN m.ms ELSE 0)
      <4>1. latSum' = [latSum EXCEPT ![m.tool] = @ + m.ms]
        BY <2>1, <3>2 DEF Aggregate
      <4> QED BY <4>1, <3>5 DEF TypeOK
    <3> QED BY <3>3, <3>5, <3>6, LatencyOfAppend
  <2>2. CASE Sink
    <3>1. Aggregated' = Aggregated
      BY <2>2 DEF Sink, Aggregated
    <3> QED BY <2>2, <3>1 DEF Sink, LatencyMatches, aggregates
  <2>3. CASE (\E m \in CallMetric : Record(m)) \/ Receive \/ SeeClosed \/ FlushDone
                \/ Snapshot \/ Close \/ CloseReturn \/ UNCHANGED vars
    <3>1. Aggregated' = Aggregated
      BY <2>3 DEF Record, Receive, SeeClosed, FlushDone, Snapshot, Close, CloseReturn,
                  vars, worker, history, Aggregated
    <3>2. UNCHANGED aggregates
      BY <2>3 DEF Record, Receive, SeeClosed, FlushDone, Snapshot, Close, CloseReturn,
                  vars
    <3> QED BY <3>1, <3>2 DEF LatencyMatches, aggregates
  <2> QED BY <2>1, <2>2, <2>3 DEF Next, Drain
<1> QED BY <1>1, <1>2, RecorderTyped, PTL DEF Spec

\* The four aggregate maps describe the events aggregated so far, each counted
\* once under its tool, whatever interleaves with the worker.
THEOREM RecorderAggregatesMatch == Spec => []AggregatesMatch
BY RecorderCountsMatch, RecorderLatencyMatches, PTL DEF AggregatesMatch

\* Whatever Snapshot returned last is the exact account of a prefix of the
\* accepted events, however long ago it was taken.
THEOREM RecorderSnapshotIsConsistentCut == Spec => []SnapshotIsConsistentCut
<1>1. Init => SnapshotIsConsistentCut
  <2> SUFFICES ASSUME Init PROVE snap = RowsOf(SubSeq(accepted, 1, 0)) /\ 0 \in 0..Len(accepted)
    BY DEF SnapshotIsConsistentCut
  <2>1. accepted = <<>> /\ SubSeq(accepted, 1, 0) = <<>> /\ 0 \in 0..Len(accepted)
    BY DEF Init
  <2>2. \A t \in ToolNames :
          CallsOf(<<>>, t) = 0 /\ SuccessesOf(<<>>, t) = 0 /\ FailuresOf(<<>>, t) = 0
    <3>1. DOMAIN <<>> = {}
      OBVIOUS
    <3> QED BY <3>1, FS_EmptySet DEF CallsOf, SuccessesOf, FailuresOf
  <2> QED BY <2>1, <2>2 DEF Init, NoRows, RowsOf
<1>2. /\ TypeOK /\ ExactlyOnceInOrder /\ AggregatesMatch /\ SnapshotIsConsistentCut
      /\ [Next]_vars
      => SnapshotIsConsistentCut'
  <2> SUFFICES ASSUME TypeOK, ExactlyOnceInOrder, AggregatesMatch, SnapshotIsConsistentCut,
                      [Next]_vars
               PROVE  SnapshotIsConsistentCut'
    OBVIOUS
  <2>h. /\ hand \in Seq(CallMetric) /\ ch \in Seq(CallMetric)
        /\ delivered \in Seq(CallMetric) /\ accepted \in Seq(CallMetric)
        /\ accepted = (delivered \o hand) \o ch
        /\ delivered \o hand \in Seq(CallMetric)
    BY HandTyped, ConcatProperties DEF TypeOK, ExactlyOnceInOrder
  <2>1. PICK k \in 0..Len(accepted) : snap = RowsOf(SubSeq(accepted, 1, k))
    BY DEF SnapshotIsConsistentCut
  <2>2. CASE Snapshot
    <3>1. \E n \in 0..Len(accepted) : Aggregated = SubSeq(accepted, 1, n)
      <4>1. CASE pc = "sink"
        <5>1. /\ Len(delivered \o hand) \in 0..Len(accepted)
              /\ SubSeq(accepted, 1, Len(delivered \o hand)) = delivered \o hand
          BY <2>h
        <5> QED BY <4>1, <5>1 DEF Aggregated
      <4>2. CASE pc # "sink"
        <5>1. /\ Len(delivered) \in 0..Len(accepted)
              /\ SubSeq(accepted, 1, Len(delivered)) = delivered
          BY <2>h
        <5> QED BY <4>2, <5>1 DEF Aggregated
      <4> QED BY <4>1, <4>2
    <3>2. snap' = RowsOf(Aggregated)
      <4>1. snap' = [t \in ToolNames |-> SnapshotRow(t)]
        BY <2>2 DEF Snapshot
      <4>2. ASSUME NEW t \in ToolNames PROVE SnapshotRow(t) = RowsOf(Aggregated)[t]
        <5>1. /\ calls[t] = CallsOf(Aggregated, t) /\ success[t] = SuccessesOf(Aggregated, t)
              /\ fail[t] = FailuresOf(Aggregated, t) /\ latSum[t] = LatencyOf(Aggregated, t)
              /\ calls[t] \in Nat
          BY DEF AggregatesMatch, CountsMatch, LatencyMatches, TypeOK
        <5>2. calls[t] > 0 <=> calls[t] # 0
          BY <5>1
        <5> QED BY <5>1, <5>2 DEF SnapshotRow, RowsOf
      <4> QED BY <4>1, <4>2 DEF RowsOf
    <3>3. accepted' = accepted
      BY <2>2 DEF Snapshot, history
    <3>4. PICK n \in 0..Len(accepted) : Aggregated = SubSeq(accepted, 1, n)
      BY <3>1
    <3>5. snap' = RowsOf(SubSeq(accepted, 1, n))
      BY <3>2, <3>4, Zenon
    <3> QED BY <3>3, <3>4, <3>5 DEF SnapshotIsConsistentCut
  <2>3. ASSUME NEW m \in CallMetric, Record(m) PROVE SnapshotIsConsistentCut'
    <3>1. CASE accepted' = Append(accepted, m)
      <4>1. k \in 0..Len(accepted') /\ SubSeq(accepted', 1, k) = SubSeq(accepted, 1, k)
        BY <2>h, <3>1
      <4> QED BY <2>1, <2>3, <4>1 DEF Record, SnapshotIsConsistentCut
    <3>2. CASE accepted' = accepted
      BY <2>1, <2>3, <3>2 DEF Record, SnapshotIsConsistentCut
    <3> QED BY <2>3, <3>1, <3>2 DEF Record, Enqueue, Drop
  <2>4. CASE Receive \/ SeeClosed \/ FlushDone \/ Aggregate \/ Sink \/ Close \/ CloseReturn
                \/ UNCHANGED vars
    <3>1. UNCHANGED <<accepted, snap>>
      BY <2>4 DEF Receive, SeeClosed, FlushDone, Aggregate, Sink, Close, CloseReturn,
                  vars, history
    <3> QED BY <2>1, <3>1 DEF SnapshotIsConsistentCut
  <2> QED BY <2>2, <2>3, <2>4 DEF Next, Drain
<1> QED BY <1>1, <1>2, RecorderTyped, RecorderExactlyOnce, RecorderAggregatesMatch, PTL DEF Spec

\* What Snapshot showed is never ahead of the counters.
ShownIsBehind ==
    \A t \in ToolNames : snap[t].calls <= calls[t] /\ snap[t].fail <= fail[t]

\* The counters /metrics exposes never go back between two snapshots.
THEOREM RecorderSnapshotMonotone == Spec => SnapshotMonotone
<1>1. Init => ShownIsBehind
  BY DEF Init, ShownIsBehind, NoRows, NoCalls
<1>2. ASSUME TypeOK, NEW t \in ToolNames
      PROVE  /\ calls[t] \in Nat /\ fail[t] \in Nat
             /\ snap[t].calls \in Nat /\ snap[t].fail \in Nat
  BY <1>2 DEF TypeOK, Row
<1>3. TypeOK /\ ShownIsBehind /\ [Next]_vars
        => /\ ShownIsBehind'
           /\ \A t \in ToolNames :
                snap[t].calls <= snap'[t].calls /\ snap[t].fail <= snap'[t].fail
  <2> SUFFICES ASSUME TypeOK, ShownIsBehind, [Next]_vars, NEW t \in ToolNames
               PROVE  /\ snap'[t].calls <= calls'[t] /\ snap'[t].fail <= fail'[t]
                      /\ snap[t].calls <= snap'[t].calls /\ snap[t].fail <= snap'[t].fail
    BY DEF ShownIsBehind
  <2>1. CASE Aggregate
    <3>1. PICK m \in CallMetric : hand = <<m>>
      BY <2>1 DEF Aggregate, TypeOK
    <3>2. /\ calls' = [calls EXCEPT ![m.tool] = @ + 1]
          /\ fail' = [fail EXCEPT ![m.tool] = @ + (IF m.ok THEN 0 ELSE 1)]
          /\ snap' = snap
      BY <2>1, <3>1 DEF Aggregate
    <3>3. calls[t] <= calls'[t] /\ fail[t] <= fail'[t] /\ calls'[t] \in Nat /\ fail'[t] \in Nat
      BY <1>2, <3>2 DEF TypeOK
    <3> QED BY <1>2, <3>2, <3>3 DEF ShownIsBehind
  <2>2. CASE Snapshot
    <3>1. snap'[t].calls = calls[t] /\ snap'[t].fail = fail[t] /\ UNCHANGED aggregates
      BY <2>2 DEF Snapshot, SnapshotRow
    <3> QED BY <1>2, <3>1 DEF ShownIsBehind, aggregates
  <2>3. CASE (\E m \in CallMetric : Record(m)) \/ Receive \/ SeeClosed \/ FlushDone
                \/ Sink \/ Close \/ CloseReturn \/ UNCHANGED vars
    <3>1. UNCHANGED <<aggregates, snap>>
      BY <2>3 DEF Record, Receive, SeeClosed, FlushDone, Sink, Close, CloseReturn, vars
    <3> QED BY <1>2, <3>1 DEF ShownIsBehind, aggregates
  <2> QED BY <2>1, <2>2, <2>3 DEF Next, Drain
<1>4. TypeOK /\ ShownIsBehind /\ [Next]_vars
        => [\A t \in ToolNames : /\ snap[t].calls <= snap'[t].calls
                                 /\ snap[t].fail <= snap'[t].fail]_vars
  BY <1>3
<1>5. TypeOK /\ ShownIsBehind /\ [Next]_vars => ShownIsBehind'
  BY <1>3
<1> QED BY <1>1, <1>4, <1>5, RecorderTyped, PTL DEF Spec, SnapshotMonotone
=============================================================================
