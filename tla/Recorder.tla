------------------------------ MODULE Recorder ------------------------------
(***************************************************************************)
(* The asynchronous metering recorder (application/metering/recorder.go):  *)
(* request goroutines Record call metrics on a buffered channel without    *)
(* blocking, one drain worker aggregates them and hands them to the sink,  *)
(* Snapshot reads the aggregates for /metrics and Close stops the worker.  *)
(*                                                                         *)
(* The channel operations, the critical sections of r.mu and the sink call *)
(* are the atomic steps; everything else interleaves.                      *)
(***************************************************************************)
EXTENDS Integers, Sequences, FiniteSets, SequencesExt

CONSTANTS
    TenantIDs,      \* values of CallMetric.TenantID
    ToolNames,      \* values of CallMetric.ToolName
    Latencies,      \* values of CallMetric.LatencyMs
    BufferArg,      \* the buffer argument of New
    MaxEvents       \* bound: how often Record is called

ASSUME RecorderConstants ==
    /\ Latencies \subseteq Nat
    /\ BufferArg \in Int
    /\ MaxEvents \in Nat

CallMetric == [tenant : TenantIDs, tool : ToolNames, ms : Latencies, ok : BOOLEAN]

\* New: a buffer that is not positive means 1024 entries.
Capacity == IF BufferArg <= 0 THEN 1024 ELSE BufferArg

VARIABLES
    ch,         \* r.ch, the buffered channel
    closed,     \* r.closed has been closed
    pc,         \* where the drain worker is
    loop,       \* which of drain's two loops the worker is in
    hand,       \* <<m>> while the worker holds m, <<>> otherwise
    calls, success, fail, latSum,  \* the aggregates; a missing map key is 0
    closer,     \* the goroutine that calls Close
    snap,       \* the rows the last Snapshot returned
    accepted,   \* history: the metrics Record put on the channel, in order
    dropped,    \* history: how many metrics Record dropped
    delivered,  \* history: the metrics the sink has been given, in order
    mark        \* history: how many metrics were accepted when Close was called

worker     == <<pc, loop, hand>>
aggregates == <<calls, success, fail, latSum>>
history    == <<accepted, dropped, delivered, mark>>
vars == <<ch, closed, worker, aggregates, closer, snap, history>>

Row == [calls : Nat, success : Nat, fail : Nat, avgMs : Nat]
NoCalls == [t \in ToolNames |-> 0]
NoRows  == [t \in ToolNames |-> [calls |-> 0, success |-> 0, fail |-> 0, avgMs |-> 0]]

Init ==
    /\ ch = <<>> /\ closed = FALSE
    /\ pc = "receive" /\ loop = "serve" /\ hand = <<>>
    /\ calls = NoCalls /\ success = NoCalls /\ fail = NoCalls /\ latSum = NoCalls
    /\ closer = "idle"
    /\ snap = NoRows
    /\ accepted = <<>> /\ dropped = 0 /\ delivered = <<>> /\ mark = 0

-----------------------------------------------------------------------------
(* Record, from any goroutine.                                             *)

Enqueue(m) ==
    /\ Len(ch) < Capacity
    /\ ch' = Append(ch, m)
    /\ accepted' = Append(accepted, m)
    /\ UNCHANGED dropped

\* The default branch of the select: a full buffer drops the event.
Drop ==
    /\ Len(ch) >= Capacity
    /\ dropped' = dropped + 1
    /\ UNCHANGED <<ch, accepted>>

\* Mutant: a full buffer makes room by discarding its oldest event.
RecordEvictingOldest(m) ==
    /\ ch' = Append(IF Len(ch) < Capacity THEN ch ELSE Tail(ch), m)
    /\ accepted' = Append(accepted, m)
    /\ UNCHANGED <<closed, worker, aggregates, closer, snap, dropped, delivered, mark>>

\* Mutant: the buffer is not bounded.
RecordUnbounded(m) ==
    /\ ch' = Append(ch, m)
    /\ accepted' = Append(accepted, m)
    /\ UNCHANGED <<closed, worker, aggregates, closer, snap, dropped, delivered, mark>>

Record(m) ==
    /\ Enqueue(m) \/ Drop
    /\ UNCHANGED <<closed, worker, aggregates, closer, snap, delivered, mark>>

-----------------------------------------------------------------------------
(* The drain worker.                                                       *)

\* Mutant: events are only taken off the channel once it is closed.
ReceiveWhenFlushing ==
    /\ pc = "receive" /\ ch # <<>> /\ loop = "flush"
    /\ hand' = <<Head(ch)>>
    /\ ch' = Tail(ch)
    /\ pc' = "aggregate"
    /\ UNCHANGED <<closed, loop, aggregates, closer, snap, history>>

\* Both selects take an event off the channel when there is one ...
Receive ==
    /\ pc = "receive" /\ ch # <<>>
    /\ hand' = <<Head(ch)>>
    /\ ch' = Tail(ch)
    /\ pc' = "aggregate"
    /\ UNCHANGED <<closed, loop, aggregates, closer, snap, history>>

\* ... but the outer one may take the closed branch instead: Go chooses at
\* random among the branches that are ready.
SeeClosed ==
    /\ pc = "receive" /\ loop = "serve" /\ closed
    /\ loop' = "flush"
    /\ UNCHANGED <<ch, closed, pc, hand, aggregates, closer, snap, history>>

\* Mutant: the worker returns as soon as it sees the closed channel.
FlushNothing ==
    /\ pc = "receive" /\ loop = "flush"
    /\ pc' = "exited"
    /\ UNCHANGED <<ch, closed, loop, hand, aggregates, closer, snap, history>>

\* The default branch of the inner select: the buffer is empty, return.
FlushDone ==
    /\ pc = "receive" /\ loop = "flush" /\ ch = <<>>
    /\ pc' = "exited"
    /\ UNCHANGED <<ch, closed, loop, hand, aggregates, closer, snap, history>>

\* Mutant: a failed call is counted as a call but not as a failure.
AggregateForgettingFailures ==
    /\ pc = "aggregate"
    /\ LET m == hand[1] IN
         /\ calls' = [calls EXCEPT ![m.tool] = @ + 1]
         /\ latSum' = [latSum EXCEPT ![m.tool] = @ + m.ms]
         /\ success' = [success EXCEPT ![m.tool] = @ + (IF m.ok THEN 1 ELSE 0)]
         /\ fail' = fail
    /\ pc' = "sink"
    /\ UNCHANGED <<ch, closed, loop, hand, closer, snap, history>>

\* aggregate, one critical section of r.mu.
Aggregate ==
    /\ pc = "aggregate"
    /\ LET m == hand[1] IN
         /\ calls' = [calls EXCEPT ![m.tool] = @ + 1]
         /\ latSum' = [latSum EXCEPT ![m.tool] = @ + m.ms]
         /\ success' = [success EXCEPT ![m.tool] = @ + (IF m.ok THEN 1 ELSE 0)]
         /\ fail' = [fail EXCEPT ![m.tool] = @ + (IF m.ok THEN 0 ELSE 1)]
    /\ pc' = "sink"
    /\ UNCHANGED <<ch, closed, loop, hand, closer, snap, history>>

\* The sink is given the event, outside the mutex.
Sink ==
    /\ pc = "sink"
    /\ delivered' = delivered \o hand
    /\ hand' = <<>>
    /\ pc' = "receive"
    /\ UNCHANGED <<ch, closed, loop, aggregates, closer, snap, accepted, dropped, mark>>

Drain == Receive \/ SeeClosed \/ FlushDone \/ Aggregate \/ Sink

-----------------------------------------------------------------------------
(* Snapshot and Close.                                                     *)

SnapshotRow(t) ==
    [calls |-> calls[t], success |-> success[t], fail |-> fail[t],
     avgMs |-> IF calls[t] > 0 THEN latSum[t] \div calls[t] ELSE 0]

\* Mutant: the average is taken over the successful calls.
SnapshotAveragingSuccesses ==
    /\ snap' = [t \in ToolNames |->
                  [SnapshotRow(t) EXCEPT !.avgMs =
                     IF success[t] > 0 THEN latSum[t] \div success[t] ELSE 0]]
    /\ UNCHANGED <<ch, closed, worker, aggregates, closer, history>>

\* Mutant: reading the counters resets them.
SnapshotAndReset ==
    /\ snap' = [t \in ToolNames |-> SnapshotRow(t)]
    /\ calls' = NoCalls /\ success' = NoCalls /\ fail' = NoCalls /\ latSum' = NoCalls
    /\ UNCHANGED <<ch, closed, worker, closer, history>>

\* Snapshot, one critical section of r.mu.
Snapshot ==
    /\ snap' = [t \in ToolNames |-> SnapshotRow(t)]
    /\ UNCHANGED <<ch, closed, worker, aggregates, closer, history>>

\* Mutant: waits for the worker without telling it to stop.
CloseWithoutSignal ==
    /\ closer = "idle"
    /\ closer' = "waiting"
    /\ mark' = Len(accepted)
    /\ UNCHANGED <<ch, closed, worker, aggregates, snap, accepted, dropped, delivered>>

\* Close: close(r.closed) ...
Close ==
    /\ closer = "idle"
    /\ closed' = TRUE
    /\ closer' = "waiting"
    /\ mark' = Len(accepted)
    /\ UNCHANGED <<ch, worker, aggregates, snap, accepted, dropped, delivered>>

\* Mutant: Close does not wait for the worker.
CloseReturnAtOnce ==
    /\ closer = "waiting"
    /\ closer' = "returned"
    /\ UNCHANGED <<ch, closed, worker, aggregates, snap, history>>

\* ... and then r.wg.Wait(): return once the worker is done.
CloseReturn ==
    /\ closer = "waiting" /\ pc = "exited"
    /\ closer' = "returned"
    /\ UNCHANGED <<ch, closed, worker, aggregates, snap, history>>

-----------------------------------------------------------------------------
Next ==
    \/ /\ Len(accepted) + dropped < MaxEvents
       /\ \E m \in CallMetric : Record(m)
    \/ Drain
    \/ Snapshot
    \/ Close
    \/ CloseReturn

Spec == Init /\ [][Next]_vars

\* The Go scheduler runs the drain worker and the goroutine inside Close; it
\* owes nothing to callers of Record, Snapshot or Close.
FairSpec == Spec /\ WF_vars(Drain) /\ WF_vars(CloseReturn)

-----------------------------------------------------------------------------
(* Properties.                                                             *)

\* Every variable keeps its type, and the channel never exceeds its capacity.
TypeOK ==
    /\ ch \in Seq(CallMetric) /\ Len(ch) <= Capacity
    /\ closed \in BOOLEAN
    /\ pc \in {"receive", "aggregate", "sink", "exited"}
    /\ loop \in {"serve", "flush"}
    /\ hand \in {<<>>} \cup {<<m>> : m \in CallMetric}
    /\ hand # <<>> <=> pc \in {"aggregate", "sink"}
    /\ calls \in [ToolNames -> Nat] /\ success \in [ToolNames -> Nat]
    /\ fail \in [ToolNames -> Nat] /\ latSum \in [ToolNames -> Nat]
    /\ closer \in {"idle", "waiting", "returned"}
    /\ snap \in [ToolNames -> Row]
    /\ accepted \in Seq(CallMetric) /\ delivered \in Seq(CallMetric)
    /\ dropped \in Nat /\ mark \in Nat

\* No event that Record accepted is lost, repeated or reordered on its way
\* through the channel and the two loops of drain: what the sink has received,
\* what the worker holds and what is buffered make up what was accepted.
ExactlyOnceInOrder == accepted = delivered \o hand \o ch

\* What the aggregates have been given: the delivered events and, between
\* aggregate and the sink call, the one in the worker's hand.
Aggregated == IF pc = "sink" THEN delivered \o hand ELSE delivered

CallsOf(s, t)     == Cardinality({i \in DOMAIN s : s[i].tool = t})
SuccessesOf(s, t) == Cardinality({i \in DOMAIN s : s[i].tool = t /\ s[i].ok})
FailuresOf(s, t)  == Cardinality({i \in DOMAIN s : s[i].tool = t /\ ~s[i].ok})
LatencyOf(s, t)   ==
    LET sum[n \in 0..Len(s)] ==
          IF n = 0 THEN 0 ELSE sum[n - 1] + (IF s[n].tool = t THEN s[n].ms ELSE 0)
    IN sum[Len(s)]

\* The four aggregate maps always describe the same events: those aggregated
\* so far, each counted once under its tool and split by its outcome.
CountsMatch ==
    \A t \in ToolNames :
        /\ calls[t] = CallsOf(Aggregated, t)
        /\ success[t] = SuccessesOf(Aggregated, t)
        /\ fail[t] = FailuresOf(Aggregated, t)

LatencyMatches == \A t \in ToolNames : latSum[t] = LatencyOf(Aggregated, t)

AggregatesMatch == CountsMatch /\ LatencyMatches

\* The rows a prefix of the accepted events would give.
RowsOf(s) ==
    [t \in ToolNames |->
       LET n == CallsOf(s, t) IN
       [calls |-> n, success |-> SuccessesOf(s, t), fail |-> FailuresOf(s, t),
        avgMs |-> IF n = 0 THEN 0 ELSE LatencyOf(s, t) \div n]]

\* Whatever /metrics last showed is a consistent cut: the exact totals and
\* averages of the first k accepted events for some k, never a mixture.
SnapshotIsConsistentCut ==
    \E k \in 0..Len(accepted) : snap = RowsOf(SubSeq(accepted, 1, k))

\* tool_calls_total and tool_call_failures_total are counters: a later
\* Snapshot never shows less than an earlier one.
SnapshotMonotone ==
    [][\A t \in ToolNames : /\ snap[t].calls <= snap'[t].calls
                            /\ snap[t].fail <= snap'[t].fail]_vars

\* "Close stops the worker after flushing buffered events": when Close has
\* returned, every event accepted before Close was called has reached the sink,
\* though Record may race with the whole of Close.
CloseFlushes == closer = "returned" => mark <= Len(delivered)

\* The hand-over between Close and the worker, the strengthening that makes
\* CloseFlushes inductive: the worker leaves only through the flush loop, the
\* flush loop is entered only after Close, and an exited worker has flushed
\* everything that was accepted before Close was called.
DrainProtocol ==
    /\ closed <=> closer # "idle"
    /\ loop = "flush" => closed
    /\ pc = "exited" => loop = "flush" /\ mark <= Len(delivered)
    /\ closer = "returned" => pc = "exited"
    /\ mark <= Len(accepted)

\* Once Close has returned the worker is gone: no event is aggregated or sunk.
QuietAfterClose ==
    [][closer = "returned" => UNCHANGED <<delivered, aggregates, hand>>]_vars

\* Close returns, provided Record is called only finitely often (MaxEvents):
\* the flush loop ends once callers stop refilling the buffer.
CloseReturns == closer = "waiting" ~> closer = "returned"

\* While the recorder is open the worker keeps up: every accepted event
\* eventually reaches the sink unless Close intervenes.
EventuallyDelivered ==
    \A n \in 1..MaxEvents : Len(accepted) >= n ~> Len(delivered) >= n \/ closed

=============================================================================
