------------------------------- MODULE System -------------------------------
(***************************************************************************)
(* The registry process that Bootstrap wires (cmd/main.go): the request    *)
(* path of Service with the metering Recorder behind it.  The two meet in  *)
(* Service.record, which Invoke calls when a transport call has ended.     *)
(*                                                                         *)
(* main returns only through log.Fatalf, and no signal is handled: the     *)
(* process ends without running the deferred closeFn.                      *)
(***************************************************************************)
EXTENDS Service, Config

CONSTANTS
    TenantIDs, ToolNames, Latencies,    \* the fields of a CallMetric
    BufferArg,                          \* 1024 in Bootstrap
    MaxEvents                           \* bound: transport calls that end

\* main loads no file.
ASSUME ShippedConfig ==
    /\ SchemaValidation = Load(NoFile).config.schemaValidation
    /\ DiscoveryEnabled = Load(NoFile).config.discovery

\* CallMetric ranges over whatever can be asked for.
ASSUME MetricFields ==
    /\ Latencies \subseteq Nat /\ BufferArg \in Int /\ MaxEvents \in Nat
    /\ \A r \in Requests : Refusal(r) = None /\ Route(r) = "invoke" =>
         Who(r).tenant \in TenantIDs /\ Name(r) \in ToolNames

VARIABLES
    ch, closed, wpc, loop, hand,        \* the recorder; wpc is its worker's pc
    calls, success, fail, latSum, closer, snap,
    accepted, dropped, delivered, mark,
    running,    \* the process is up
    ended,      \* history: how often a call of each tool has ended
    lost        \* history: how many of these calls the recorder dropped

R == INSTANCE Recorder WITH pc <- wpc

recorder == <<ch, closed, wpc, loop, hand, calls, success, fail, latSum, closer, snap,
              accepted, dropped, delivered, mark>>
sysVars  == <<vars, recorder, running, ended, lost>>

SysInit ==
    /\ Init /\ R!Init
    /\ running = TRUE
    /\ ended = [n \in ToolNames |-> 0]
    /\ lost = [n \in ToolNames |-> 0]

\* Service.record: the metric carries the name and tenant that were asked for.
Metric(g, ms, ok) ==
    [tenant |-> Who(req[g]).tenant, tool |-> Name(req[g]), ms |-> ms, ok |-> ok]

\* History: a call of g's tool has ended.
Count(g) ==
    /\ ended' = [ended EXCEPT ![Name(req[g])] = @ + 1]
    /\ lost' = [lost EXCEPT ![Name(req[g])] = @ + (dropped' - dropped)]

\* Mutant: a failed call returns before it is recorded.
CallEndsUnrecorded(g, ms, ok) ==
    /\ Len(accepted) + dropped < MaxEvents
    /\ Return(g, ok)
    /\ IF ok THEN R!Record(Metric(g, ms, ok)) ELSE UNCHANGED recorder
    /\ Count(g)

\* Mutant: the request goroutine updates the aggregates itself.
CallEndsInline(g, ms, ok) ==
    /\ Len(accepted) + dropped < MaxEvents
    /\ Return(g, ok)
    /\ calls' = [calls EXCEPT ![Name(req[g])] = @ + 1]
    /\ accepted' = Append(accepted, Metric(g, ms, ok))
    /\ UNCHANGED <<ch, closed, wpc, loop, hand, success, fail, latSum, closer, snap,
                   dropped, delivered, mark>>
    /\ Count(g)

\* The end of Invoke: the call returns, the metric is recorded, in this order
\* and without blocking.
CallEnds(g, ms, ok) ==
    /\ Len(accepted) + dropped < MaxEvents
    /\ Return(g, ok)
    /\ R!Record(Metric(g, ms, ok))
    /\ Count(g)

\* Everything else of the request path leaves the recorder alone.
ServiceStep ==
    /\ \/ \E g \in Goroutines, r \in Requests : Arrive(g, r)
       \/ \E g \in Goroutines : Step(g)
       \/ InstancesChange
    /\ UNCHANGED <<recorder, ended, lost>>

\* The drain worker, and GET /metrics.
RecorderStep == (R!Drain \/ R!Snapshot) /\ UNCHANGED <<vars, ended, lost>>

\* ListenAndServe fails or a signal arrives: os.Exit, whatever is in flight.
Exit == running' = FALSE /\ UNCHANGED <<vars, recorder, ended, lost>>

SysNext ==
    /\ running
    /\ \/ /\ \/ /\ \/ ServiceStep
                   \/ \E g \in Goroutines, ms \in Latencies, ok \in BOOLEAN : CallEnds(g, ms, ok)
                /\ Observe
             \/ RecorderStep
          /\ UNCHANGED running
       \/ Exit

SysSpec == SysInit /\ [][SysNext]_sysVars

-----------------------------------------------------------------------------
\* Every transport call that has ended is accounted for exactly once under its
\* own tool: in the aggregates, in the worker's hand, in the buffer, or among
\* the events a full buffer dropped; requests that never reached a transport
\* leave no trace.
MeteringConserved ==
    LET waiting == (IF wpc = "aggregate" THEN hand ELSE <<>>) \o ch IN
    \A n \in ToolNames : ended[n] = calls[n] + R!CallsOf(waiting, n) + lost[n]

\* The recorder inside the process is the recorder of module Recorder that
\* nobody closes.
RecorderRefined == R!Spec

\* main's deferred Close never runs, so that the process may end with accepted
\* events undelivered: never more than the buffer holds and the worker has in
\* its hand.
LossBounded == ~running => Len(accepted) - Len(delivered) <= R!Capacity + 1
=============================================================================
