------------------------------ MODULE Service -------------------------------
(***************************************************************************)
(* The request path: the HTTP handlers of the tool endpoints               *)
(* (interfaces/http/handler.go) and the use cases behind them              *)
(* (application/registry/service.go), one goroutine per request, over the  *)
(* in-memory tool store and service discovery.                             *)
(*                                                                         *)
(* A goroutine's atomic steps are its critical sections of the shared      *)
(* state: Arrive does what precedes the first one (routing, auth, decoding *)
(* and checking the body), then one store access, for resolve and invoke   *)
(* one discovery access, for invoke the call of the tool, and Reply.       *)
(***************************************************************************)
EXTENDS Listing, Access, Discovery

CONSTANTS
    Goroutines,         \* request goroutines that may be busy at once
    Requests,           \* the requests clients may send
    SchemaValidation,   \* Config.SchemaValidation
    DiscoveryEnabled    \* Config.DiscoveryEnabled

VARIABLES
    pc,         \* where each goroutine is
    req,        \* its request: [method, path, header, bearer, body, input, query]
    def,        \* the definition GetLatestTool gave it, or None
    insts,      \* the instances it resolved; the picked one while calling
    listed,     \* the definitions ListTools gave it
    answer,     \* what it answers, or None
    seen,       \* history: the answers GetLatestTool could have given since
                \* the request arrived (None for not found)
    heard       \* history: the instances listed since it got its definition,
                \* None for the ids that had no healthy one

proc == <<pc, req, def, insts, listed, answer>>
vars == <<tools, instances, proc, seen, heard>>

allowedKinds      == {"db", "api", "file", "code", "search", "business"}
allowedTransports == {"stdio", "sse", "http", "local"}
allowedAuthTypes  == {"none", "apikey", "oauth2"}

-----------------------------------------------------------------------------
(* Routing, auth and body checks.  A path is the sequence of segments that *)
(* follows /v1/tools; Validate has no route and is called through the SPI. *)

Route(r) ==
    LET sub == IF Len(r.path) > 1 THEN r.path[2] ELSE "" IN
    IF r.method = "Validate" THEN "validate"
    ELSE IF r.path = <<>> THEN
         CASE r.method = "POST" -> "register"
           [] r.method = "GET"  -> "list"
           [] OTHER             -> "method_not_allowed"
    ELSE IF r.path[1] = "" THEN "name_required"
    ELSE CASE r.method = "DELETE" /\ sub = ""      -> "deregister"
           [] r.method = "POST" /\ sub = "resolve" -> "resolve"
           [] r.method = "POST" /\ sub = "invoke"  -> "invoke"
           [] OTHER                                -> "method_not_allowed"

\* The tenant and role in the request's context.  Where the handlers refuse a
\* request that has none, Validate finds the empty tenant.
Who(r) ==
    LET w == authResolve(r.bearer, r.header) IN
    IF w = None /\ Route(r) = "validate" THEN [tenant |-> <<"">>, role |-> Role("")] ELSE w

Name(r) == <<r.path[1]>>

\* Register's default for auth.type, and its checks.
Defaulted(d) == IF d.auth = "" THEN [d EXCEPT !.auth = "none"] ELSE d

\* Mutant: the transport is not checked.
AcceptableAnyTransport(d) ==
    /\ d.name # <<"">> /\ d.version # <<>> /\ d.tenant # <<"">>
    /\ d.kind \in allowedKinds
    /\ d.auth \in allowedAuthTypes

Acceptable(d) ==
    /\ d.name # <<"">> /\ d.version # <<>> /\ d.tenant # <<"">>
    /\ d.kind \in allowedKinds
    /\ d.transport \in allowedTransports
    /\ d.auth \in allowedAuthTypes

\* Why a request is refused before it touches shared state, or None.
Refusal(r) ==
    IF Route(r) \in {"method_not_allowed", "name_required"} THEN Route(r)
    ELSE IF Who(r) = None THEN "unauthorized"
    ELSE IF Route(r) = "register" /\ (r.body = None \/ ~Acceptable(Defaulted(r.body)))
    THEN "invalid_request"
    ELSE None

FirstStep == [register |-> "save", list |-> "list", deregister |-> "delete",
              resolve |-> "lookup", invoke |-> "lookup", validate |-> "validate"]

\* The response codes.
Answers ==
    {"method_not_allowed", "name_required", "unauthorized", "invalid_request",
     "created", "deregistered", "listed", "resolved", "not_found", "forbidden",
     "schema_invalid", "no_instance", "no_transport", "result", "upstream_error", "valid"}

-----------------------------------------------------------------------------
Idle == [method |-> "", path |-> <<>>, header |-> None, bearer |-> None,
         body |-> None, input |-> None, query |-> None]

\* None stands for nothing else, ToolDefs holds every definition that is sent,
\* acceptable or not, Filters every filter, and a request has a method.
ASSUME ServiceConstants ==
    /\ None \notin ToolDefs /\ None \notin Answers
    /\ Idle \notin Requests
    /\ \A r \in Requests :
         /\ Route(r) = "register" /\ r.body # None => Defaulted(r.body) \in ToolDefs
         /\ Route(r) = "list" => r.query.filter \in Filters

Init ==
    /\ StoreInit /\ DiscoveryInit
    /\ pc = [g \in Goroutines |-> "idle"]
    /\ req = [g \in Goroutines |-> Idle]
    /\ def = [g \in Goroutines |-> None]
    /\ insts = [g \in Goroutines |-> <<>>]
    /\ listed = [g \in Goroutines |-> <<>>]
    /\ answer = [g \in Goroutines |-> None]
    /\ seen = [g \in Goroutines |-> {}]
    /\ heard = [g \in Goroutines |-> {}]

Finish(g, a) ==
    /\ pc' = [pc EXCEPT ![g] = "reply"]
    /\ answer' = [answer EXCEPT ![g] = a]

Goto(g, l) == pc' = [pc EXCEPT ![g] = l] /\ UNCHANGED answer

Arrive(g, r) ==
    /\ pc[g] = "idle"
    /\ req' = [req EXCEPT ![g] = r]
    /\ IF Refusal(r) # None THEN Finish(g, Refusal(r)) ELSE Goto(g, FirstStep[Route(r)])
    /\ UNCHANGED <<tools, instances, def, insts, listed>>

\* registerTool / Register: the tenant is the definition's own.
Save(g) ==
    /\ pc[g] = "save"
    /\ SaveTool(Defaulted(req[g].body))
    /\ Finish(g, "created")
    /\ UNCHANGED <<instances, req, def, insts, listed>>

\* Mutant: only the latest version is deleted.
DeleteLatest(g) ==
    /\ pc[g] = "delete"
    /\ tools' = Restrict(tools, {k \in DOMAIN tools :
                    tools[k] \notin GetLatestTool(Who(req[g]).tenant, Name(req[g]))})
    /\ Finish(g, "deregistered")
    /\ UNCHANGED <<instances, req, def, insts, listed>>

\* deregisterTool / Deregister, by way of the id tenant/name/*.
Delete(g) ==
    /\ pc[g] = "delete"
    /\ Deregister(ToolKey(Who(req[g]).tenant, Name(req[g]), "*"))
    /\ Finish(g, "deregistered")
    /\ UNCHANGED <<instances, req, def, insts, listed>>

\* listTools / List: r.query is [tenant, filter], a tenant other than None
\* taking the place of the caller's own.
List(g) ==
    /\ pc[g] = "list"
    /\ LET q == req[g].query
           tenant == IF q.tenant # None THEN q.tenant ELSE Who(req[g]).tenant IN
       \E s \in ListTools(tenant, q.filter) : listed' = [listed EXCEPT ![g] = s]
    /\ Finish(g, "listed")
    /\ UNCHANGED <<tools, instances, req, def, insts>>

\* Mutant: some registered version is taken, not the latest.
LookupAnyVersion(g) ==
    /\ pc[g] = "lookup"
    /\ LET r == req[g]
           found == {tools[k] : k \in Entries(Who(r).tenant, Name(r))} IN
         \/ found = {} /\ Finish(g, "not_found") /\ UNCHANGED def
         \/ \E d \in found :
              /\ def' = [def EXCEPT ![g] = d]
              /\ IF Allow(d, Who(r).role) THEN Goto(g, "discover") ELSE Finish(g, "forbidden")
    /\ UNCHANGED <<tools, instances, req, insts, listed>>

\* Mutant: waits for the tool to be registered.
LookupBlocking(g) ==
    /\ pc[g] = "lookup"
    /\ \E d \in GetLatestTool(Who(req[g]).tenant, Name(req[g])) :
         /\ def' = [def EXCEPT ![g] = d]
         /\ IF Allow(d, Who(req[g]).role) THEN Goto(g, "discover") ELSE Finish(g, "forbidden")
    /\ UNCHANGED <<tools, instances, req, insts, listed>>

\* Resolve: the latest version, and whether the caller may use it.
Lookup(g) ==
    /\ pc[g] = "lookup"
    /\ LET r == req[g]
           found == GetLatestTool(Who(r).tenant, Name(r)) IN
         \/ found = {} /\ Finish(g, "not_found") /\ UNCHANGED def
         \/ \E d \in found :
              /\ def' = [def EXCEPT ![g] = d]
              /\ IF Allow(d, Who(r).role) THEN Goto(g, "discover") ELSE Finish(g, "forbidden")
    /\ UNCHANGED <<tools, instances, req, insts, listed>>

Fallback(d) == [endpoint |-> d.endpoint, healthy |-> TRUE, weight |-> 1]

\* Mutant: unhealthy instances are not filtered out.
resolveInstancesUnfiltered(d) ==
    IF DiscoveryEnabled /\ Instances(key(d)) # <<>> THEN Instances(key(d))
    ELSE IF d.endpoint # "" THEN <<Fallback(d)>>
    ELSE <<>>

resolveInstances(d) ==
    LET healthy == Healthy(Instances(key(d))) IN
    IF DiscoveryEnabled /\ healthy # <<>> THEN healthy
    ELSE IF d.endpoint # "" THEN <<Fallback(d)>>
    ELSE <<>>

\* d.accepts is the set of inputs the schema validator passes for d.
SchemaOK(d, input) == ~SchemaValidation \/ input \in d.accepts

\* Mutant: the schema is not consulted.
InvokeOutcomeUnvalidated(d, input, found) ==
    IF Pick(found) = {} THEN "no_instance"
    ELSE IF d.transport \notin allowedTransports THEN "no_transport"
    ELSE "call"

\* How Invoke goes on once it has resolved d with the instances found.
InvokeOutcome(d, input, found) ==
    IF ~SchemaOK(d, input) THEN "schema_invalid"
    ELSE IF Pick(found) = {} THEN "no_instance"
    ELSE IF d.transport \notin allowedTransports THEN "no_transport"
    ELSE "call"

\* The rest of Resolve, and of Invoke up to the transport call.
Discover(g) ==
    /\ pc[g] = "discover"
    /\ LET found   == resolveInstances(def[g])
           outcome == InvokeOutcome(def[g], req[g].input, found) IN
         \/ /\ Route(req[g]) = "resolve"
            /\ insts' = [insts EXCEPT ![g] = found]
            /\ Finish(g, "resolved")
         \/ /\ Route(req[g]) = "invoke" /\ outcome # "call"
            /\ Finish(g, outcome)
            /\ UNCHANGED insts
         \/ /\ Route(req[g]) = "invoke" /\ outcome = "call"
            /\ \E i \in Pick(found) : insts' = [insts EXCEPT ![g] = <<i>>]
            /\ Goto(g, "calling")
    /\ UNCHANGED <<tools, instances, req, def, listed>>

\* The transport call ends.  Only http reaches a tool; stdio, sse and local
\* answer with an error.  An http call ends when the tool answers, the
\* connection fails or the client gives up (the request context).
Return(g, ok) ==
    /\ pc[g] = "calling"
    /\ ok => def[g].transport = "http"
    /\ Finish(g, IF ok THEN "result" ELSE "upstream_error")
    /\ UNCHANGED <<tools, instances, req, def, insts, listed>>

\* Service.Validate: no role is checked.
Validate(g) ==
    /\ pc[g] = "validate"
    /\ LET found == GetLatestTool(Who(req[g]).tenant, Name(req[g])) IN
         \/ found = {} /\ Finish(g, "not_found") /\ UNCHANGED def
         \/ \E d \in found :
              /\ def' = [def EXCEPT ![g] = d]
              /\ Finish(g, IF SchemaOK(d, req[g].input) THEN "valid" ELSE "schema_invalid")
    /\ UNCHANGED <<tools, instances, req, insts, listed>>

\* Mutant: the next request of the connection finds the old answer.
ReplyKeepingAnswer(g) ==
    /\ pc[g] = "reply"
    /\ pc' = [pc EXCEPT ![g] = "idle"]
    /\ req' = [req EXCEPT ![g] = Idle]
    /\ UNCHANGED <<tools, instances, def, insts, listed, answer>>

\* The response is written and the goroutine is done.
Reply(g) ==
    /\ pc[g] = "reply"
    /\ pc' = [pc EXCEPT ![g] = "idle"]
    /\ req' = [req EXCEPT ![g] = Idle]
    /\ def' = [def EXCEPT ![g] = None]
    /\ insts' = [insts EXCEPT ![g] = <<>>]
    /\ listed' = [listed EXCEPT ![g] = <<>>]
    /\ answer' = [answer EXCEPT ![g] = None]
    /\ UNCHANGED <<tools, instances>>

\* Instances come, go and change their health.
InstancesChange == DiscoveryNext /\ UNCHANGED <<tools, proc>>

-----------------------------------------------------------------------------
(* History: what was true at some instant since the request arrived, for   *)
(* instances since it got its definition, and before the goroutine read    *)
(* it.  What it did not read is forgotten then.                            *)

LatestOrNone(r) ==
    LET S == {d \in Range(tools) : d.tenant = Who(r).tenant /\ d.name = Name(r)}
        L == {d \in S : ~\E e \in S : compareVersion(e.version, d.version) = 1}
    IN IF L = {} THEN {None} ELSE L

ListedNow ==
    UNION {{<<id, i>> : i \in ToSet(instances[id])
                              \cup (IF Pick(instances[id]) = {} THEN {None} ELSE {})}
             : id \in ToolIDs}

Observe ==
    /\ seen' = [g \in Goroutines |->
         IF pc'[g] \in {"lookup", "validate"} THEN seen[g] \cup LatestOrNone(req[g])'
         ELSE IF pc'[g] = "idle" THEN {} ELSE seen[g] \cap {def'[g]}]
    /\ heard' = [g \in Goroutines |->
         IF pc'[g] = "discover" THEN heard[g] \cup ListedNow'
         ELSE IF insts'[g] = <<>> THEN {} ELSE heard[g]]

Step(g) ==
    \/ Save(g) \/ List(g) \/ Delete(g)
    \/ Lookup(g) \/ Discover(g) \/ Validate(g) \/ Reply(g)

Next ==
    /\ \/ \E g \in Goroutines, r \in Requests : Arrive(g, r)
       \/ \E g \in Goroutines : Step(g)
       \/ \E g \in Goroutines, ok \in BOOLEAN : Return(g, ok)
       \/ InstancesChange
    /\ Observe

Spec == Init /\ [][Next]_vars

\* The Go scheduler runs every goroutine that is not waiting for a tool.
ServerFairness ==
    \A g \in Goroutines :
        /\ WF_vars(Step(g) /\ Observe)
        /\ WF_vars(Return(g, FALSE) /\ def[g].transport # "http" /\ Observe)

\* Tools answer, connections fail or clients give up: every call ends.
CallsEnd == \A g \in Goroutines : WF_vars((\E ok \in BOOLEAN : Return(g, ok)) /\ Observe)

ServerSpec == Spec /\ ServerFairness
FairSpec   == Spec /\ ServerFairness /\ CallsEnd

-----------------------------------------------------------------------------
(* Properties.                                                             *)

\* Every variable keeps its type.
TypeOK ==
    /\ StoreTypeOK
    /\ DiscoveryTypeOK
    /\ pc \in [Goroutines -> {"idle", "save", "list", "delete", "lookup", "discover",
                              "validate", "calling", "reply"}]
    /\ req \in [Goroutines -> Requests \cup {Idle}]
    /\ def \in [Goroutines -> ToolDefs \cup {None}]
    /\ insts \in [Goroutines -> Seq(InstanceOffers \cup {Fallback(d) : d \in ToolDefs})]
    /\ listed \in [Goroutines -> Seq(ToolDefs)]
    /\ answer \in [Goroutines -> Answers \cup {None}]
    /\ \A g \in Goroutines :
         /\ pc[g] = "idle" <=> req[g] = Idle
         /\ pc[g] = "reply" <=> answer[g] # None
         /\ pc[g] \in {"discover", "calling"} => def[g] # None
         /\ pc[g] = "calling" => Len(insts[g]) = 1

\* A resolve, invoke or validate request is answered from the registry as it
\* was at one instant since the request arrived: the definition it uses was
\* then a latest version, and "not found" or "forbidden" was then the truth,
\* whatever registrations and deregistrations run beside it.
AnswerExplained ==
    \A g \in Goroutines :
        /\ answer[g] = "not_found" => def[g] = None /\ None \in seen[g]
        /\ def[g] # None => def[g] \in seen[g]
        /\ answer[g] = "forbidden" => def[g] # None /\ ~Allow(def[g], Who(req[g]).role)

\* Has discovery listed the endpoint that g falls back on as unhealthy?
FallsBackOnUnhealthy(g, i) ==
    /\ i = Fallback(def[g])
    /\ \E j \in InstanceOffers :
         <<key(def[g]), j>> \in heard[g] /\ j.endpoint = i.endpoint /\ ~j.healthy

\* No instance is made up: what resolve returns or invoke calls is an instance
\* listed healthy for this very version at some instant since the request read
\* the definition; or, if at some instant no instance was, the definition's
\* endpoint.
\* Nothing is said of an endpoint of the definition that discovery lists as
\* unhealthy: SKILLS.md wants unhealthy instances excluded from Resolve, and
\* resolveInstances, which does not look at the endpoint, returns it as healthy.
\* Instances left from an earlier registration of the version count as listed.
InstancesExplained ==
    \A g \in Goroutines : \A i \in ToSet(insts[g]) : FallsBackOnUnhealthy(g, i) \/
        \/ i.healthy /\ <<key(def[g]), i>> \in heard[g]
        \/ /\ i = Fallback(def[g]) /\ i.endpoint # ""
           /\ DiscoveryEnabled /\ key(def[g]) \in ToolIDs => <<key(def[g]), None>> \in heard[g]

\* A tool is only called for a role its definition permits and with input its
\* schema accepts ("Verification failures are not passed to tool
\* implementation"), although the registration may have changed meanwhile.
CallLegitimate ==
    \A g \in Goroutines : pc[g] = "calling" =>
        /\ Allow(def[g], Who(req[g]).role)
        /\ SchemaOK(def[g], req[g].input)

\* Register's check of the transport makes the "no transport" branch of Invoke
\* unreachable.
TransportAlwaysFound == \A g \in Goroutines : answer[g] # "no_transport"

\* Every request is answered, and its goroutine freed.
Answered == \A g \in Goroutines : pc[g] # "idle" ~> pc[g] = "idle"

\* "If the downstream tool responds slowly, it will time out and return": a
\* call ends even if the tool never answers and the client never gives up.
SlowToolTimesOut == \A g \in Goroutines : pc[g] = "calling" ~> pc[g] # "calling"
=============================================================================
