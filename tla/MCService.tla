----------------------------- MODULE MCService ------------------------------
(* One tool in two versions, with discovery, for two concurrent requests.  *)
EXTENDS Service, TLC

P(n) == [num |-> n, rest |-> ""]
V(n) == <<P(1), P(n)>>
acme == <<"acme">>

\* sql 1.9 has an endpoint of its own and instances in discovery; its 1.10 is
\* restricted to agents and unknown to discovery.
Old == [tenant |-> acme, name |-> <<"sql">>, version |-> V(9), kind |-> "db",
        transport |-> "http", auth |-> "none", endpoint |-> "e1", rbac |-> {},
        tags |-> {}, accepts |-> {"query"}]
New == [Old EXCEPT !.version = V(10), !.endpoint = "e3", !.rbac = {Role("agent")},
                   !.accepts = {"query", "plan"}]
\* 1.9 registered again without an endpoint, for a transport that the registry
\* only delegates.
Local == [Old EXCEPT !.transport = "local", !.auth = "", !.endpoint = ""]
\* 1.9 registered again at the endpoint that discovery lists as well.
Listed == [Old EXCEPT !.endpoint = "e2"]
BadTransport == [Old EXCEPT !.transport = "grpc"]

MCToolDefs == {Defaulted(d) : d \in {Old, New, Local, Listed, BadTransport}}
OldID == {key(Old)}

Agent == [tenant |-> acme, role |-> Role("agent")]
Guest == [tenant |-> acme, role |-> Role("guest")]

R(m, p, b) == [method |-> m, path |-> p, header |-> None, bearer |-> b,
               body |-> None, input |-> None, query |-> None]
Reg(d)     == [R("POST", <<>>, Agent) EXCEPT !.body = d]
Inv(b, in) == [R("POST", <<"sql", "invoke">>, b) EXCEPT !.input = in]

FirstOne  == [kind |-> "db", tags |-> {}, limit |-> 1]
MCFilters == {FirstOne}
MCBefore(a, b) == FALSE     \* there is only one name

Changes   == {Reg(Old), Reg(New), R("DELETE", <<"sql">>, Agent)}
Refused   == {Reg(None), Reg(BadTransport), R("POST", <<"sql", "resolve">>, None),
              R("GET", <<"sql">>, Agent), R("POST", <<"">>, Agent), R("PUT", <<>>, Agent)}
Reads     == {R("POST", <<"sql", "resolve">>, Agent), Inv(Guest, "query"), Inv(Agent, "plan"),
              [R("GET", <<>>, Agent) EXCEPT !.query = [tenant |-> None, filter |-> FirstOne]],
              [R("GET", <<>>, Agent) EXCEPT !.query = [tenant |-> <<"beta">>, filter |-> FirstOne]],
              [R("Validate", <<"sql">>, Agent) EXCEPT !.input = "plan"],
              R("Validate", <<"sql">>, None)}

MCRequests   == Changes \cup {Reg(Local), Reg(Listed)} \cup Refused \cup Reads
LiveRequests == {Reg(Old), Reg(Local), R("DELETE", <<"sql">>, Agent), Inv(Agent, "query")}
HttpRequests == {Reg(Old), R("POST", <<"sql", "resolve">>, Agent), Inv(Agent, "query")}

Up(e)   == [endpoint |-> e, healthy |-> TRUE, weight |-> 1]
Down(e) == [Up(e) EXCEPT !.healthy = FALSE]
OneEndpoint == {Up("e2"), Down("e2")}

GoroutineSymmetry == Permutations(Goroutines)
=============================================================================
