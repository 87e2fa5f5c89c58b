------------------------------ MODULE MCSystem ------------------------------
(* Two concurrent invocations, a one-slot metering buffer, one instance.   *)
EXTENDS System

P(n) == [num |-> n, rest |-> ""]
acme == <<"acme">>
Old == [tenant |-> acme, name |-> <<"sql">>, version |-> <<P(1)>>, kind |-> "db",
        transport |-> "http", auth |-> "none", endpoint |-> "e1", rbac |-> {},
        tags |-> {}, accepts |-> {"query"}]
MCToolDefs  == {Old}
MCIDs       == {key(Old)}
MCOffers    == {[endpoint |-> "e2", healthy |-> TRUE, weight |-> 1]}
MCNames     == {Old.name}
MCTenants   == {acme}

Agent == [tenant |-> acme, role |-> Role("agent")]
Reg   == [method |-> "POST", path |-> <<>>, header |-> None, bearer |-> Agent,
          body |-> Old, input |-> None, query |-> None]
MCBefore(a, b) == FALSE     \* there is only one name
Inv(in) == [Reg EXCEPT !.path = <<"sql", "invoke">>, !.body = None, !.input = in]
MCRequests  == {Reg, Inv("query"), Inv("junk")}
=============================================================================
