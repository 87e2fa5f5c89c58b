----------------------------- MODULE MCPackages -----------------------------
(* A skill in two versions, rules and a spec, from two tenants.            *)
EXTENDS Packages

acme == <<"acme">>
beta == <<"beta">>
Pkg(k, id, t, n, v) == {[kind |-> k, id |-> <<id>>, tenant |-> t, name |-> <<n>>,
                         version |-> v, content |-> c] : c \in {"old", "new"}}

\* Packages whose id is left to the registry ...
Unnamed ==
    Pkg("skill", "", Missing, "s", "1") \cup Pkg("skill", "", acme, "s", "2")
    \cup Pkg("rule", "", Missing, "s", "") \cup Pkg("rule", "", beta, "t", "")
    \cup Pkg("spec", "", acme, "s", "")
\* ... and one whose client chose it.
Named == Pkg("skill", "x", Missing, "s", "1")
Invalid == Pkg("skill", "", acme, "s", "") \cup Pkg("rule", "", acme, "", "")

Callers == {acme, beta, None}
R(k, m, c, b, v) == [kind |-> k, method |-> m, caller |-> c, body |-> b, version |-> v]
Posts(bodies) == {R(b.kind, "POST", c, b, "") : b \in bodies, c \in Callers}
Others == {R(k, m, c, None, v) : k \in {"skill", "rule", "spec"}, m \in {"GET", "POST", "PUT"},
                                 c \in Callers, v \in {"", "1"}}

UnnamedRequests == Posts(Unnamed \cup Invalid) \cup Others
AllRequests     == Posts(Unnamed \cup Named \cup Invalid) \cup Others
=============================================================================
