---------------------------- MODULE MCDeployment ----------------------------
(* Two tools in two versions each, one pair ordered alike as text and as   *)
(* versions and one not; lists of every form.                              *)
EXTENDS Deployment

P(n) == [num |-> n, rest |-> ""]
V(n) == <<P(1), P(n)>>      \* 1.n
El(b, f) == [base |-> b, form |-> f]
Tag(b) == El(b, "lower")
acme == <<"acme">>
beta == <<"beta">>
sql == <<"sql">>
web == <<"web">>

T(n, v, k, g, r) ==
    [tenant |-> acme, name |-> n, version |-> V(v), kind |-> k, tags |-> g, rbac |-> r]
MCToolDefs == {
    T(sql, 9, "db", {Tag("erp")}, {Role("agent")}),
    T(sql, 9, "api", {}, {El("data eng", "blank"), El("agent", "padded")}),
    T(sql, 9, "api", {}, {El("data eng", "quoted")}),
    T(sql, 10, "db", {El("erp", "mixed"), Tag("order")}, {El("data eng", "blank")}),
    T(web, 10, "db", {Tag("erp")}, {}),
    T(web, 10, "db", {Tag("erp"), El("", "empty")}, {}),
    [T(web, 10, "api", {El("erp,order", "joined")}, {El("", "empty")}) EXCEPT !.tenant = beta],
    T(web, 11, "api", {Tag("order")}, {El("agent", "mixed")}) }

MCLocalDefs == {d \in MCToolDefs : d.version = V(11)}

MCPieces(e) == {Tag("erp"), Tag("order")}
\* Among 1.9, 1.10 and 1.11 only 1.9 is out of its place as a text.
MCTextAfter(v, w) == v # w /\ (v = V(9) \/ (v = V(11) /\ w = V(10)))
MCBefore(a, b) == a = sql /\ b = web
MCFilters == [kind : {"", "db"}, tags : {{}, {Tag("erp")}, {Tag("erp"), Tag("order")}},
              limit : {0, 1}]
MCRoles   == {Role("admin"), El("agent", "mixed"), El("data eng", "blank"),
              El("data eng", "quoted"), Role("guest")}
=============================================================================
