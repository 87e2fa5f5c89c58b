---------------------------- MODULE MCToolStore -----------------------------
(* The tool store and its listings on small sets of tools.                 *)
EXTENDS Listing

P(n) == [num |-> n, rest |-> ""]
V(n) == <<P(1), P(n)>>      \* 1.9, 1.10: text order would take 1.9 for the later
Tag(b) == [base |-> b, form |-> "lower"]
TAG(b) == [base |-> b, form |-> "mixed"]

T(t, n, v, k, g) == [tenant |-> t, name |-> n, version |-> V(v), kind |-> k, tags |-> g]
acme == <<"acme">>
beta == <<"beta">>
search == <<"search">>
sql == <<"sql">>
web == <<"web">>

\* Some versions in two bodies: registering the second replaces the first.
PlainDefs == {
    T(acme, search, 9, "api", {Tag("erp")}), T(acme, search, 9, "db", {}),
    T(acme, search, 10, "api", {}),
    T(acme, sql, 9, "db", {TAG("erp"), Tag("order")}),
    T(acme, sql, 10, "db", {Tag("order")}), T(acme, sql, 10, "api", {Tag("erp")}),
    T(beta, sql, 9, "db", {Tag("erp")}), T(beta, sql, 10, "db", {TAG("order")}),
    T(beta, search, 9, "db", {}), T(beta, web, 9, "db", {}) }

\* acme with eu/sql and acme/eu with sql.
SlashedDefs == {T(t, n, v, "db", {}) : t \in {acme, <<"acme", "eu">>},
                                       n \in {sql, <<"eu", "sql">>}, v \in {9, 10}}

MCBefore(a, b) == <<a, b>> \in {<<search, sql>>, <<search, web>>, <<sql, web>>}
MCFilters == [kind : {"", "db"}, tags : {{}, {Tag("erp")}, {Tag("erp"), Tag("order")}},
              limit : {-1, 0, 1, 2}]
=============================================================================
