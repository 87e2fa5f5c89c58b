------------------------------ MODULE MCParts -------------------------------
(* The sequential parts, each on its own: a behaviour exercises one of     *)
(* them, and the state of the others keeps its initial value.              *)
EXTENDS MCToolStore, LatestScan, Discovery, Balancer, Schema, RedisCache

CONSTANT Parts      \* the parts exercised

VARIABLE part       \* the one this behaviour exercises

partsVars == <<part, tools, vars, instances, balancerVars, schemaVars, cacheVars>>

-----------------------------------------------------------------------------
\* Versions that tell the cases of compareVersion apart: several digits,
\* different lengths, trailing zeros, suffixes and a wrapped number.
MCVersions == {
    <<P(1)>>,                               \* 1
    <<P(1), P(0)>>,                         \* 1.0
    <<P(1), [num |-> 0, rest |-> "-rc"]>>,  \* 1.0-rc
    <<P(1), P(9)>>,                         \* 1.9
    <<P(1), P(10)>>,                        \* 1.10
    <<P(1), P(9), P(1)>>,                   \* 1.9.1
    <<P(-3), P(4)>>,                        \* a first part that wrapped around
    <<[num |-> 0, rest |-> "beta"]>> }      \* beta

\* Two endpoints of two tools, one of which changes health and weight.
MCToolIDs == {<<"acme", "sql", 1>>, <<"acme", "web", 1>>}
Inst(e, w, h) == [endpoint |-> e, weight |-> w, healthy |-> h]
Reports == {Inst("e1", 1, TRUE), Inst("e1", 1, FALSE), Inst("e1", 2, TRUE), Inst("e2", 1, TRUE)}

\* Up to three instances: weights below 1, and in four bits sums that wrap to
\* a negative number (5 + 6), to nothing (7 + 7 + 2) and to 5 (7 + 7 + 7).
MCOffers == UNION {
    {[n \in 1..len |-> Inst(n, w[n], h[n])] :
        w \in [1..len -> {-1, 2, 5, 6, 7}], h \in [1..len -> BOOLEAN]} : len \in 0..3}

\* Leaf schemas and values, keywords as property names, a level of nesting.
Scalar(k, t) == [kind |-> k, text |-> t, parts |-> <<>>]
Str(t)       == Scalar("string", t)
Arr(items)   == [kind |-> "array", text |-> "", parts |-> items]
Obj(members) == [kind |-> "object", text |-> "", parts |-> members]

Typ(t)    == Obj("type" :> Str(t))
Enum(s)   == Obj("enum" :> Arr(s))
Num(t)    == Scalar("whole", t)
Leaf      == {Typ(t) : t \in {"string", "number", "integer", "boolean", "null", "date"}} \cup
             {Enum(<<Str("x"), Num("1")>>), Enum(<<Arr(<<>>), Obj(<<>>)>>), Scalar("bool", "true")}
Nested    == {Obj([type |-> Str("object"), properties |-> Obj(n :> Typ("string"))] @@ r) :
                n \in {"a", "required", "properties"},
                r \in {<<>>, "required" :> Arr(<<Str("a"), Str("")>>)}}
             \cup {Typ("object"), Typ("array"), Obj([type |-> Str("object"), properties |->
                     Obj("properties" :> Obj("a" :> Enum(<<Str("x"), Obj(<<>>)>>)))])}
Other     == {Typ("string"), Typ("integer"), Enum(<<Str("x"), Num("1")>>), Enum(<<Obj(<<>>)>>)}
Props(P1) == {Obj(("a" :> s) @@ t) : s \in P1, t \in {<<>>} \cup {"b" :> l : l \in Other}}
MCSchemas == {Obj(<<>>), Obj([type |-> Str("object"), enum |-> Arr(<<Str("x")>>)]),
              Obj("required" :> Arr(<<Str(""), Num("1")>>))}
             \cup {Obj(("properties" :> p) @@ r) : p \in Props(Leaf \cup Nested),
                        r \in {<<>>, "required" :> Arr(<<Str("a"), Str("b")>>)}}
\* An object whose member a is an object with a member a of a type or an enum.
NestedSchemas == {Obj("properties" :> Obj("a" :> Obj([type |-> Str("object"),
                    properties |-> Obj("a" :> p)]))) : p \in {Typ("string"), Enum(<<Str("x")>>)}}
Values    == {Str("x"), Str("y"), Num("1"), Scalar("frac", "1.5"), Scalar("huge", "1e300"),
              Scalar("bool", "true"), Scalar("null", ""), Arr(<<>>), Obj(<<>>)}
InA       == Values \cup {Obj(k :> v) : k \in {"a", "required", "properties"},
                                        v \in {Str("x"), Num("1"), Obj(<<>>)}}
InB       == {Str("x"), Num("1"), Scalar("frac", "1.5"), Obj(<<>>)}
MCInputs  == {Obj(m @@ n) : m \in {<<>>} \cup {"a" :> v : v \in InA},
                            n \in {<<>>} \cup {"b" :> v : v \in InB}}

\* The last three share the key acme:sql:x:1.
CD(t, n, v) == [tenant |-> t, name |-> n, version |-> v]
MCCacheDefs == {CD(acme, sql, <<"1">>), CD(beta, sql, <<"1">>), CD(acme, sql, <<"x", "1">>),
                CD(acme, <<"sql", "x">>, <<"1">>), CD(<<"acme", "sql">>, <<"x">>, <<"1">>)}

-----------------------------------------------------------------------------
\* The part starts in any of its initial states, the others in one.
PartsInit ==
    /\ part \in Parts
    /\ StoreInit /\ DiscoveryInit /\ CacheInit
    /\ IF part = "scan" THEN Init ELSE todo = {} /\ done = {} /\ bestV = NoVersion
    /\ IF part = "balancer" THEN BalancerInit
       ELSE offered = <<>> /\ dial = 0 /\ at = 0 /\ acc = 0 /\ picked = NoPick /\ returned = FALSE
    /\ IF part = "schema" THEN SchemaInit
       ELSE schema = Obj(<<>>) /\ input = Obj(<<>>) /\ stack = <<>> /\ verdict = "none"

PartsNext ==
    /\ UNCHANGED part
    /\ \/ /\ part = "store" /\ StoreNext
          /\ UNCHANGED <<vars, instances, balancerVars, schemaVars, cacheVars>>
       \/ /\ part = "scan" /\ Next
          /\ UNCHANGED <<tools, instances, balancerVars, schemaVars, cacheVars>>
       \/ /\ part = "discovery" /\ DiscoveryNext
          /\ UNCHANGED <<tools, vars, balancerVars, schemaVars, cacheVars>>
       \/ /\ part = "balancer" /\ BalancerNext
          /\ UNCHANGED <<tools, vars, instances, schemaVars, cacheVars>>
       \/ /\ part = "schema" /\ SchemaNext
          /\ UNCHANGED <<tools, vars, instances, balancerVars, cacheVars>>
       \/ /\ part = "cache" /\ CacheNext
          /\ UNCHANGED <<tools, vars, instances, balancerVars, schemaVars>>

PartsSpec == PartsInit /\ [][PartsNext]_partsVars
=============================================================================
