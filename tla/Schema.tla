------------------------------- MODULE Schema -------------------------------
(***************************************************************************)
(* The schema validator (application/schema/validator.go) on decoded JSON. *)
(*                                                                         *)
(* A value is [kind, text, parts]: text spells a scalar, parts holds the   *)
(* items of an array or the members of an object.  Numbers are of kind     *)
(* "whole", "frac" or, whole but outside int64, "huge".  A schema is a     *)
(* value of kind "object" like any other: Register does not look into it.  *)
(*                                                                         *)
(* validateNode and validateValue call each other.  A step is one call of  *)
(* validateValue or the end of one of validateNode; the stack holds, for   *)
(* each validateNode under way, the calls that its range over properties   *)
(* has yet to make, in the order of a Go map, which is any order.          *)
(***************************************************************************)
EXTENDS SequencesExt

CONSTANTS
    Schemas,    \* the input schemas a tool may be registered with
    Inputs,     \* the inputs of its calls
    MaxDepth    \* bound: how deep properties are nested in one another

VARIABLES
    schema, input,
    stack,      \* the innermost validateNode comes first
    verdict     \* "none" before Validate, "checking", or "ok", "invalid", "panic"

schemaVars == <<schema, input, stack, verdict>>

\* m[k].(T): the member k of the members m, if it is there and of kind T.
Has(m, k, T) == k \in DOMAIN m /\ m[k].kind = T

Empty == ""

TypeOf(m) == IF Has(m, "type", "string") THEN m["type"].text ELSE Empty

\* Mutant: an integer is not a number.
kindsOfNoWhole == [
    string |-> {"string"}, number |-> {"frac", "huge"}, integer |-> {"whole"},
    boolean |-> {"bool"}, array |-> {"array"}, object |-> {"object"}, null |-> {"null"}]

\* Mutant: the test for a fraction is missing.
kindsOfNoFraction == [
    string |-> {"string"}, number |-> {"whole", "frac", "huge"}, integer |-> {"whole", "frac"},
    boolean |-> {"bool"}, array |-> {"array"}, object |-> {"object"}, null |-> {"null"}]

\* What checkType accepts.  int64(v) of a huge v is not v.
kindsOf == [
    string |-> {"string"}, number |-> {"whole", "frac", "huge"}, integer |-> {"whole"},
    boolean |-> {"bool"}, array |-> {"array"}, object |-> {"object"}, null |-> {"null"}]

\* Any other type keyword is accepted.
checkType(typ, val) == typ \in DOMAIN kindsOf => val.kind \in kindsOf[typ]

\* The loop over enum: == on two slices or two maps panics.
inEnum(enum, val) ==
    IF val.kind \in {"array", "object"}
    THEN IF \E e \in ToSet(enum) : e.kind = val.kind THEN "panic" ELSE "invalid"
    ELSE IF val \in ToSet(enum) THEN "ok" ELSE "invalid"

\* Entries that are not strings, or empty, are passed over.
requiredMissing(s, data) ==
    /\ Has(s, "required", "array")
    /\ \E r \in ToSet(s["required"].parts) :
         r.kind = "string" /\ r.text # Empty /\ r.text \notin DOMAIN data

\* The calls of validateValue that validateNode makes for the members s and
\* data of two objects; properties without a schema or a value are passed over.
Calls(s, data) ==
    IF ~Has(s, "properties", "object") THEN {}
    ELSE LET props == s["properties"].parts IN
         {[pSchema |-> props[n], val |-> data[n]] :
             n \in {n \in DOMAIN props \cap DOMAIN data : props[n].kind = "object"}}

\* validateValue up to the nested properties.
checkValue(c) ==
    LET p == c.pSchema.parts IN
    IF ~checkType(TypeOf(p), c.val) THEN "invalid"
    ELSE IF Has(p, "enum", "array") THEN inEnum(p["enum"].parts, c.val)
    ELSE "ok"

\* Does validateValue go on to validateNode, and with which schema?  The nested
\* properties are themselves passed on as one.
HasSub(c) ==
    /\ TypeOf(c.pSchema.parts) = "object" /\ Has(c.pSchema.parts, "properties", "object")
    /\ c.val.kind = "object"
sub(c) == c.pSchema.parts["properties"].parts

validateNode(s, data, callers) ==
    IF requiredMissing(s, data) THEN verdict' = "invalid" /\ stack' = callers
    ELSE verdict' = "checking" /\ stack' = <<Calls(s, data)>> \o callers

SchemaInit == schema \in Schemas /\ input \in Inputs /\ stack = <<>> /\ verdict = "none"

Validate ==
    /\ verdict = "none"
    /\ IF DOMAIN schema.parts = {} THEN verdict' = "ok" /\ UNCHANGED stack
       ELSE validateNode(schema.parts, input.parts, <<>>)
    /\ UNCHANGED <<schema, input>>

\* Mutant: the range returns what its first call returns.
validateFirstValue(c) ==
    /\ verdict = "checking" /\ c \in Head(stack)
    /\ verdict' = checkValue(c)
    /\ UNCHANGED <<schema, input, stack>>

validateValue(c) ==
    /\ verdict = "checking" /\ c \in Head(stack)
    /\ LET callers == <<Head(stack) \ {c}>> \o Tail(stack) IN
       IF checkValue(c) # "ok" THEN verdict' = checkValue(c) /\ stack' = callers
       ELSE IF HasSub(c) THEN validateNode(sub(c), c.val.parts, callers)
       ELSE stack' = callers /\ UNCHANGED verdict
    /\ UNCHANGED <<schema, input>>

\* validateNode is at its end.
Return ==
    /\ verdict = "checking" /\ Head(stack) = {}
    /\ stack' = Tail(stack)
    /\ verdict' = IF Tail(stack) = <<>> THEN "ok" ELSE verdict
    /\ UNCHANGED <<schema, input>>

SchemaNext ==
    \/ Validate
    \/ verdict = "checking" /\ \E c \in Head(stack) : validateValue(c)
    \/ Return

SchemaSpec == SchemaInit /\ [][SchemaNext]_schemaVars

-----------------------------------------------------------------------------
(* What there is to check, and the order in which it is checked apart.     *)

Outcome(c) ==
    IF checkValue(c) = "ok" /\ HasSub(c) /\ requiredMissing(sub(c), c.val.parts) THEN "invalid"
    ELSE checkValue(c)

Below(c) == IF HasSub(c) THEN Calls(sub(c), c.val.parts) ELSE {}

\* The calls at each depth.
Levels(s, v) ==
    LET L[n \in 0..MaxDepth] ==
          IF n = 0 THEN Calls(s.parts, v.parts) ELSE UNION {Below(c) : c \in L[n - 1]}
    IN L

Outcomes ==
    {IF requiredMissing(schema.parts, input.parts) THEN "invalid" ELSE "ok"}
    \cup {Outcome(c) : c \in UNION {Levels(schema, input)[n] : n \in 0..MaxDepth}}

\* The verdict does not depend on the order of the map: a call passes just when
\* all there is to check passes, and otherwise the verdict is that of a check
\* that fails, which only an enum of arrays or objects makes a panic.
VerdictDetermined ==
    verdict \in {"ok", "invalid", "panic"} =>
        verdict \in Outcomes /\ (verdict = "ok" <=> Outcomes = {"ok"})

-----------------------------------------------------------------------------
(* The reference: what the four keywords mean in JSON Schema.              *)

\* An integer is a number without a fraction, of whatever size.
kindsMeant == [
    null    |-> {"null"},
    boolean |-> {"bool"},
    integer |-> {"whole", "huge"},
    number  |-> {"whole", "huge", "frac"},
    string  |-> {"string"},
    array   |-> {"array"},
    object  |-> {"object"}]

\* The names that the keyword required lists, the empty one included.
RequiredNames(m) ==
    IF Has(m, "required", "array")
    THEN {r.text : r \in {r \in ToSet(m["required"].parts) : r.kind = "string"}}
    ELSE {}

\* Does the value x.val meet the keywords of x.pSchema, its members apart?
Meets(x) ==
    LET m == x.pSchema.parts IN
    x.pSchema.kind = "object" =>
        /\ TypeOf(m) \in DOMAIN kindsMeant => x.val.kind \in kindsMeant[TypeOf(m)]
        /\ Has(m, "enum", "array") => x.val \in ToSet(m["enum"].parts)
        /\ x.val.kind = "object" => RequiredNames(m) \subseteq DOMAIN x.val.parts

\* The members, each with the schema of its property.
Members(x) ==
    LET m == x.pSchema.parts IN
    IF x.pSchema.kind = "object" /\ x.val.kind = "object" /\ Has(m, "properties", "object")
    THEN {[pSchema |-> m["properties"].parts[n], val |-> x.val.parts[n]] :
            n \in DOMAIN m["properties"].parts \cap DOMAIN x.val.parts}
    ELSE {}

\* The values at each depth with the schemas they are meant to meet.
Meant(s, v) ==
    LET M[n \in 0..(MaxDepth + 1)] ==
          IF n = 0 THEN {[pSchema |-> s, val |-> v]} ELSE UNION {Members(x) : x \in M[n - 1]}
    IN M

Conforms == \A n \in 0..(MaxDepth + 1) : \A x \in Meant(schema, input)[n] : Meets(x)

\* Schemas and inputs are objects, and MaxDepth is deep enough.
ASSUME SchemaConstants ==
    /\ MaxDepth \in Nat
    /\ \A s \in Schemas : s.kind = "object"
    /\ \A v \in Inputs : v.kind = "object"
    /\ \A s \in Schemas, v \in Inputs :
         /\ \A c \in Levels(s, v)[MaxDepth] : Below(c) = {}
         /\ \A x \in Meant(s, v)[MaxDepth + 1] : Members(x) = {}

\* The schemas of the properties at the top level.
PropertySchemas ==
    IF Has(schema.parts, "properties", "object") THEN Range(schema.parts["properties"].parts)
    ELSE {}

\* Do the nested properties of p, which validateValue passes on as a schema,
\* say something when read as one?  They have a property named properties whose
\* schema has objects in it, or one named required that is a list.
Misread(p) ==
    /\ p.kind = "object" /\ TypeOf(p.parts) = "object" /\ Has(p.parts, "properties", "object")
    /\ LET q == p.parts["properties"].parts IN
       \/ Has(q, "required", "array")
       \/ Has(q, "properties", "object") /\ \E x \in Range(q["properties"].parts) : x.kind = "object"

\* Is an array or an object to be looked up in an enum, where == may panic?
Uncomparable(x) ==
    /\ x.pSchema.kind = "object" /\ Has(x.pSchema.parts, "enum", "array")
    /\ x.val.kind \in {"array", "object"}

\* The validator lets every call pass whose input conforms to the schema, as
\* long as its numbers fit into int64, no nested properties are misread and no
\* array or object is to be looked up in the enum of a property (the request is
\* then dropped by a panic): other names that look like keywords, absent
\* properties and unknown types included.
ConformingNeverRefused ==
    /\ \A n \in 0..(MaxDepth + 1) : \A x \in Meant(schema, input)[n] : x.val.kind # "huge"
    /\ \A n \in 1..(MaxDepth + 1) : \A x \in Meant(schema, input)[n] : ~Uncomparable(x)
    /\ \A p \in PropertySchemas : ~Misread(p)
    /\ Conforms
    => verdict \notin {"invalid", "panic"}

\* For schemas of one level, whose top level has no enum, describes an object
\* and requires no property with an empty name, a call that gets past the
\* validator conforms.
FlatAcceptedConforms ==
    /\ verdict = "ok"
    /\ TypeOf(schema.parts) \in {Empty, "object"} /\ "enum" \notin DOMAIN schema.parts
    /\ Empty \notin RequiredNames(schema.parts)
    /\ \A p \in PropertySchemas : DOMAIN p.parts \cap {"properties", "required"} = {}
    => Conforms

\* "Supported keywords: type, required (object properties), properties
\* (recursive object type + enum)": whatever is accepted conforms, the members
\* of nested objects included.
AcceptedConforms == verdict = "ok" => Conforms
=============================================================================
