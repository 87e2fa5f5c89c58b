------------------------------- MODULE Access -------------------------------
(***************************************************************************)
(* Who calls and what it may use: infrastructure/auth/auth.go (the auth    *)
(* port the bootstrap wires) and application/rbac/checker.go with          *)
(* domain.RoleAllowed.                                                     *)
(*                                                                         *)
(* A role is [base, form], and so is an entry of an allow list: form       *)
(* "lower" is base in lower case, "mixed" base with a capital in it and    *)
(* "padded" base in lower case with blanks around it.  The forms that      *)
(* PgStore adds stand for trimmed texts in lower case.                     *)
(***************************************************************************)
CONSTANTS
    None,       \* an absent header, token, body, definition or answer
    DevTenant   \* Stub.DevTenant, None when empty

Role(b) == [base |-> b, form |-> "lower"]

\* parseDevBearer: a bearer is None or the pair "tenant:role" stands for.
roleFromBearer(bearer) == IF bearer = None THEN Role("member") ELSE bearer.role

\* Stub.Resolve: the tenant and role of a caller, None when there is neither
\* header nor token nor a development tenant.
authResolve(bearer, header) ==
    IF header # None THEN [tenant |-> header, role |-> roleFromBearer(bearer)]
    ELSE IF bearer # None THEN [tenant |-> bearer.tenant, role |-> bearer.role]
    ELSE IF DevTenant # None THEN [tenant |-> DevTenant, role |-> Role("admin")]
    ELSE None

\* Lower case, trimmed: blanks and quotes inside the text stay.
normalize(role) == IF role.form \in {"mixed", "padded"} THEN Role(role.base) ELSE role

RoleAllowed(allowList, role) == allowList = {} \/ role \in allowList

\* Checker.Allow: the caller's role is normalized, the allow list is not.
Allow(def, callerRole) ==
    \/ normalize(callerRole) = Role("admin")
    \/ RoleAllowed(def.rbac, normalize(callerRole))
=============================================================================
