------------------------------ MODULE Versions ------------------------------
(***************************************************************************)
(* The version order of the in-memory store (store.go compareVersion and   *)
(* atoiSafe).                                                              *)
(*                                                                         *)
(* A version string is the non-empty sequence of its "."-separated parts.  *)
(* A part is [num, rest]: num is the int its leading digits give (0 if it  *)
(* has none, wrapped around if there are too many), rest is what atoiSafe  *)
(* does not look at.  "1.10-rc" is <<[num |-> 1, rest |-> ""],             *)
(* [num |-> 10, rest |-> "-rc"]>>.                                         *)
(***************************************************************************)
EXTENDS Integers, Sequences, FiniteSetsExt

IsVersion(v) ==
    /\ DOMAIN v = 1..Len(v) /\ Len(v) \in Nat
    /\ \A i \in DOMAIN v : v[i].num \in Int

atoiSafe(part) == part.num

\* Part i of v as a number; a part that is missing counts as 0.
PartNum(v, i) == IF i \in DOMAIN v THEN atoiSafe(v[i]) ELSE 0

\* The positions compareVersion's loop would stop at.
Differ(a, b) == {i \in DOMAIN a \cup DOMAIN b : PartNum(a, i) # PartNum(b, i)}

\* -1, 0 or 1 by the first part that differs.
compareVersion(a, b) ==
    IF Differ(a, b) = {} THEN 0
    ELSE LET i == Min(Differ(a, b)) IN
         IF PartNum(a, i) < PartNum(b, i) THEN -1 ELSE 1
=============================================================================
