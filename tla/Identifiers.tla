---------------------------- MODULE Identifiers -----------------------------
(***************************************************************************)
(* Tool identifiers (domain/types.go ToolKey, store.go key, service.go     *)
(* splitKey).                                                              *)
(*                                                                         *)
(* A Go string is modelled by the sequence of its "/"-separated segments:  *)
(* <<"acme">> for acme, <<"a", "b">> for a/b.  Joining two strings with a  *)
(* "/" is then concatenation, and what is lost by joining shows.  A        *)
(* version is one segment.                                                 *)
(***************************************************************************)
EXTENDS Naturals, Sequences

\* tenantID + "/" + name + "/" + version
ToolKey(tenant, name, version) == tenant \o name \o <<version>>

\* splitKey cuts at the first two slashes: the third result is ok.
splitKeyOK(id)     == Len(id) >= 2
splitKeyTenant(id) == <<Head(id)>>

\* Mutant: the name is everything after the first slash.
splitKeyNameRest(id) == Tail(id)

splitKeyName(id)   == <<Head(Tail(id))>>

\* Strings without a slash, built from the segments S.
SlashFree(S) == {<<s>> : s \in S}
=============================================================================
