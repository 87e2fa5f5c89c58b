----------------------------- MODULE Selection ------------------------------
(***************************************************************************)
(* Which instance a call may go to (application/discovery/pick.go).  An    *)
(* instance is [endpoint, healthy, weight].                                *)
(***************************************************************************)
EXTENDS Integers, Sequences, SequencesExt

\* The loop "for i := range s, if i is wanted, append s[i] to out": the entries
\* of s at the positions I, in their order.
Kept(s, I) ==
    LET out[n \in 0..Len(s)] ==
          IF n = 0 THEN <<>>
          ELSE IF n \in I THEN Append(out[n - 1], s[n]) ELSE out[n - 1]
    IN out[Len(s)]

Healthy(insts) == Kept(insts, {i \in DOMAIN insts : insts[i].healthy})

\* What Pick may return, {} for ok = false: any healthy instance, since every
\* weight counts at least 1.  Module Balancer has the loop that chooses.
Pick(insts) == ToSet(Healthy(insts))
=============================================================================
