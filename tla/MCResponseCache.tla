--------------------------- MODULE MCResponseCache --------------------------
(* Two request objects for one cache file.  The clock runs until what was   *)
(* saved first has expired, and so has what replaced it.                    *)
EXTENDS ResponseCache, TLC

CONSTANTS r1, r2, me, other

MCSymmetry == Permutations(Requests)

MCIdentity == [r \in Requests |-> me]
=============================================================================
