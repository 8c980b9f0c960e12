--------------------------- MODULE MCBatchRequest ---------------------------
(* Two batches side by side, of two and of three requests. *)
EXTENDS BatchRequest

CONSTANTS b1, b2, r1, r2, r3, r4, r5

MCBatches == {b1, b2}
MCRequests == {r1, r2, r3, r4, r5}
MCMembers == [b \in MCBatches |-> IF b = b1 THEN {r1, r2} ELSE {r3, r4, r5}]
=============================================================================
