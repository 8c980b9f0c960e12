--------------------------- MODULE MCRequestAgent ---------------------------
(* Two requests with a HUD, as when a screen runs two user operations.    *)
EXTENDS RequestAgent

CONSTANTS r1, r2

MCRequests == {r1, r2}
MCAnimated == {r1, r2}
=============================================================================
