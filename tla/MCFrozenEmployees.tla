------------------------- MODULE MCFrozenEmployees -------------------------
(* Two employees besides the user. *)
EXTENDS FrozenEmployees

CONSTANTS e1, e2, me

MCEmployees == {e1, e2, me}
=============================================================================
