----------------------------- MODULE MCSession -----------------------------
(* Two users with aliases of their own.                                    *)
EXTENDS Session, TLC

CONSTANTS u1, u2, x1, x2

MCUsers == {u1, u2}
MCAliasOf == [u \in MCUsers |-> IF u = u1 THEN x1 ELSE x2]
=============================================================================
