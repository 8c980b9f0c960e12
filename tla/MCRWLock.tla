------------------------------ MODULE MCRWLock ------------------------------
(* RWLock with five users, so that readers and writers sleep together while *)
(* another holds the lock.                                                 *)
EXTENDS RWLock

CONSTANTS u1, u2, u3, u4, u5

MCFive == {u1, u2, u3, u4, u5}
=============================================================================
