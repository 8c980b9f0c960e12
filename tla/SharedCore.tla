----------------------------- MODULE SharedCore -----------------------------
(***************************************************************************)
(* What WCTDatabase+Database.h promises of opening a database: "all        *)
(* database objects with same path share the same core".  A core is        *)
(* anybody's or nobody's, and it is of one path while somebody has it.     *)
(***************************************************************************)
CONSTANTS Databases, Paths, Pools, None

VARIABLES
    core,       \* core[d]: the core of a database object, None when it has gone
    file        \* file[d]: its path

vars == <<core, file>>

Init ==
    /\ core = [d \in Databases |-> None]
    /\ file = [d \in Databases |-> None]

Others(p) == {d \in Databases : core[d] # None /\ file[d] = p}

\* The core of the others with the path, or one that nobody has.
Open(d, p) ==
    /\ core[d] = None
    /\ \E c \in Pools :
        /\ core' = [core EXCEPT ![d] = c]
        /\ \/ Others(p) = {} /\ \A o \in Databases : core[o] # c
           \/ \E o \in Others(p) : core[o] = c
    /\ file' = [file EXCEPT ![d] = p]

Close(d) ==
    /\ core[d] # None
    /\ core' = [core EXCEPT ![d] = None]
    /\ file' = [file EXCEPT ![d] = None]

Next == \E d \in Databases : (\E p \in Paths : Open(d, p)) \/ Close(d)

Spec == Init /\ [][Next]_vars
=============================================================================
