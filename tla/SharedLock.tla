----------------------------- MODULE SharedLock -----------------------------
(***************************************************************************)
(* What a lock for many readers or one writer promises to those who use    *)
(* it: who may be in together, and that nobody starts reading while        *)
(* somebody waits to write.  WCDB's RWLock implements it.                  *)
(*                                                                         *)
(* A user is one call that locks and the call that unlocks later.  The     *)
(* lock knows no threads: one that locks twice is two users.               *)
(***************************************************************************)
CONSTANT Users

VARIABLE mode   \* mode[u]: where u is with respect to the lock

Modes == {"out", "wants", "reading", "writing"}

In(how) == {u \in Users : mode[u] = how}

Moves(u, from, to) == mode[u] = from /\ mode' = [mode EXCEPT ![u] = to]

Init == mode = [u \in Users |-> "out"]

Read(u) == Moves(u, "out", "reading") /\ In("writing") = {} /\ In("wants") = {}

WantWrite(u) == Moves(u, "out", "wants")

Free == In("writing") = {} /\ In("reading") = {}

\* A user who only tries does not wait, nor for those who do.
Write(u) == (Moves(u, "wants", "writing") \/ Moves(u, "out", "writing")) /\ Free

EndRead(u) == Moves(u, "reading", "out")

EndWrite(u) == Moves(u, "writing", "out")

Next == \E u \in Users :
    Read(u) \/ WantWrite(u) \/ Write(u) \/ EndRead(u) \/ EndWrite(u)

Spec == Init /\ [][Next]_mode

-----------------------------------------------------------------------------
\* A writer is alone.
Exclusive == \A u, v \in Users :
    mode[u] = "writing" /\ u # v => mode[v] \notin {"reading", "writing"}
=============================================================================
