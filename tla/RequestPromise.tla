--------------------------- MODULE RequestPromise ---------------------------
(***************************************************************************)
(* What the request layer promises to a screen, for each request object:   *)
(* started at most once, it is pending until it is answered (exactly one   *)
(* of its callbacks runs, on the main thread) or withdrawn (stop), and     *)
(* after either of these it never moves again.                             *)
(* RequestAgent implements this promise; the screens are written on it.    *)
(***************************************************************************)
CONSTANT Requests

VARIABLE status

Status == {"idle", "pending", "answered", "withdrawn"}

Moves == { <<"idle", "pending">>,
           <<"pending", "answered">>,
           <<"pending", "withdrawn">> }

Init == status = [r \in Requests |-> "idle"]

\* One step of the main thread may move several requests: a batch that fails
\* withdraws all of its requests in the callback of one of them.
Next ==
    /\ status' \in [Requests -> Status]
    /\ \A r \in Requests :
          status'[r] = status[r] \/ <<status[r], status'[r]>> \in Moves

Spec == Init /\ [][Next]_status

\* A pending request does not stay pending for ever.
Settles == \A r \in Requests : (status[r] = "pending") ~> (status[r] # "pending")

LiveSpec == Spec /\ Settles
=============================================================================
