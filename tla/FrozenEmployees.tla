--------------------------- MODULE FrozenEmployees ---------------------------
(***************************************************************************)
(* The employee screen, MShopFrozenEmployeeManagerViewController.  It asks *)
(* for all employees and for the frozen ones in one batch and joins the    *)
(* two answers into its table; after each freeze or unfreeze it asks       *)
(* again, while an earlier batch may still be under way.                   *)
(*                                                                         *)
(* The batches are those of BatchRequest, numbered as they are started;    *)
(* every step of theirs is a step of the screen.                           *)
(***************************************************************************)
EXTENDS Naturals, SequencesExt

CONSTANTS
    Employees,  \* all employees of the department
    Myself,     \* the one logged in
    None,
    MaxReloads, \* BOUND: batches started
    MaxOps      \* BOUND: operations in flight

ASSUME ScreenAssumption ==
    /\ Myself \in Employees
    /\ MaxReloads \in Nat \ {0} /\ MaxOps \in Nat

VARIABLES
    status, finished, retained, blocks, told, stopped, good, \* of the batches
    reloads,    \* batches started so far
    response,   \* response[r]: the list in the answer to r, once there is one
    frozen,     \* the employees the server holds frozen
    table,      \* table[e]: isFrozen in the row of e
    ops,        \* freeze and unfreeze requests in flight
    calm        \* history: since the last reload that was started with nothing
                \* in flight, nothing has failed or was refused and no batch
                \* has overtaken another

Batches == 1 .. MaxReloads
Requests == Batches \X {"employees", "frozen"}
Members == [b \in Batches |-> {b} \X {"employees", "frozen"}]

Batch == INSTANCE BatchRequest

batch == <<status, finished, retained, blocks, told, stopped, good>>
screen == <<table, ops>>
vars == <<batch, reloads, response, frozen, screen, calm>>

Rows == Employees \ {Myself}

TypeOK ==
    /\ Batch!TypeOK
    /\ reloads \in Batches
    /\ response \in [Requests -> (SUBSET Employees) \cup {None}]
    /\ frozen \subseteq Employees
    /\ \E shown \in SUBSET Rows : table \in [shown -> BOOLEAN]
    /\ ops \in Seq([employee : Rows, freeze : BOOLEAN, served : BOOLEAN])
    /\ Len(ops) <= MaxOps
    /\ calm \in BOOLEAN

\* viewDidLoad has started the first batch.
Init ==
    /\ status = [r \in Requests |-> IF r[1] = 1 THEN "pending" ELSE "idle"]
    /\ finished = [b \in Batches |-> 0]
    /\ retained = {1} /\ blocks = {1}
    /\ told = [b \in Batches |-> <<>>]
    /\ stopped = {} /\ good = {}
    /\ reloads = 1
    /\ response = [r \in Requests |-> None]
    /\ frozen \in SUBSET Employees
    /\ table = << >> /\ ops = <<>>
    /\ calm = TRUE

SendFrozenBatchRequest ==
    /\ reloads' = reloads + 1
    /\ Batch!Start(reloads + 1)

\* The rows: the first list without the user, marked by the second.
Joined(b) ==
    [e \in response[<<b, "employees">>] \ {Myself} |->
        e \in response[<<b, "frozen">>]]

-----------------------------------------------------------------------------
(* A seeded fault.  No step uses this operator: it is OptAnswered with a   *)
(* mistake one could make in the code, and the property named fails when   *)
(* it takes its place.                                                     *)

\* The screen trusts itself and does not ask again: SettledTableAgrees.
FaultNoReload(i) ==
    /\ ops[i].served
    /\ ops' = RemoveAt(ops, i)
    /\ UNCHANGED <<batch, reloads, response, frozen, table, calm>>

-----------------------------------------------------------------------------
(* What the clerk does.                                                    *)

\* BOUND: the clerk stops when the batches are used up.  The HUD may come too
\* late to keep a second touch from the table, so none is assumed.
OnClickFrozenEmployee(e) ==
    /\ Len(ops) < MaxOps /\ reloads + Len(ops) < MaxReloads
    /\ ops' = Append(ops, [employee |-> e, freeze |-> ~ table[e], served |-> FALSE])
    /\ UNCHANGED <<batch, reloads, response, frozen, table, calm>>

-----------------------------------------------------------------------------
(* What the server does (external).                                        *)

ServeOpt(i) ==
    /\ ~ ops[i].served
    /\ ops' = [ops EXCEPT ![i].served = TRUE]
    /\ frozen' = IF ops[i].freeze THEN frozen \cup {ops[i].employee}
                 ELSE frozen \ {ops[i].employee}
    /\ UNCHANGED <<batch, reloads, response, table, calm>>

ServeList(r) ==
    /\ status[r] = "pending" /\ response[r] = None
    /\ response' = [response EXCEPT ![r] = IF r[2] = "frozen" THEN frozen
                                           ELSE Employees]
    /\ UNCHANGED <<batch, reloads, frozen, screen, calm>>

\* An answer without a list, as when the token has expired.  The batch looks
\* at no result code, and a missing list is read as an empty one.
RefuseList(r) ==
    /\ status[r] = "pending" /\ response[r] = None
    /\ response' = [response EXCEPT ![r] = {}]
    /\ calm' = FALSE
    /\ UNCHANGED <<batch, reloads, frozen, screen>>

-----------------------------------------------------------------------------
(* What the completion blocks do.                                          *)

Overtakes(b) == \E c \in retained : c < b

ListFinished(b, r) ==
    /\ response[r] # None
    /\ Batch!RequestFinished(b, r)
    /\ IF told' # told
       THEN table' = Joined(b) /\ calm' = (calm /\ ~ Overtakes(b))
       ELSE UNCHANGED <<table, calm>>
    /\ UNCHANGED <<reloads, response, frozen, ops>>

\* A tip.
ListFailed(b, r) ==
    /\ Batch!RequestFailed(b, r)
    /\ calm' = FALSE
    /\ UNCHANGED <<reloads, response, frozen, screen>>

OptAnswered(i) ==
    /\ ops[i].served
    /\ ops' = RemoveAt(ops, i)
    /\ SendFrozenBatchRequest
    /\ calm' = (calm \/ (ops' = <<>> /\ retained = {}))
    /\ UNCHANGED <<response, frozen, table>>

\* An error, an answer that is not messageSuccess, or an expired token: a tip or
\* the login alert, and no reload.
OptFailed(i) ==
    /\ ops' = RemoveAt(ops, i)
    /\ calm' = FALSE
    /\ UNCHANGED <<batch, reloads, response, frozen, table>>

-----------------------------------------------------------------------------
Next ==
    \/ \E e \in DOMAIN table : OnClickFrozenEmployee(e)
    \/ \E i \in DOMAIN ops : ServeOpt(i) \/ OptAnswered(i) \/ OptFailed(i)
    \/ \E b \in Batches : \E r \in Members[b] :
          \/ ServeList(r) \/ RefuseList(r)
          \/ ListFinished(b, r) \/ ListFailed(b, r)

Spec == Init /\ [][Next]_vars

-----------------------------------------------------------------------------
(* Properties.                                                             *)

\* Once nothing is in flight, and provided nothing failed, was refused or was
\* overtaken since the last clean reload, the table has a row for every other
\* employee and each row shows the state the server has: the reload after each
\* operation makes up for lists that were served before it, even when
\* operations and batches overlap (sendFrozenBatchRequest).
SettledTableAgrees ==
    ops = <<>> /\ retained = {} /\ calm =>
        table = [e \in Rows |-> e \in frozen]
=============================================================================
