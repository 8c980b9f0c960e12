---------------------------- MODULE BatchRequest ----------------------------
(***************************************************************************)
(* YTKBatchRequest and YTKBatchRequestAgent: several requests started      *)
(* together, with one outcome for all of them.  The batch makes itself the *)
(* delegate of its requests; what it knows of them is what RequestPromise  *)
(* says.  Everything here runs on the main thread, one callback at a time. *)
(***************************************************************************)
EXTENDS Integers, Sequences, FiniteSets

CONSTANTS
    Batches,    \* batch objects; each is started at most once, as in the app
    Requests,
    Members     \* Members[b]: _requestArray

ASSUME MembersAssumption ==
    /\ Members \in [Batches -> SUBSET Requests]
    /\ \A b \in Batches : IsFiniteSet(Members[b]) /\ Members[b] # {}
    /\ \A b, c \in Batches : b # c => Members[b] \cap Members[c] = {}

VARIABLES
    status,     \* what became of each request, as in RequestPromise
    finished,   \* finished[b]: _finishedCount
    retained,   \* the batches the batch agent retains
    blocks,     \* batches whose completion blocks are set
    told,       \* told[b]: the outcomes its client has been told, in order
    stopped,    \* batches on which stop has been called
    good        \* history: requests that were answered with success

batchVars == <<status, finished, retained, blocks, told, stopped, good>>

Statuses == {"idle", "pending", "answered", "withdrawn"}

TypeOK ==
    /\ status \in [Requests -> Statuses]
    /\ finished \in [Batches -> Nat]
    /\ retained \subseteq Batches
    /\ blocks \subseteq Batches
    /\ told \in [Batches -> Seq({"success", "failure"})]
    /\ stopped \subseteq Batches
    /\ good \subseteq Requests

Init ==
    /\ status = [r \in Requests |-> "idle"]
    /\ finished = [b \in Batches |-> 0]
    /\ retained = {} /\ blocks = {}
    /\ told = [b \in Batches |-> <<>>]
    /\ stopped = {} /\ good = {}

Started(b) == \E r \in Members[b] : status[r] # "idle"

-----------------------------------------------------------------------------
(* Parts of the handlers.                                                  *)

\* Seeded faults, as those further down: see there.
\* The requests that are still pending are not stopped: QuietOnceSettled.
FaultNobodyStopped(b, st) == st

\* All of them are, those that have answered too: UsesRequestsAsPromised.
FaultAllStopped(b, st) ==
    [r \in Requests |->
        IF r \in Members[b] /\ st[r] # "idle" THEN "withdrawn" ELSE st[r]]

\* Stopping the requests of b; st is what became of the requests before that.
StopRequests(b, st) ==
    [r \in Requests |->
        IF r \in Members[b] /\ st[r] = "pending" THEN "withdrawn" ELSE st[r]]

\* The client is called, the blocks are cleared, the agent lets the batch go.
Settle(b, outcome) ==
    /\ told' = IF b \in blocks THEN [told EXCEPT ![b] = Append(@, outcome)]
               ELSE told
    /\ blocks' = blocks \ {b}
    /\ retained' = retained \ {b}

-----------------------------------------------------------------------------
(* Seeded faults.  No step uses these operators: each is a definition below *)
(* with a mistake one could make in the code, and the property named fails *)
(* when it takes that definition's place.                                  *)

\* The count starts again with every answer: BatchSettles.
FaultNotCounted(b, r) ==
    /\ r \in Members[b] /\ status[r] = "pending"
    /\ status' = [status EXCEPT ![r] = "answered"]
    /\ good' = good \cup {r}
    /\ finished' = [finished EXCEPT ![b] = 1]
    /\ IF Cardinality(Members[b]) = 1
       THEN Settle(b, "success") ELSE UNCHANGED <<told, blocks, retained>>
    /\ UNCHANGED stopped

\* A request that failed counts as finished: SuccessMeansAll.
FaultFailureCounted(b, r) ==
    /\ r \in Members[b] /\ status[r] = "pending"
    /\ status' = [status EXCEPT ![r] = "answered"]
    /\ finished' = [finished EXCEPT ![b] = @ + 1]
    /\ IF finished[b] + 1 = Cardinality(Members[b])
       THEN Settle(b, "success") ELSE UNCHANGED <<told, blocks, retained>>
    /\ UNCHANGED <<stopped, good>>

\* stop forgets the agent: RetainedWhilePending.
FaultStopStaysRetained(b) ==
    /\ Started(b) /\ b \notin stopped
    /\ status' = StopRequests(b, status)
    /\ blocks' = blocks \ {b}
    /\ stopped' = stopped \cup {b}
    /\ UNCHANGED <<finished, retained, told, good>>

\* stop only takes leave of the agent, clearRequest is forgotten: KeepsPromise.
FaultStopOnlyLetsGo(b) ==
    /\ Started(b) /\ b \notin stopped
    /\ retained' = retained \ {b}
    /\ stopped' = stopped \cup {b}
    /\ UNCHANGED <<status, blocks, finished, told, good>>

-----------------------------------------------------------------------------
(* The client.                                                             *)

Start(b) ==
    /\ finished[b] = 0
    /\ ~ Started(b)
    /\ status' = [r \in Requests |->
                     IF r \in Members[b] THEN "pending" ELSE status[r]]
    /\ retained' = retained \cup {b}
    /\ blocks' = blocks \cup {b}
    /\ UNCHANGED <<finished, told, stopped, good>>

\* BOUND: a batch is stopped once, after it was started; a second stop changes
\* nothing.
Stop(b) ==
    /\ Started(b) /\ b \notin stopped
    /\ status' = StopRequests(b, status)
    /\ blocks' = blocks \ {b}
    /\ retained' = retained \ {b}
    /\ stopped' = stopped \cup {b}
    /\ UNCHANGED <<finished, told, good>>

(* The delegate of the requests.                                           *)

RequestFinished(b, r) ==
    /\ r \in Members[b] /\ status[r] = "pending"
    /\ status' = [status EXCEPT ![r] = "answered"]
    /\ good' = good \cup {r}
    /\ finished' = [finished EXCEPT ![b] = @ + 1]
    /\ IF finished[b] + 1 = Cardinality(Members[b])
       THEN Settle(b, "success") ELSE UNCHANGED <<told, blocks, retained>>
    /\ UNCHANGED stopped

RequestFailed(b, r) ==
    /\ r \in Members[b] /\ status[r] = "pending"
    /\ status' = StopRequests(b, [status EXCEPT ![r] = "answered"])
    /\ Settle(b, "failure")
    /\ UNCHANGED <<finished, stopped, good>>

Next ==
    \E b \in Batches :
        \/ Start(b) \/ Stop(b)
        \/ \E r \in Members[b] : RequestFinished(b, r) \/ RequestFailed(b, r)

\* Every request settles (Settles of RequestPromise, which the request layer
\* keeps); starting and stopping are not fair.
Fairness ==
    \A b \in Batches : \A r \in Members[b] :
        WF_batchVars(RequestFinished(b, r) \/ RequestFailed(b, r))

Spec == Init /\ [][Next]_batchVars
FairSpec == Spec /\ Fairness

-----------------------------------------------------------------------------
(* Properties.                                                             *)

\* A client that is told of success finds the answers of all its requests: the
\* screens read them from the request array without looking (requestFinished).
SuccessMeansAll ==
    \A b \in Batches :
        "success" \in {told[b][k] : k \in DOMAIN told[b]} => Members[b] \subseteq good

\* When a batch has told its outcome or was stopped, none of its requests is
\* left to answer: what was on its way when one of them failed is not counted
\* and not heard (the loops over stop in requestFailed and clearRequest).
QuietOnceSettled ==
    \A b \in Batches :
        told[b] # <<>> \/ b \in stopped =>
            \A r \in Members[b] : status[r] # "pending"

\* The promise, for each batch.
BatchStatus ==
    [b \in Batches |->
        IF ~ Started(b) THEN "idle"
        ELSE IF told[b] # <<>> THEN "answered"
        ELSE IF b \in stopped THEN "withdrawn"
        ELSE "pending"]

\* The client need not hold its batch: the agent retains it exactly as long as
\* an outcome is owed (addBatchRequest, removeBatchRequest).
RetainedWhilePending == retained = {b \in Batches : BatchStatus[b] = "pending"}

\* Why these hold: the count is the number of answers that were successes,
\* only a batch that owes an outcome has blocks, requests that may answer or
\* a count short of all of them, and nobody is told twice.
Owes(b) ==
    /\ b \in retained \cap blocks
    /\ told[b] = <<>> /\ b \notin stopped
    /\ \A r \in Members[b] : status[r] = "pending" \/ r \in good
    /\ \E r \in Members[b] : status[r] = "pending"

Owed(b) ==
    /\ b \notin retained \cup blocks
    /\ \A r \in Members[b] : status[r] # "pending"
    /\ told[b] \in {<<>>, <<"success">>, <<"failure">>}
    /\ told[b] = <<"success">> => Members[b] \subseteq good
    /\ Started(b) => told[b] # <<>> \/ b \in stopped
    /\ ~ Started(b) => told[b] = <<>> /\ b \notin stopped

\* The inductive invariant behind the theorems of BatchRequestProofs: it
\* strengthens QuietOnceSettled, SuccessMeansAll and RetainedWhilePending.
BatchInv ==
    /\ \A b \in Batches :
          /\ finished[b] = Cardinality(good \cap Members[b])
          /\ Owes(b) \/ Owed(b)
    /\ \A r \in good : status[r] = "answered"

\* A batch is to its client what a request is to a screen: one outcome, or
\* none after stop, and it never moves again.
Promise == INSTANCE RequestPromise WITH Requests <- Batches, status <- BatchStatus
KeepsPromise == Promise!Spec

\* And every batch settles if its requests do.
BatchSettles == Promise!Settles

\* The batch uses its requests as the request layer allows.
RequestsPromise == INSTANCE RequestPromise
UsesRequestsAsPromised == RequestsPromise!Spec
=============================================================================
