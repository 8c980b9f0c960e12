---------------------------- MODULE RequestAgent ----------------------------
(***************************************************************************)
(* The request layer every screen uses: YTKBaseRequest (start, stop, the   *)
(* completion blocks and the delegate), YTKNetworkAgent (the record of     *)
(* requests, the concurrent processing queue, the blocks it posts to the   *)
(* main queue), MFNetworkRequest (the wrapper that takes an expired token  *)
(* away from the success block) and the accessory that shows a HUD over    *)
(* the window while a request runs.                                        *)
(*                                                                         *)
(* Two kinds of threads run here.  The main thread calls start and stop    *)
(* and runs the main queue's blocks one at a time, in order.  The threads  *)
(* of the processing queue run handleRequestResult, one per task: they     *)
(* look the task up under the lock, then post two blocks, and the main     *)
(* thread may do anything between these steps.                             *)
(***************************************************************************)
EXTENDS Sequences, FiniteSets, Naturals

CONSTANTS
    Requests,   \* request objects; each is started at most once, as in the app
    Animated    \* the ones with an animatingView, hence a HUD accessory

ASSUME AnimatedAssumption == Animated \subseteq Requests

VARIABLES
    task,       \* how far the request and its network task have come
    outcome,    \* what the answer turned out to be
    record,     \* _requestsRecord: the requests the agent retains
    blocks,     \* requests whose completion blocks are set
    delegates,  \* requests whose delegate is set
    mainQueue,  \* blocks posted to the main queue
    hud,        \* requests whose HUD is on the window
    heard,      \* heard[r]: what the client of r has been told, in order
    stopped,    \* requests on which stop has been called
    sweep       \* keys cancelAllRequests has still to stop

vars == <<task, outcome, record, blocks, delegates, mainQueue, hud, heard,
          stopped, sweep>>

Stages == {"new", "unsent", "running", "handling", "posted", "ended"}
Outcomes == {"unknown", "answer", "expired", "failure"}
Tellings == {"success", "relogin", "failure"}
Blocks == [kind : {"show", "hide", "callback", "cleanup"}, req : Requests]

Block(k, r) == [kind |-> k, req |-> r]

\* The accessory posts to the main queue, and only if it has a view.
RequestWillStart(r) == IF r \in Animated THEN <<Block("show", r)>> ELSE <<>>
RequestWillStop(r)  == IF r \in Animated THEN <<Block("hide", r)>> ELSE <<>>

TypeOK ==
    /\ task \in [Requests -> Stages]
    /\ outcome \in [Requests -> Outcomes]
    /\ record \subseteq Requests
    /\ blocks \subseteq Requests
    /\ delegates \subseteq Requests
    /\ mainQueue \in Seq(Blocks)
    /\ hud \subseteq Requests
    /\ heard \in [Requests -> Seq(Tellings)]
    /\ stopped \subseteq Requests
    /\ sweep \subseteq Requests

Init ==
    /\ task = [r \in Requests |-> "new"]
    /\ outcome = [r \in Requests |-> "unknown"]
    /\ record = {} /\ blocks = {} /\ delegates = {}
    /\ mainQueue = <<>>
    /\ hud = {}
    /\ heard = [r \in Requests |-> <<>>]
    /\ stopped = {} /\ sweep = {}

-----------------------------------------------------------------------------
(* What the steps are made of.                                             *)

\* The main thread runs a loop over the record to its end.
MainIsFree == sweep = {}

\* The next block the main thread will run.
AtHead(b) == MainIsFree /\ mainQueue # <<>> /\ Head(mainQueue) = b

\* A screen gives the request two blocks; a batch makes itself the delegate
\* and clears the blocks.
Attach(r) ==
    \/ blocks' = blocks \cup {r} /\ UNCHANGED delegates
    \/ delegates' = delegates \cup {r} /\ UNCHANGED blocks

-----------------------------------------------------------------------------
(* Seeded faults.  No step uses these operators: each is a definition below *)
(* with a mistake one could make in the code, and the property named after  *)
(* it fails when it takes that definition's place.                          *)

\* The return after requestDidFail is missing: AtMostOneCallback.
FaultUnsentStillSent(r) ==
    /\ MainIsFree /\ task[r] = "new"
    /\ Attach(r)
    /\ task' = [task EXCEPT ![r] = "running"]
    /\ outcome' = [outcome EXCEPT ![r] = "failure"]
    /\ record' = record \cup {r}
    /\ mainQueue' = mainQueue \o RequestWillStart(r) \o <<Block("callback", r)>>
    /\ UNCHANGED <<hud, heard, stopped, sweep>>

\* The return is there, requestDidFail is not: PromiseSettles.
FaultUnsentUnheard(r) ==
    /\ MainIsFree /\ task[r] = "new"
    /\ Attach(r)
    /\ task' = [task EXCEPT ![r] = "unsent"]
    /\ mainQueue' = mainQueue \o RequestWillStart(r)
    /\ UNCHANGED <<outcome, record, hud, heard, stopped, sweep>>

\* stop forgets the delegate: KeepsPromise.
FaultStopKeepsDelegate(r) ==
    /\ mainQueue' = mainQueue \o RequestWillStop(r)
    /\ record' = record \ {r}
    /\ blocks' = blocks \ {r}
    /\ stopped' = stopped \cup {r}
    /\ UNCHANGED delegates

\* stop forgets the accessories: HudGoes.
FaultStopKeepsHud(r) ==
    /\ delegates' = delegates \ {r}
    /\ record' = record \ {r}
    /\ blocks' = blocks \ {r}
    /\ stopped' = stopped \cup {r}
    /\ UNCHANGED mainQueue

\* The record is cleaned on the processing queue: RecordedUntilHeard.
FaultEarlyRemoval(r) ==
    /\ task[r] = "handling"
    /\ task' = [task EXCEPT ![r] = "posted"]
    /\ mainQueue' = Append(mainQueue, Block("callback", r))
    /\ record' = record \ {r}
    /\ UNCHANGED <<outcome, blocks, delegates, hud, heard, stopped, sweep>>

\* The success block is not wrapped: ExpiryTakenFromBlocks.
FaultToldUnwrapped(r) == IF outcome[r] = "failure" THEN "failure" ELSE "success"

\* The cleanup block does not clear the blocks: NothingRetained.
FaultCleanupKeepsBlocks(r) ==
    /\ AtHead(Block("cleanup", r))
    /\ mainQueue' = Tail(mainQueue)
    /\ record' = record \ {r}
    /\ UNCHANGED <<task, outcome, blocks, delegates, hud, heard, stopped, sweep>>

-----------------------------------------------------------------------------
(* The main thread: calls made by screens.                                 *)

\* start, when the arguments cannot be serialised: the failure is posted and
\* the request is neither recorded nor resumed.
StartUnsent(r) ==
    /\ MainIsFree /\ task[r] = "new"
    /\ Attach(r)
    /\ task' = [task EXCEPT ![r] = "unsent"]
    /\ outcome' = [outcome EXCEPT ![r] = "failure"]
    /\ mainQueue' = mainQueue \o RequestWillStart(r) \o <<Block("callback", r)>>
    /\ UNCHANGED <<record, hud, heard, stopped, sweep>>

Start(r) ==
    /\ MainIsFree /\ task[r] = "new"
    /\ Attach(r)
    /\ task' = [task EXCEPT ![r] = "running"]
    /\ record' = record \cup {r}
    /\ mainQueue' = mainQueue \o RequestWillStart(r)
    /\ UNCHANGED <<outcome, hud, heard, stopped, sweep>>

\* stop, with cancelRequest inside it.  The cancelled task still completes
\* on the processing queue.
StopEffect(r) ==
    /\ mainQueue' = mainQueue \o RequestWillStop(r)
    /\ delegates' = delegates \ {r}
    /\ record' = record \ {r}
    /\ blocks' = blocks \ {r}
    /\ stopped' = stopped \cup {r}

\* BOUND: a request is stopped once; a second stop changes nothing but posts
\* another hide block.
Stop(r) ==
    /\ MainIsFree /\ task[r] # "new" /\ r \notin stopped
    /\ StopEffect(r)
    /\ UNCHANGED <<task, outcome, hud, heard, sweep>>

\* cancelAllRequests copies the keys, then takes the lock again for each one.
CancelAllRequests ==
    /\ MainIsFree /\ record # {}
    /\ sweep' = record
    /\ UNCHANGED <<task, outcome, record, blocks, delegates, mainQueue, hud,
                   heard, stopped>>

CancelNext(r) ==
    /\ r \in sweep
    /\ StopEffect(r)
    /\ sweep' = sweep \ {r}
    /\ UNCHANGED <<task, outcome, hud, heard>>

-----------------------------------------------------------------------------
(* The processing queue: handleRequestResult.                              *)

\* The task completed, but its request is no longer in the record.
IgnoreAnswer(r) ==
    /\ task[r] = "running" /\ r \notin record
    /\ task' = [task EXCEPT ![r] = "ended"]
    /\ UNCHANGED <<outcome, record, blocks, delegates, mainQueue, hud, heard,
                   stopped, sweep>>

\* The task completed and its request was found; the answer is judged.
AcceptAnswer(r) ==
    /\ task[r] = "running" /\ r \in record
    /\ task' = [task EXCEPT ![r] = "handling"]
    /\ \E o \in Outcomes \ {"unknown"} : outcome' = [outcome EXCEPT ![r] = o]
    /\ UNCHANGED <<record, blocks, delegates, mainQueue, hud, heard, stopped,
                   sweep>>

\* requestDidSucceed or requestDidFail: the block that calls the client.
PostCallback(r) ==
    /\ task[r] = "handling"
    /\ task' = [task EXCEPT ![r] = "posted"]
    /\ mainQueue' = Append(mainQueue, Block("callback", r))
    /\ UNCHANGED <<outcome, record, blocks, delegates, hud, heard, stopped,
                   sweep>>

\* The last statement of handleRequestResult.
PostCleanup(r) ==
    /\ task[r] = "posted"
    /\ task' = [task EXCEPT ![r] = "ended"]
    /\ mainQueue' = Append(mainQueue, Block("cleanup", r))
    /\ UNCHANGED <<outcome, record, blocks, delegates, hud, heard, stopped,
                   sweep>>

-----------------------------------------------------------------------------
(* The main thread: the blocks of the main queue.                          *)

RunShow(r) ==
    /\ AtHead(Block("show", r))
    /\ mainQueue' = Tail(mainQueue)
    /\ hud' = hud \cup {r}
    /\ UNCHANGED <<task, outcome, record, blocks, delegates, heard, stopped,
                   sweep>>

RunHide(r) ==
    /\ AtHead(Block("hide", r))
    /\ mainQueue' = Tail(mainQueue)
    /\ hud' = hud \ {r}
    /\ UNCHANGED <<task, outcome, record, blocks, delegates, heard, stopped,
                   sweep>>

\* What the client is told.  MFNetworkRequest wraps the success block only:
\* a delegate hears of an expired token as of any other answer.
Told(r) ==
    IF outcome[r] = "failure" THEN "failure"
    ELSE IF outcome[r] = "expired" /\ r \in blocks THEN "relogin"
    ELSE "success"

RunCallback(r) ==
    /\ AtHead(Block("callback", r))
    /\ mainQueue' = Tail(mainQueue) \o RequestWillStop(r)
    /\ heard' = IF r \in blocks \cup delegates
                THEN [heard EXCEPT ![r] = Append(@, Told(r))]
                ELSE heard
    /\ UNCHANGED <<task, outcome, record, blocks, delegates, hud, stopped,
                   sweep>>

RunCleanup(r) ==
    /\ AtHead(Block("cleanup", r))
    /\ mainQueue' = Tail(mainQueue)
    /\ record' = record \ {r}
    /\ blocks' = blocks \ {r}
    /\ UNCHANGED <<task, outcome, delegates, hud, heard, stopped, sweep>>

-----------------------------------------------------------------------------
RunMainQueue(r) == RunShow(r) \/ RunHide(r) \/ RunCallback(r) \/ RunCleanup(r)

HandleRequestResult(r) ==
    IgnoreAnswer(r) \/ AcceptAnswer(r) \/ PostCallback(r) \/ PostCleanup(r)

Next ==
    \/ CancelAllRequests
    \/ \E r \in Requests :
          \/ StartUnsent(r) \/ Start(r) \/ Stop(r) \/ CancelNext(r)
          \/ HandleRequestResult(r)
          \/ RunMainQueue(r)

\* Every task completes (the session's timeout is 60 seconds), libdispatch
\* runs what is posted, and a loop on the main thread goes on.  What the user
\* and the screens call is not fair.
Fairness ==
    /\ \A r \in Requests : WF_vars(HandleRequestResult(r))
    /\ WF_vars(\E r \in Requests : RunMainQueue(r))
    /\ WF_vars(\E r \in Requests : CancelNext(r))

Spec == Init /\ [][Next]_vars
FairSpec == Spec /\ Fairness

-----------------------------------------------------------------------------
(* Properties.                                                             *)

Holds(q, k, r) == \E i \in 1..Len(q) : q[i] = Block(k, r)

Queued(k, r) == Holds(mainQueue, k, r)

\* A client is called at most once, whatever became of its request: one
\* answer, one callback, never a success and a failure both.
AtMostOneCallback == \A r \in Requests : Len(heard[r]) <= 1

\* Once stop has returned the client hears nothing, even if the processing
\* queue had already found the request or had posted its callback.
SilentOnceStopped ==
    [][\A r \in Requests : r \in stopped => heard'[r] = heard[r]]_vars

\* A client that gave blocks is never told of success when the token has
\* expired, and never told to log in again when it has not.
ExpiryTakenFromBlocks ==
    \A r \in Requests :
        heard[r] # <<>> /\ r \in blocks =>
            (heard[r][1] = "relogin" <=> outcome[r] = "expired")

\* Until its callback has run or it is stopped, a request that was sent is in
\* the record: the agent keeps it alive, and cancelAllRequests can reach it.
RecordedUntilHeard ==
    \A r \in Requests :
        /\ task[r] \in {"running", "handling", "posted", "ended"}
        /\ heard[r] = <<>> /\ r \notin stopped
        => r \in record

\* When handleRequestResult has returned and none of its blocks is left in the
\* queue, the agent has let the request go and the blocks are cleared, so that
\* a block that captures its own request does not keep it for ever.
NothingRetained ==
    \A r \in Requests :
        task[r] = "ended" /\ ~Queued("callback", r) /\ ~Queued("cleanup", r)
            => r \notin record \cup blocks

\* In a queue, one callback block for each request, and its cleanup behind it.
InOrder(q) ==
    \A i, j \in 1..Len(q) : \A r \in Requests :
        /\ q[i] = Block("callback", r) /\ q[j] = Block("callback", r) => i = j
        /\ q[i] = Block("callback", r) /\ q[j] = Block("cleanup", r) => i < j

\* Why the properties above hold: how far the task has come, what is in the
\* queue and what the client has heard go together.
Delivery(r) ==
    /\ task[r] \in {"new", "running", "handling"} => heard[r] = <<>>
    /\ Queued("callback", r) =>
          heard[r] = <<>> /\ task[r] \in {"unsent", "posted", "ended"}
    /\ Queued("cleanup", r) => task[r] = "ended"
    /\ task[r] # "new" /\ heard[r] = <<>> /\ r \notin stopped =>
          /\ r \in blocks \cup delegates
          /\ task[r] \in {"unsent", "posted", "ended"} => Queued("callback", r)
          /\ task[r] # "unsent" => r \in record
    /\ task[r] = "new" => r \notin record \cup sweep \cup stopped
    /\ r \in stopped => r \notin blocks \cup delegates
    /\ Len(heard[r]) <= 1

\* The inductive invariant behind the theorems of RequestAgentProofs: it
\* strengthens AtMostOneCallback and RecordedUntilHeard with the order of the
\* blocks start, handleRequestResult and stop post.
DeliveryInv == InOrder(mainQueue) /\ \A r \in Requests : Delivery(r)

\* No HUD stays on the window for ever.
HudGoes == \A r \in Requests : (r \in hud) ~> (r \notin hud)

\* The promise, for each request object.
status ==
    [r \in Requests |->
        IF task[r] = "new" THEN "idle"
        ELSE IF heard[r] # <<>> THEN "answered"
        ELSE IF r \in stopped THEN "withdrawn"
        ELSE "pending"]

Promise == INSTANCE RequestPromise

\* The layer keeps the promise: its steps are the promise's steps.
KeepsPromise == Promise!Spec

\* And every pending request settles.
PromiseSettles == Promise!Settles
=============================================================================
