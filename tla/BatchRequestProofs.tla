------------------------- MODULE BatchRequestProofs -------------------------
(***************************************************************************)
(* That a batch has one outcome, the right one, and is retained until      *)
(* then, for any batches of any finite number of requests.                 *)
(***************************************************************************)
EXTENDS BatchRequest, FiniteSetTheorems, TLAPS

\* Whatever b does concerns the requests of no other batch.
LEMMA OthersApart ==
    ASSUME NEW b \in Batches, NEW c \in Batches, c # b, NEW r \in Members[b]
    PROVE  r \in Requests /\ r \notin Members[c]
BY MembersAssumption

\* The three things a client can have heard are three things.
LEMMA TellingsDiffer ==
    /\ <<>> # <<"success">> /\ <<>> # <<"failure">>
    /\ <<"success">> # <<"failure">>
<1>1. Len(<<"success">>) = 1 /\ Len(<<"failure">>) = 1 /\ Len(<<>>) = 0
  OBVIOUS
<1>2. <<"success">>[1] = "success" /\ <<"failure">>[1] = "failure"
  OBVIOUS
<1> QED  BY <1>1, <1>2

LEMMA NextKeepsType == TypeOK /\ [Next]_batchVars => TypeOK'
<1> SUFFICES ASSUME TypeOK, [Next]_batchVars PROVE TypeOK'
  OBVIOUS
<1> USE DEF TypeOK, Statuses
<1>0. CASE UNCHANGED batchVars
  BY <1>0 DEF batchVars
<1>s. ASSUME NEW b \in Batches, NEW o \in {"success", "failure"}, Settle(b, o)
      PROVE  /\ told' \in [Batches -> Seq({"success", "failure"})]
             /\ blocks' \subseteq Batches /\ retained' \subseteq Batches
  BY <1>s DEF Settle
<1>1. ASSUME NEW b \in Batches, Start(b) PROVE TypeOK'
  BY <1>1 DEF Start
<1>2. ASSUME NEW b \in Batches, Stop(b) PROVE TypeOK'
  BY <1>2 DEF Stop, StopRequests
<1>3. ASSUME NEW b \in Batches, NEW r \in Members[b], RequestFinished(b, r)
      PROVE  TypeOK'
  <2>1. r \in Requests  BY MembersAssumption
  <2>2. /\ status' \in [Requests -> Statuses] /\ good' \subseteq Requests
        /\ finished' \in [Batches -> Nat] /\ stopped' \subseteq Batches
    BY <1>3, <2>1 DEF RequestFinished
  <2>3. \/ Settle(b, "success") \/ UNCHANGED <<told, blocks, retained>>
    BY <1>3 DEF RequestFinished
  <2> QED  BY <2>2, <2>3, <1>s
<1>4. ASSUME NEW b \in Batches, NEW r \in Members[b], RequestFailed(b, r)
      PROVE  TypeOK'
  <2>1. r \in Requests  BY MembersAssumption
  <2>2. /\ status' \in [Requests -> Statuses] /\ good' \subseteq Requests
        /\ finished' \in [Batches -> Nat] /\ stopped' \subseteq Batches
    BY <1>4, <2>1 DEF RequestFailed, StopRequests
  <2> QED  BY <2>2, <1>4, <1>s DEF RequestFailed
<1> QED  BY <1>0, <1>1, <1>2, <1>3, <1>4 DEF Next

\* The state is well formed, for any batches.
THEOREM BatchTypeCorrect == Spec => []TypeOK
<1>1. Init => TypeOK
  BY DEF Init, TypeOK, Statuses
<1> QED  BY <1>1, NextKeepsType, PTL DEF Spec

-----------------------------------------------------------------------------
\* Counting: an answer that was pending adds one to the successes of its batch.
LEMMA OneMore ==
    ASSUME NEW b \in Batches, NEW r \in Members[b], r \notin good
    PROVE  /\ Cardinality(good \cap Members[b]) \in Nat
           /\ Cardinality((good \cup {r}) \cap Members[b])
                 = Cardinality(good \cap Members[b]) + 1
<1>1. IsFiniteSet(Members[b])  BY MembersAssumption
<1>2. IsFiniteSet(good \cap Members[b])
  BY <1>1, FS_Subset
<1>3. (good \cup {r}) \cap Members[b] = (good \cap Members[b]) \cup {r}
  OBVIOUS
<1> QED  BY <1>2, <1>3, FS_AddElement, FS_CardinalityType

\* And the count is full exactly when all have answered with success.
LEMMA FullCount ==
    ASSUME NEW b \in Batches, NEW S
    PROVE  Cardinality(S \cap Members[b]) = Cardinality(Members[b])
              <=> Members[b] \subseteq S
<1>1. IsFiniteSet(Members[b])  BY MembersAssumption
<1>2. S \cap Members[b] \subseteq Members[b]  OBVIOUS
<1>3. ASSUME Cardinality(S \cap Members[b]) = Cardinality(Members[b])
      PROVE  Members[b] \subseteq S
  <2>1. S \cap Members[b] = Members[b]
    BY <1>1, <1>2, <1>3, FS_Subset
  <2> QED  BY <2>1
<1>4. ASSUME Members[b] \subseteq S
      PROVE  Cardinality(S \cap Members[b]) = Cardinality(Members[b])
  <2>1. S \cap Members[b] = Members[b]  BY <1>4
  <2> QED  BY <2>1
<1> QED  BY <1>3, <1>4

\* A batch whose requests, outcome and place with the agent a step leaves alone.
BatchPart(b) == /\ finished[b] = Cardinality(good \cap Members[b])
                /\ Owes(b) \/ Owed(b)

LEMMA OtherBatch ==
    ASSUME TypeOK, NEW b \in Batches, BatchPart(b),
           \A r \in Members[b] : status'[r] = status[r] /\ (r \in good' <=> r \in good),
           finished'[b] = finished[b], told'[b] = told[b],
           b \in retained' <=> b \in retained, b \in blocks' <=> b \in blocks,
           b \in stopped' <=> b \in stopped
    PROVE  BatchPart(b)'
<1>1. good' \cap Members[b] = good \cap Members[b]
  OBVIOUS
<1>2. finished'[b] = Cardinality(good' \cap Members[b])
  BY <1>1 DEF BatchPart
<1>3. Owes(b) => Owes(b)'
  BY DEF Owes
<1>4. Owed(b) => Owed(b)'
  BY DEF Owed, Started
<1> QED  BY <1>2, <1>3, <1>4 DEF BatchPart

LEMMA StartKeeps ==
    ASSUME TypeOK, BatchInv, NEW b \in Batches, Start(b)
    PROVE  BatchInv'
<1>1. \A r \in good' : status'[r] = "answered"
  BY OthersApart DEF BatchInv, Start, Started, TypeOK, Statuses
<1>2. BatchPart(b)'
  <2>1. Owed(b)
    BY MembersAssumption DEF BatchInv, Start, Started, Owes
  <2>2. Owes(b)'
    BY <2>1, MembersAssumption DEF Start, Owes, Owed, TypeOK
  <2> QED  BY <2>2 DEF BatchPart, BatchInv, Start
<1>3. ASSUME NEW c \in Batches, c # b PROVE BatchPart(c)'
  <2>1. BatchPart(c)  BY DEF BatchPart, BatchInv
  <2>2. \A r \in Members[c] : r \in Requests /\ r \notin Members[b]
    BY <1>3, OthersApart
  <2> QED  BY <1>3, <2>1, <2>2, OtherBatch DEF Start, TypeOK
<1> QED  BY <1>1, <1>2, <1>3 DEF BatchInv, BatchPart

LEMMA StopKeeps ==
    ASSUME TypeOK, BatchInv, NEW b \in Batches, Stop(b)
    PROVE  BatchInv'
<1>1. \A r \in good' : status'[r] = "answered"
  BY DEF BatchInv, Stop, StopRequests, TypeOK
<1>2. BatchPart(b)'
  <2>1. \A r \in Members[b] : status'[r] # "pending"
    BY MembersAssumption DEF Stop, StopRequests, TypeOK
  <2>2. Started(b)'
    BY MembersAssumption DEF Stop, Started, StopRequests, TypeOK
  <2>3. /\ told[b] \in {<<>>, <<"success">>, <<"failure">>}
        /\ told[b] = <<"success">> => Members[b] \subseteq good
    BY TellingsDiffer DEF BatchInv, Owes, Owed
  <2>4. Owed(b)'
    BY <2>1, <2>2, <2>3 DEF Stop, Owed
  <2> QED  BY <2>4 DEF BatchPart, BatchInv, Stop
<1>3. ASSUME NEW c \in Batches, c # b PROVE BatchPart(c)'
  <2>1. BatchPart(c)  BY DEF BatchPart, BatchInv
  <2>2. \A r \in Members[c] : r \in Requests /\ r \notin Members[b]
    BY <1>3, OthersApart
  <2> QED  BY <1>3, <2>1, <2>2, OtherBatch DEF Stop, StopRequests, TypeOK
<1> QED  BY <1>1, <1>2, <1>3 DEF BatchInv, BatchPart

LEMMA FailedKeeps ==
    ASSUME TypeOK, BatchInv, NEW b \in Batches, NEW r \in Members[b],
           RequestFailed(b, r)
    PROVE  BatchInv'
<1>0. r \in Requests /\ status[r] = "pending" /\ r \notin good
  BY MembersAssumption DEF RequestFailed, BatchInv
<1>o. Owes(b)  BY <1>0 DEF BatchInv, Owed
<1>1. \A s \in good' : status'[s] = "answered"
  BY DEF BatchInv, RequestFailed, StopRequests, TypeOK
<1>2. BatchPart(b)'
  <2>1. \A s \in Members[b] : status'[s] # "pending"
    BY MembersAssumption DEF RequestFailed, StopRequests, TypeOK
  <2>2. Started(b)'
    BY <1>0 DEF RequestFailed, Started, StopRequests, TypeOK
  <2>3. told'[b] = <<"failure">> /\ b \notin retained' \cup blocks'
    BY <1>o DEF RequestFailed, Settle, Owes, TypeOK
  <2>4. Owed(b)'
    BY <2>1, <2>2, <2>3 DEF Owed
  <2> QED  BY <2>4 DEF BatchPart, BatchInv, RequestFailed
<1>3. ASSUME NEW c \in Batches, c # b PROVE BatchPart(c)'
  <2>1. BatchPart(c)  BY DEF BatchPart, BatchInv
  <2>2. \A s \in Members[c] : s \in Requests /\ s \notin Members[b]
    BY <1>3, OthersApart
  <2>3. \A s \in Members[c] : status'[s] = status[s]
    BY <2>2 DEF RequestFailed, StopRequests, TypeOK
  <2> QED  BY <1>3, <2>1, <2>3, OtherBatch DEF RequestFailed, Settle, TypeOK
<1> QED  BY <1>1, <1>2, <1>3 DEF BatchInv, BatchPart

LEMMA FinishedKeeps ==
    ASSUME TypeOK, BatchInv, NEW b \in Batches, NEW r \in Members[b],
           RequestFinished(b, r)
    PROVE  BatchInv'
<1>0. r \in Requests /\ status[r] = "pending" /\ r \notin good
  BY MembersAssumption DEF RequestFinished, BatchInv
<1>o. Owes(b)  BY <1>0 DEF BatchInv, Owed
<1>n. /\ good' = good \cup {r}
      /\ status' = [status EXCEPT ![r] = "answered"]
      /\ stopped' = stopped
  BY DEF RequestFinished
<1>1. \A s \in good' : status'[s] = "answered"
  <2>1. status'[r] = "answered"
    BY <1>0, <1>n DEF TypeOK
  <2>2. ASSUME NEW s \in good, s # r PROVE status'[s] = "answered"
    <3>1. status[s] = "answered"
      BY DEF BatchInv
    <3> QED
      BY <1>n, <2>2, <3>1 DEF TypeOK
  <2> QED
    BY <1>n, <2>1, <2>2
<1>c. finished'[b] = Cardinality(good' \cap Members[b])
  <2>1. finished' = [finished EXCEPT ![b] = @ + 1] /\ finished'[b] = finished[b] + 1
    BY DEF RequestFinished, TypeOK
  <2>2. finished[b] = Cardinality(good \cap Members[b])
    BY DEF BatchInv
  <2>3. Cardinality(good' \cap Members[b]) = Cardinality(good \cap Members[b]) + 1
    BY <1>0, <1>n, OneMore
  <2> QED
    BY <2>1, <2>2, <2>3
<1>d. finished[b] + 1 = Cardinality(Members[b]) <=> Members[b] \subseteq good'
  <2>1. finished'[b] = finished[b] + 1
    BY DEF RequestFinished, TypeOK
  <2> QED  BY <2>1, <1>c, FullCount
<1>2. BatchPart(b)'
  <2>1. CASE Members[b] \subseteq good'
    <3>1. Settle(b, "success")
      BY <2>1, <1>d DEF RequestFinished
    <3>2. told'[b] = <<"success">> /\ b \notin retained' \cup blocks'
      BY <3>1, <1>o DEF Settle, Owes, TypeOK
    <3>3. \A s \in Members[b] : status'[s] = "answered"
      BY <2>1, <1>1
    <3>4. Owed(b)'
      BY <3>2, <3>3, <2>1, TellingsDiffer DEF Owed, Started
    <3> QED  BY <3>4, <1>c DEF BatchPart
  <2>2. CASE ~ (Members[b] \subseteq good')
    <3>1. UNCHANGED <<told, blocks, retained>>
      BY <2>2, <1>d DEF RequestFinished
    <3>2. \A s \in Members[b] : status'[s] = "pending" \/ s \in good'
      BY <1>0, <1>n, <1>o, MembersAssumption DEF Owes, TypeOK
    <3>3. Owes(b)'
      BY <3>1, <3>2, <2>2, <1>n, <1>o DEF Owes
    <3> QED  BY <3>3, <1>c DEF BatchPart
  <2> QED  BY <2>1, <2>2
<1>3. ASSUME NEW c \in Batches, c # b PROVE BatchPart(c)'
  <2>1. BatchPart(c)  BY DEF BatchPart, BatchInv
  <2>2. r \notin Members[c]
    BY <1>3, OthersApart
  <2>3. \A s \in Members[c] : status'[s] = status[s] /\ (s \in good' <=> s \in good)
    BY <2>2, <1>n, MembersAssumption DEF TypeOK
  <2>4. /\ told'[c] = told[c]
        /\ c \in retained' <=> c \in retained
        /\ c \in blocks' <=> c \in blocks
    BY <1>3 DEF RequestFinished, Settle, TypeOK
  <2>5. finished'[c] = finished[c]
    BY <1>3 DEF RequestFinished, TypeOK
  <2> QED  BY <2>1, <2>3, <2>4, <2>5, <1>n, OtherBatch
<1> QED  BY <1>1, <1>2, <1>3 DEF BatchInv, BatchPart

\* Every batch either owes its outcome, and is all there to give it, or owes
\* nothing, and nothing is left of it.
THEOREM BatchesCorrect == Spec => []BatchInv
<1>1. Init => BatchInv
  <2> SUFFICES ASSUME Init PROVE BatchInv
    OBVIOUS
  <2>1. \A b \in Batches : good \cap Members[b] = {}
    BY DEF Init
  <2>2. Cardinality({}) = 0
    BY FS_EmptySet
  <2>3. \A b \in Batches : \A r \in Members[b] : status[r] = "idle"
    BY MembersAssumption DEF Init
  <2> QED  BY <2>1, <2>2, <2>3 DEF Init, BatchInv, Owed, Started
<1>2. TypeOK /\ BatchInv /\ [Next]_batchVars => BatchInv'
  <2> SUFFICES ASSUME TypeOK, BatchInv, [Next]_batchVars PROVE BatchInv'
    OBVIOUS
  <2>1. CASE UNCHANGED batchVars
    BY <2>1 DEF batchVars, BatchInv, Owes, Owed, Started
  <2>2. CASE Next
    BY <2>2, StartKeeps, StopKeeps, FailedKeeps, FinishedKeeps DEF Next
  <2> QED  BY <2>1, <2>2
<1> QED  BY <1>1, <1>2, BatchTypeCorrect, PTL DEF Spec

-----------------------------------------------------------------------------
(* What follows from it.                                                   *)

\* A success is told only when every request has answered with success.
THEOREM SuccessIsWhole == Spec => []SuccessMeansAll
<1>1. BatchInv => SuccessMeansAll
  <2> SUFFICES ASSUME BatchInv, NEW b \in Batches,
                      NEW k \in DOMAIN told[b], told[b][k] = "success"
               PROVE  Members[b] \subseteq good
    BY DEF SuccessMeansAll
  <2>1. told[b] \in {<<>>, <<"success">>, <<"failure">>}
        /\ (told[b] = <<"success">> => Members[b] \subseteq good)
    BY TellingsDiffer DEF BatchInv, Owes, Owed
  <2>2. told[b] # <<>> /\ told[b] # <<"failure">>
    OBVIOUS
  <2> QED  BY <2>1, <2>2
<1> QED  BY <1>1, BatchesCorrect, PTL

\* Once a batch has told its outcome or was stopped no request is left to
\* answer.
THEOREM SettledIsQuiet == Spec => []QuietOnceSettled
<1>1. BatchInv => QuietOnceSettled
  BY DEF BatchInv, Owes, Owed, QuietOnceSettled
<1> QED  BY <1>1, BatchesCorrect, PTL

\* The agent retains a batch exactly as long as it owes an outcome.
LEMMA PendingIsRetained ==
    ASSUME BatchInv, TypeOK, NEW b \in Batches
    PROVE  BatchStatus[b] = "pending" <=> b \in retained
<1>1. Owes(b) => Started(b)
  BY DEF Owes, Started
<1>2. Owes(b) \/ Owed(b)
  BY DEF BatchInv
<1> QED  BY <1>1, <1>2 DEF Owes, Owed, BatchStatus

THEOREM RetainedUntilThen == Spec => []RetainedWhilePending
<1>1. BatchInv /\ TypeOK => RetainedWhilePending
  BY PendingIsRetained DEF RetainedWhilePending, TypeOK
<1> QED  BY <1>1, BatchesCorrect, BatchTypeCorrect, PTL

\* A batch keeps the promise its requests keep.
THEOREM BatchKeepsPromise == Spec => KeepsPromise
<1>1. Init => Promise!Init
  BY MembersAssumption DEF Init, Promise!Init, BatchStatus, Started
<1>2. TypeOK /\ BatchInv /\ BatchInv' /\ [Next]_batchVars
        => [Promise!Next]_BatchStatus
  <2> SUFFICES ASSUME TypeOK, BatchInv, BatchInv', [Next]_batchVars
               PROVE  Promise!Next \/ BatchStatus' = BatchStatus
    OBVIOUS
  <2>s. BatchStatus' \in [Batches -> Promise!Status]
    BY DEF BatchStatus, Promise!Status
  <2>u. CASE UNCHANGED batchVars
    BY <2>u DEF batchVars, BatchStatus, Started
  <2>n. CASE Next
    <3>1. ASSUME NEW c \in Batches
          PROVE  \/ BatchStatus'[c] = BatchStatus[c]
                 \/ <<BatchStatus[c], BatchStatus'[c]>> \in Promise!Moves
      <4>1. PICK b \in Batches :
                \/ Start(b) \/ Stop(b)
                \/ \E r \in Members[b] : RequestFinished(b, r) \/ RequestFailed(b, r)
        BY <2>n DEF Next
      <4>2. CASE c # b
        <5>1. \A r \in Members[c] : r \in Requests /\ r \notin Members[b]
          BY <4>2, OthersApart
        <5>2. \A r \in Members[c] : status'[r] = status[r]
          BY <4>1, <5>1 DEF Start, Stop, RequestFinished, RequestFailed,
                            StopRequests, TypeOK
        <5>3. told'[c] = told[c] /\ (c \in stopped' <=> c \in stopped)
          BY <4>1, <4>2 DEF Start, Stop, RequestFinished, RequestFailed, Settle,
                            TypeOK
        <5> QED  BY <5>2, <5>3 DEF BatchStatus, Started
      <4>3. CASE c = b /\ Start(b)
        <5>1. ~ Started(b) /\ Started(b)'
          BY <4>3, MembersAssumption DEF Start, Started, TypeOK
        <5>2. told'[b] = <<>> /\ b \notin stopped'
          BY <4>3, <5>1 DEF Start, BatchInv, Owes, Owed
        <5> QED  BY <4>3, <5>1, <5>2 DEF BatchStatus, Promise!Moves
      <4>4. CASE c = b /\ Stop(b)
        <5>1. Started(b) /\ Started(b)'
          BY <4>4, MembersAssumption DEF Stop, Started, StopRequests, TypeOK
        <5>2. told' = told /\ b \notin stopped /\ b \in stopped'
          BY <4>4 DEF Stop
        <5> QED  BY <4>4, <5>1, <5>2 DEF BatchStatus, Promise!Moves
      <4>5. ASSUME NEW r \in Members[b], c = b,
                   RequestFinished(b, r) \/ RequestFailed(b, r)
            PROVE  BatchStatus[c] = "pending"
                   /\ BatchStatus'[c] \in {"pending", "answered"}
        <5>1. status[r] = "pending" /\ r \in Requests
          BY <4>5, MembersAssumption DEF RequestFinished, RequestFailed
        <5>2. Owes(b)
          BY <5>1 DEF BatchInv, Owed
        <5>3. Started(b) /\ Started(b)'
          BY <4>5, <5>1 DEF RequestFinished, RequestFailed, StopRequests,
                            Started, TypeOK
        <5>4. b \notin stopped'
          BY <4>5, <5>2 DEF RequestFinished, RequestFailed, Owes
        <5> QED  BY <4>5, <5>2, <5>3, <5>4 DEF BatchStatus, Owes
      <4> QED  BY <4>1, <4>2, <4>3, <4>4, <4>5 DEF Promise!Moves
    <3> QED  BY <2>s, <3>1 DEF Promise!Next
  <2> QED  BY <2>u, <2>n
<1> QED
  BY <1>1, <1>2, BatchTypeCorrect, BatchesCorrect, PTL
     DEF Spec, KeepsPromise, Promise!Spec
-----------------------------------------------------------------------------
\* What the code of a batch does to its requests, seen by each of them.
LEMMA RequestsMove ==
    ASSUME TypeOK, [Next]_batchVars, NEW r \in Requests
    PROVE  status'[r] = status[r] \/ <<status[r], status'[r]>> \in RequestsPromise!Moves
<1> USE DEF TypeOK, Statuses, RequestsPromise!Moves
<1>1. ASSUME NEW b \in Batches, Start(b)
      PROVE  status'[r] = status[r] \/ <<status[r], status'[r]>> \in RequestsPromise!Moves
  BY <1>1 DEF Start, Started
<1>2. ASSUME NEW b \in Batches, Stop(b)
      PROVE  status'[r] = status[r] \/ <<status[r], status'[r]>> \in RequestsPromise!Moves
  BY <1>2 DEF Stop, StopRequests
<1>3. ASSUME NEW b \in Batches, NEW s \in Members[b], RequestFinished(b, s)
      PROVE  status'[r] = status[r] \/ <<status[r], status'[r]>> \in RequestsPromise!Moves
  BY <1>3 DEF RequestFinished
<1>4. ASSUME NEW b \in Batches, NEW s \in Members[b], RequestFailed(b, s)
      PROVE  status'[r] = status[r] \/ <<status[r], status'[r]>> \in RequestsPromise!Moves
  BY <1>4 DEF RequestFailed, StopRequests
<1>5. CASE UNCHANGED batchVars
  BY <1>5 DEF batchVars
<1> QED  BY <1>1, <1>2, <1>3, <1>4, <1>5 DEF Next

\* A batch starts each of its requests at most once, and neither stops nor
\* hears one that has answered (start, requestFailed, clearRequest).
THEOREM BatchUsesRequests == Spec => UsesRequestsAsPromised
<1>1. Init => RequestsPromise!Init
  BY DEF Init, RequestsPromise!Init
<1>2. TypeOK /\ TypeOK' /\ [Next]_batchVars => [RequestsPromise!Next]_status
  BY RequestsMove DEF RequestsPromise!Next, RequestsPromise!Status, TypeOK, Statuses
<1> QED  BY <1>1, <1>2, BatchTypeCorrect, PTL
         DEF Spec, UsesRequestsAsPromised, RequestsPromise!Spec
=============================================================================
