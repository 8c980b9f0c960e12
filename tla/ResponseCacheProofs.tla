------------------------ MODULE ResponseCacheProofs -------------------------
(***************************************************************************)
(* Proofs about ResponseCache: what the order of the two writes of a save  *)
(* is worth, for any requests, identities and times, and ends of the       *)
(* process at any point, as long as no object goes astray: is not started  *)
(* again before its saves are done, not loaded in flight, and is written.  *)
(***************************************************************************)
EXTENDS ResponseCache, TLAPS

LEMMA NothingIsNoResponse == Nothing \notin Responses /\ Nothing \notin Requests
BY CacheAssumption

-----------------------------------------------------------------------------
(* Type correctness.                                                       *)

LEMMA InitType == Init => TypeOK
<1> SUFFICES ASSUME Init PROVE TypeOK
  OBVIOUS
<1>1. astray \in BOOLEAN
  BY DEF Init
<1>2. saves \in Seq(Requests)
  BY DEF Init
<1> QED BY <1>1, <1>2 DEF Init, TypeOK, Everyone

\* What the start of the base class leaves well typed.
LEMMA ToTheServerType ==
    ASSUME TypeOK, NEW r \in Requests, ToTheServer(r)
    PROVE  /\ task' \in [Requests -> {"none", "flight", "arrived"}]
           /\ body' \in [Requests -> Responses \cup {Nothing}]
           /\ cached' \in [Requests -> Responses \cup {Nothing}]
           /\ fromCache' \in [Requests -> BOOLEAN]
           /\ posted' \subseteq Requests
BY DEF TypeOK, ToTheServer

LEMMA CallType ==
    ASSUME TypeOK, NEW r \in Requests, Call(r)
    PROVE  served' \in [by : Requests, data : Responses \cup {Nothing},
                        told : BOOLEAN, cache : BOOLEAN, at : Nat] \cup {Nothing}
BY DEF TypeOK, Call

LEMMA ResponseType ==
    ASSUME TypeOK, NEW r \in Requests
    PROVE  [of |-> Identity[r], at |-> clock] \in Responses
BY CacheAssumption DEF TypeOK, Responses

LEMMA AstrayType ==
    ASSUME NEW r \in Requests, Start(r) \/ StartWithoutCache(r) \/ LoadCache(r)
    PROVE  astray' \in BOOLEAN
<1>1. astray' = (astray \/ BeingSaved(r)) \/ astray' = (astray \/ (BeingSaved(r) \/ ~ MayStart(r)))
  BY DEF Start, StartWithoutCache, LoadCache, GoesAstray
<1> QED BY <1>1

LEMMA NextType == TypeOK /\ [Next]_vars => TypeOK'
<1> SUFFICES ASSUME TypeOK, [Next]_vars PROVE TypeOK'
  OBVIOUS
<1>1. ASSUME NEW r \in Requests, Start(r) PROVE TypeOK'
  <2>1. CASE Valid(r)
    <3>4. loading' = [by |-> r, starts |-> TRUE]
      BY <1>1, <2>1 DEF Start
    <3>1. loading' \in [by : Requests, starts : BOOLEAN]
      BY <3>4, Zenon
    <3>2. UNCHANGED <<task, posted, body, cached, fromCache, clock, dataFile, metaFile>>
      BY <1>1, <2>1 DEF Start, files, object
    <3>3. UNCHANGED <<saves, writing, served>> /\ waits' = waits \cup {r}
      BY <1>1 DEF Start
    <3> QED BY <1>1, <3>1, <3>2, <3>3, AstrayType DEF TypeOK
  <2>2. CASE ~ Valid(r)
    <3>1. ToTheServer(r) /\ waits' = waits \cup {r}
          /\ UNCHANGED <<clock, dataFile, metaFile, loading, saves, writing, served>>
      BY <1>1, <2>2 DEF Start, files
    <3> QED BY <1>1, <3>1, ToTheServerType, AstrayType DEF TypeOK
  <2> QED BY <2>1, <2>2
<1>2. ASSUME NEW r \in Requests, StartWithoutCache(r) PROVE TypeOK'
  <2>1. ToTheServer(r) /\ waits' = waits \cup {r}
        /\ UNCHANGED <<clock, dataFile, metaFile, loading, saves, writing, served>>
    BY <1>2 DEF StartWithoutCache, files
  <2> QED BY <1>2, <2>1, ToTheServerType, AstrayType DEF TypeOK
<1>3. ASSUME NEW r \in Requests, LoadCache(r) PROVE TypeOK'
  <2>1. loading' \in [by : Requests, starts : BOOLEAN]
        /\ UNCHANGED <<clock, dataFile, metaFile, waits, task, posted, body, cached,
                       fromCache, saves, writing, served>>
    BY <1>3 DEF LoadCache, files, object
  <2> QED BY <1>3, <2>1, AstrayType DEF TypeOK
<1>4. ASSUME NEW r \in Requests, Stop(r) PROVE TypeOK'
  BY <1>4 DEF TypeOK, Stop, files, object
<1>5. ASSUME NEW r \in Requests, Respond(r) PROVE TypeOK'
  <2>1. saves' \in Seq(Requests)
    BY <1>5 DEF TypeOK, Respond
  <2>2. body' \in [Requests -> Responses \cup {Nothing}]
    BY <1>5, ResponseType DEF TypeOK, Respond
  <2> QED BY <1>5, <2>1, <2>2 DEF TypeOK, Respond, files
<1>6. ASSUME NEW r \in Requests, Fail(r) PROVE TypeOK'
  BY <1>6 DEF TypeOK, Fail, files, object
<1>7. ASSUME NEW r \in Requests, Deliver(r) PROVE TypeOK'
  BY <1>7, CallType DEF TypeOK, Deliver, files, object
<1>8. ASSUME NEW r \in Requests, DeliverCached(r) PROVE TypeOK'
  <2>1. saves' \in Seq(Requests)
    BY <1>8 DEF TypeOK, DeliverCached
  <2> QED BY <1>8, <2>1, CallType DEF TypeOK, DeliverCached, files, object
<1>9. CASE LoadData
  <2>1. loading.by \in Requests /\ loading.starts \in BOOLEAN
    BY <1>9 DEF LoadData, TypeOK
  <2>2. CASE dataFile = Nothing /\ loading.starts
    BY <1>9, <2>1, <2>2, ToTheServerType DEF TypeOK, LoadData, files
  <2>3. CASE dataFile = Nothing /\ ~ loading.starts
    BY <1>9, <2>1, <2>3 DEF TypeOK, LoadData, files, object
  <2>4. CASE dataFile # Nothing
    <3>1. cached' \in [Requests -> Responses \cup {Nothing}]
      BY <1>9, <2>1, <2>4 DEF TypeOK, LoadData
    <3>2. fromCache' \in [Requests -> BOOLEAN] /\ posted' \subseteq Requests
      <4>1. CASE loading.starts
        <5>1. fromCache' = [fromCache EXCEPT ![loading.by] = TRUE]
              /\ posted' = posted \cup {loading.by}
          BY <1>9, <2>4, <4>1 DEF LoadData
        <5> QED BY <2>1, <5>1 DEF TypeOK
      <4>2. CASE ~ loading.starts
        BY <1>9, <2>4, <4>2 DEF TypeOK, LoadData
      <4> QED BY <4>1, <4>2
    <3>3. UNCHANGED <<task, body, clock, dataFile, metaFile, waits, saves, writing, served,
                    astray>>
      BY <1>9, <2>4 DEF LoadData, files
    <3>4. loading' = Nothing
      BY <1>9 DEF LoadData
    <3> QED BY <3>1, <3>2, <3>3, <3>4 DEF TypeOK
  <2> QED BY <2>2, <2>3, <2>4
<1>10. CASE SaveData
  <2>1. saves \in Seq(Requests) /\ saves # <<>> /\ saves' = Tail(saves)
    BY <1>10 DEF TypeOK, SaveData
  <2>3. saves' \in Seq(Requests) /\ Head(saves) \in Requests
    BY <2>1
  <2>2. dataFile' \in Responses \cup {Nothing} /\ writing' \in Requests \cup {Nothing}
    BY <1>10, <2>3 DEF TypeOK, SaveData, WriteData
  <2>4. astray' \in BOOLEAN
    <3>1. astray' = astray \/ astray' = TRUE
      BY <1>10 DEF SaveData, WriteData
    <3> QED BY <3>1 DEF TypeOK
  <2> QED BY <1>10, <2>3, <2>2, <2>4 DEF TypeOK, SaveData, object
<1>11. CASE SaveMetadata
  <2>1. writing \in Requests
    BY <1>11 DEF TypeOK, SaveMetadata
  <2>2. metaFile' \in Responses
    BY <1>11, <2>1, ResponseType DEF SaveMetadata
  <2> QED BY <1>11, <2>2 DEF TypeOK, SaveMetadata, object
<1>12. CASE Tick
  BY <1>12 DEF TypeOK, Tick, files, object
<1>13. CASE Crash
  BY <1>13 DEF TypeOK, Crash, files, Everyone
<1>14. CASE UNCHANGED vars
  BY <1>14 DEF TypeOK, vars
<1> QED
  BY <1>1, <1>2, <1>3, <1>4, <1>5, <1>6, <1>7, <1>8, <1>9, <1>10, <1>11, <1>12,
     <1>13, <1>14 DEF Next

\* The state is well formed, whatever the client does with the object and
\* whether files can be written or not (all of YTKRequest.m).
THEOREM CacheTypeCorrect == Spec => []TypeOK
BY InitType, NextType, PTL DEF Spec

-----------------------------------------------------------------------------
(* The invariant.                                                          *)

LEMMA InitInv == Init => CacheInv
BY DEF Init, CacheInv, DataAreAsNew, Everyone

\* The parts of CacheInv, as operators of the proof.
SavesReady ==
    \A k \in DOMAIN saves :
        \/ fromCache[saves[k]]
        \/ body[saves[k]] = Nothing
        \/ body[saves[k]].at = clock

LoadingReady ==
    loading # Nothing =>
        /\ dataFile # Nothing /\ clock - dataFile.at <= Life
        /\ task[loading.by] = "none" /\ loading.by \notin posted

PostedReady ==
    \A r \in posted :
        /\ task[r] = "none" /\ fromCache[r]
        /\ cached[r] # Nothing /\ clock - cached[r].at <= Life

TasksReady ==
    /\ \A r \in Requests : task[r] # "none" => cached[r] = Nothing /\ ~ fromCache[r]
    /\ \A r \in Requests : task[r] = "arrived" => body[r] # Nothing

MetaNotAhead == metaFile # Nothing => metaFile.at <= clock

ServedWell ==
    served # Nothing =>
        /\ served.data # Nothing
        /\ served.told <=> served.cache
        /\ served.cache => served.at - served.data.at <= Life

LEMMA Parts ==
    CacheInv <=> /\ DataAreAsNew /\ MetaNotAhead /\ SavesReady /\ LoadingReady
                 /\ PostedReady /\ TasksReady /\ ServedWell
BY DEF CacheInv, MetaNotAhead, SavesReady, LoadingReady, PostedReady, TasksReady, ServedWell

\* A request goes to the server only when nothing of it is to be saved or posted.
LEMMA ToTheServerInv ==
    ASSUME TypeOK, SavesReady, PostedReady, TasksReady,
           NEW r \in Requests, ToTheServer(r),
           r \notin posted, \A k \in DOMAIN saves : saves[k] # r,
           UNCHANGED <<saves, clock>>
    PROVE  SavesReady' /\ PostedReady' /\ TasksReady'
<1>1. /\ cached' = [cached EXCEPT ![r] = Nothing]
      /\ fromCache' = [fromCache EXCEPT ![r] = FALSE]
      /\ task' = [task EXCEPT ![r] = "flight"]
      /\ body' = body /\ posted' = posted
  BY DEF ToTheServer
<1>2. SavesReady'
  BY <1>1 DEF TypeOK, SavesReady
<1>3. PostedReady'
  BY <1>1 DEF TypeOK, PostedReady
<1>4. TasksReady'
  BY <1>1 DEF TypeOK, TasksReady
<1> QED BY <1>2, <1>3, <1>4

\* What a save of r that is posted now adds.
LEMMA AppendSave ==
    ASSUME TypeOK, NEW r \in Requests, saves' = Append(saves, r)
    PROVE  \A k \in DOMAIN saves' :
              \/ k \in DOMAIN saves /\ saves'[k] = saves[k]
              \/ saves'[k] = r
BY DEF TypeOK

LEMMA TailSave ==
    ASSUME TypeOK, saves # <<>>, saves' = Tail(saves)
    PROVE  \A k \in DOMAIN saves' : k + 1 \in DOMAIN saves /\ saves'[k] = saves[k + 1]
BY DEF TypeOK

LEMMA ValidFresh ==
    ASSUME TypeOK, DataAreAsNew, NEW r \in Requests, Valid(r)
    PROVE  dataFile # Nothing /\ clock - dataFile.at <= Life
<1>1. metaFile \in Responses /\ dataFile \in Responses /\ dataFile # Nothing
  BY NothingIsNoResponse DEF TypeOK, DataAreAsNew, Valid
<1>2. metaFile.at \in Nat /\ dataFile.at \in Nat
  BY <1>1 DEF Responses
<1>3. clock - metaFile.at <= Life /\ dataFile.at >= metaFile.at
  BY <1>1 DEF Valid, DataAreAsNew
<1>4. clock \in Nat /\ Life \in Nat
  BY CacheAssumption DEF TypeOK
<1> QED BY <1>1, <1>2, <1>3, <1>4

\* What a start or a load of the client needs to know of the object.
LEMMA MayStartIdle ==
    ASSUME TypeOK, NEW r \in Requests, MayStart(r), ~ BeingSaved(r)
    PROVE  /\ loading = Nothing /\ r \notin posted /\ task[r] = "none"
           /\ \A k \in DOMAIN saves : saves[k] # r
BY DEF BeingSaved, MayStart

LEMMA NextInv == ~ astray' /\ TypeOK /\ CacheInv /\ [Next]_vars => CacheInv'
<1> SUFFICES ASSUME ~ astray', TypeOK, CacheInv, [Next]_vars PROVE CacheInv'
  OBVIOUS
<1>p. /\ DataAreAsNew /\ MetaNotAhead /\ SavesReady /\ LoadingReady
      /\ PostedReady /\ TasksReady /\ ServedWell
  BY Parts
<1>s. SUFFICES /\ DataAreAsNew' /\ MetaNotAhead' /\ SavesReady' /\ LoadingReady'
               /\ PostedReady' /\ TasksReady' /\ ServedWell'
  BY DEF CacheInv, MetaNotAhead, SavesReady, LoadingReady, PostedReady, TasksReady,
         ServedWell, DataAreAsNew
<1>1. ASSUME NEW r \in Requests, Start(r)
      PROVE  /\ DataAreAsNew' /\ MetaNotAhead' /\ SavesReady' /\ LoadingReady'
             /\ PostedReady' /\ TasksReady' /\ ServedWell'
  <2>0. /\ MayStart(r) /\ ~ BeingSaved(r)
        /\ UNCHANGED <<clock, dataFile, metaFile, saves, writing, served>>
    BY <1>1 DEF Start, GoesAstray, files
  <2>1. /\ loading = Nothing /\ r \notin posted /\ task[r] = "none"
        /\ \A k \in DOMAIN saves : saves[k] # r
    BY <2>0, MayStartIdle
  <2>2. DataAreAsNew' /\ MetaNotAhead' /\ ServedWell'
    BY <1>p, <2>0 DEF DataAreAsNew, MetaNotAhead, ServedWell
  <2>3. CASE Valid(r)
    <3>1. /\ loading' = [by |-> r, starts |-> TRUE]
          /\ UNCHANGED <<task, posted, body, cached, fromCache>>
      BY <1>1, <2>3 DEF Start, object
    <3>2. LoadingReady'
      <4>1. loading'.by = r
        BY <3>1
      <4>2. dataFile # Nothing /\ clock - dataFile.at <= Life
        BY <1>p, <2>3, ValidFresh
      <4> QED BY <2>0, <2>1, <3>1, <4>1, <4>2 DEF LoadingReady
    <3>3. SavesReady' /\ PostedReady' /\ TasksReady'
      BY <1>p, <2>0, <3>1 DEF SavesReady, PostedReady, TasksReady
    <3> QED BY <2>2, <3>2, <3>3
  <2>4. CASE ~ Valid(r)
    <3>1. ToTheServer(r) /\ loading' = loading
      BY <1>1, <2>4 DEF Start
    <3>2. SavesReady' /\ PostedReady' /\ TasksReady'
      BY <1>p, <2>0, <2>1, <3>1, ToTheServerInv
    <3>3. LoadingReady'
      BY <2>1, <3>1 DEF LoadingReady
    <3> QED BY <2>2, <3>2, <3>3
  <2> QED BY <2>3, <2>4
<1>2. ASSUME NEW r \in Requests, StartWithoutCache(r)
      PROVE  /\ DataAreAsNew' /\ MetaNotAhead' /\ SavesReady' /\ LoadingReady'
             /\ PostedReady' /\ TasksReady' /\ ServedWell'
  <2>0. /\ MayStart(r) /\ ~ BeingSaved(r) /\ ToTheServer(r)
        /\ UNCHANGED <<clock, dataFile, metaFile, loading, saves, writing, served>>
    BY <1>2 DEF StartWithoutCache, GoesAstray, files
  <2>1. /\ loading = Nothing /\ r \notin posted
        /\ \A k \in DOMAIN saves : saves[k] # r
    BY <2>0, MayStartIdle
  <2>2. DataAreAsNew' /\ MetaNotAhead' /\ ServedWell' /\ LoadingReady'
    BY <1>p, <2>0, <2>1 DEF DataAreAsNew, MetaNotAhead, ServedWell, LoadingReady
  <2>3. SavesReady' /\ PostedReady' /\ TasksReady'
    BY <1>p, <2>0, <2>1, ToTheServerInv
  <2> QED BY <2>2, <2>3
<1>3. ASSUME NEW r \in Requests, LoadCache(r)
      PROVE  /\ DataAreAsNew' /\ MetaNotAhead' /\ SavesReady' /\ LoadingReady'
             /\ PostedReady' /\ TasksReady' /\ ServedWell'
  <2>0. /\ MayStart(r) /\ ~ BeingSaved(r) /\ Valid(r)
        /\ loading' = [by |-> r, starts |-> FALSE]
        /\ UNCHANGED <<clock, dataFile, metaFile, task, posted, body, cached,
                       fromCache, saves, writing, served>>
    BY <1>3 DEF LoadCache, GoesAstray, files, object
  <2>1. r \notin posted /\ task[r] = "none"
    BY <2>0, MayStartIdle
  <2>2. dataFile # Nothing /\ clock - dataFile.at <= Life
    BY <1>p, <2>0, ValidFresh
  <2>3. LoadingReady'
    BY <2>0, <2>1, <2>2 DEF LoadingReady
  <2> QED BY <1>p, <2>0, <2>3 DEF DataAreAsNew, MetaNotAhead, SavesReady,
             PostedReady, TasksReady, ServedWell
<1>4. ASSUME NEW r \in Requests, Stop(r)
      PROVE  /\ DataAreAsNew' /\ MetaNotAhead' /\ SavesReady' /\ LoadingReady'
             /\ PostedReady' /\ TasksReady' /\ ServedWell'
  <2>0. /\ loading = Nothing
        /\ task' = [task EXCEPT ![r] = IF @ = "flight" THEN "none" ELSE @]
        /\ UNCHANGED <<clock, dataFile, metaFile, posted, body, cached, fromCache,
                       loading, saves, writing, served>>
    BY <1>4 DEF Stop, files, object
  <2>1. PostedReady' /\ TasksReady'
    BY <1>p, <2>0 DEF TypeOK, PostedReady, TasksReady
  <2> QED BY <1>p, <2>0, <2>1 DEF DataAreAsNew, MetaNotAhead, SavesReady,
             LoadingReady, ServedWell
<1>5. ASSUME NEW r \in Requests, Respond(r)
      PROVE  /\ DataAreAsNew' /\ MetaNotAhead' /\ SavesReady' /\ LoadingReady'
             /\ PostedReady' /\ TasksReady' /\ ServedWell'
  <2>0. /\ task[r] = "flight"
        /\ body' = [body EXCEPT ![r] = [of |-> Identity[r], at |-> clock]]
        /\ task' = [task EXCEPT ![r] = "arrived"]
        /\ saves' = Append(saves, r)
        /\ UNCHANGED <<clock, dataFile, metaFile, posted, cached, fromCache, loading,
                       writing, served>>
    BY <1>5 DEF Respond, files
  <2>1. body'[r] # Nothing /\ body'[r].at = clock
    BY <2>0, ResponseType, NothingIsNoResponse DEF TypeOK
  <2>2. \A x \in Requests \ {r} : body'[x] = body[x] /\ task'[x] = task[x]
    BY <2>0 DEF TypeOK
  <2>3. SavesReady'
    <3> SUFFICES ASSUME NEW k \in DOMAIN saves'
                 PROVE  \/ fromCache[saves'[k]]
                        \/ body'[saves'[k]] = Nothing
                        \/ body'[saves'[k]].at = clock
      BY <2>0 DEF SavesReady
    <3>1. CASE saves'[k] = r
      BY <2>1, <3>1
    <3>2. CASE saves'[k] # r
      <4>1. k \in DOMAIN saves /\ saves'[k] = saves[k]
        BY <2>0, <3>2, AppendSave
      <4>2. saves[k] \in Requests \ {r}
        BY <3>2, <4>1 DEF TypeOK
      <4> QED BY <1>p, <2>2, <4>1, <4>2 DEF SavesReady
    <3> QED BY <3>1, <3>2
  <2>4. LoadingReady'
    BY <1>p, <2>0 DEF TypeOK, LoadingReady
  <2>5. PostedReady' /\ TasksReady'
    BY <1>p, <2>0, <2>1, <2>2 DEF TypeOK, PostedReady, TasksReady
  <2> QED BY <1>p, <2>0, <2>3, <2>4, <2>5 DEF DataAreAsNew, MetaNotAhead, ServedWell
<1>6. ASSUME NEW r \in Requests, Fail(r)
      PROVE  /\ DataAreAsNew' /\ MetaNotAhead' /\ SavesReady' /\ LoadingReady'
             /\ PostedReady' /\ TasksReady' /\ ServedWell'
  <2>0. /\ loading = Nothing /\ task' = [task EXCEPT ![r] = "none"]
        /\ UNCHANGED <<clock, dataFile, metaFile, posted, body, cached, fromCache,
                       loading, saves, writing, served>>
    BY <1>6 DEF Fail, files, object
  <2>1. PostedReady' /\ TasksReady'
    BY <1>p, <2>0 DEF TypeOK, PostedReady, TasksReady
  <2> QED BY <1>p, <2>0, <2>1 DEF DataAreAsNew, MetaNotAhead, SavesReady,
             LoadingReady, ServedWell
<1>7. ASSUME NEW r \in Requests, Deliver(r)
      PROVE  /\ DataAreAsNew' /\ MetaNotAhead' /\ SavesReady' /\ LoadingReady'
             /\ PostedReady' /\ TasksReady' /\ ServedWell'
  <2>0. /\ loading = Nothing /\ task[r] = "arrived" /\ Call(r)
        /\ task' = [task EXCEPT ![r] = "none"]
        /\ UNCHANGED <<clock, dataFile, metaFile, posted, body, cached, fromCache,
                       loading, saves, writing>>
    BY <1>7 DEF Deliver, files, object
  <2>1. PostedReady' /\ TasksReady'
    BY <1>p, <2>0 DEF TypeOK, PostedReady, TasksReady
  <2>2. cached[r] = Nothing /\ ~ fromCache[r] /\ body[r] # Nothing
    BY <1>p, <2>0 DEF TasksReady
  <2>3. ServedWell'
    <3>1. CASE r \in waits
      <4>1. /\ served'.data = body[r] /\ served'.told = FALSE /\ served'.cache = FALSE
        BY <2>0, <2>2, <3>1 DEF Call, TypeOK
      <4> QED BY <2>2, <4>1 DEF ServedWell
    <3>2. CASE r \notin waits
      BY <1>p, <2>0, <3>2 DEF Call, ServedWell
    <3> QED BY <3>1, <3>2
  <2> QED BY <1>p, <2>0, <2>1, <2>3 DEF DataAreAsNew, MetaNotAhead, SavesReady,
             LoadingReady
<1>8. ASSUME NEW r \in Requests, DeliverCached(r)
      PROVE  /\ DataAreAsNew' /\ MetaNotAhead' /\ SavesReady' /\ LoadingReady'
             /\ PostedReady' /\ TasksReady' /\ ServedWell'
  <2>0. /\ loading = Nothing /\ r \in posted /\ Call(r)
        /\ posted' = posted \ {r} /\ saves' = Append(saves, r)
        /\ UNCHANGED <<clock, dataFile, metaFile, task, body, cached, fromCache,
                       loading, writing>>
    BY <1>8 DEF DeliverCached, files, object
  <2>1. /\ fromCache[r] /\ cached[r] # Nothing /\ clock - cached[r].at <= Life
    BY <1>p, <2>0 DEF PostedReady
  <2>2. SavesReady'
    <3>1. \A k \in DOMAIN saves' :
             \/ k \in DOMAIN saves /\ saves'[k] = saves[k]
             \/ saves'[k] = r
      BY <2>0, AppendSave
    <3> QED BY <1>p, <2>0, <2>1, <3>1 DEF SavesReady
  <2>3. ServedWell'
    <3>1. CASE r \in waits
      <4>1. /\ served'.data = cached[r] /\ served'.told = fromCache[r]
            /\ served'.cache = TRUE /\ served'.at = clock
        BY <2>0, <2>1, <3>1 DEF Call
      <4> QED BY <2>1, <4>1 DEF ServedWell
    <3>2. CASE r \notin waits
      BY <1>p, <2>0, <3>2 DEF Call, ServedWell
    <3> QED BY <3>1, <3>2
  <2> QED BY <1>p, <2>0, <2>2, <2>3 DEF DataAreAsNew, MetaNotAhead, LoadingReady,
             PostedReady, TasksReady
<1>9. CASE LoadData
  <2>0. /\ loading # Nothing /\ loading' = Nothing
        /\ UNCHANGED <<clock, dataFile, metaFile, saves, writing, served>>
    BY <1>9 DEF LoadData, files
  <2>1. /\ loading.by \in Requests /\ task[loading.by] = "none"
        /\ dataFile # Nothing /\ clock - dataFile.at <= Life
    BY <1>p, <2>0 DEF TypeOK, LoadingReady
  <2>2. /\ cached' = [cached EXCEPT ![loading.by] = dataFile]
        /\ UNCHANGED <<task, body>>
    BY <1>9, <2>1 DEF LoadData
  <2>3. /\ cached'[loading.by] = dataFile
        /\ \A x \in Requests \ {loading.by} : cached'[x] = cached[x]
    BY <2>1, <2>2 DEF TypeOK
  <2>4. \/ /\ fromCache' = [fromCache EXCEPT ![loading.by] = TRUE]
           /\ posted' = posted \cup {loading.by}
        \/ fromCache' = fromCache /\ posted' = posted
    BY <1>9, <2>1 DEF LoadData
  <2>5. \A x \in Requests : fromCache[x] => fromCache'[x]
    BY <2>1, <2>4 DEF TypeOK
  <2>6. SavesReady'
    <3>1. \A k \in DOMAIN saves : saves[k] \in Requests
      BY DEF TypeOK
    <3> QED BY <1>p, <2>0, <2>2, <2>5, <3>1 DEF SavesReady
  <2>7. PostedReady'
    <3> SUFFICES ASSUME NEW r \in posted'
                 PROVE  /\ task[r] = "none" /\ fromCache'[r]
                        /\ cached'[r] # Nothing /\ clock - cached'[r].at <= Life
      BY <2>0, <2>2 DEF PostedReady
    <3>1. CASE r = loading.by
      <4>1. r \notin posted
        BY <1>p, <2>0, <3>1 DEF LoadingReady
      <4>2. fromCache'[r]
        BY <2>1, <2>4, <3>1, <4>1 DEF TypeOK
      <4> QED BY <2>1, <2>3, <3>1, <4>2
    <3>2. CASE r # loading.by
      <4>1. r \in posted /\ r \in Requests
        BY <2>4, <3>2 DEF TypeOK
      <4> QED BY <1>p, <2>3, <2>5, <3>2, <4>1 DEF PostedReady
    <3> QED BY <3>1, <3>2
  <2>8. TasksReady'
    <3>1. \A x \in Requests \ {loading.by} : fromCache'[x] = fromCache[x]
      BY <2>1, <2>4 DEF TypeOK
    <3> QED BY <1>p, <2>1, <2>2, <2>3, <3>1 DEF TasksReady
  <2>9. LoadingReady'
    BY <2>0 DEF LoadingReady
  <2> QED BY <1>p, <2>0, <2>6, <2>7, <2>8, <2>9 DEF DataAreAsNew, MetaNotAhead, ServedWell
<1>10. CASE SaveData
  <2>0. /\ writing = Nothing /\ saves # <<>> /\ saves' = Tail(saves)
        /\ UNCHANGED <<clock, metaFile, task, posted, body, cached, fromCache, loading,
                       served>>
    BY <1>10 DEF SaveData, object
  <2>1. SavesReady'
    <3>1. \A k \in DOMAIN saves' : k + 1 \in DOMAIN saves /\ saves'[k] = saves[k + 1]
      BY <2>0, TailSave
    <3> QED BY <1>p, <2>0, <3>1 DEF SavesReady
  <2>2. PICK r \in Requests : r = Head(saves) /\ 1 \in DOMAIN saves /\ r = saves[1]
    <3>1. saves \in Seq(Requests) /\ saves # <<>>
      BY <2>0 DEF TypeOK
    <3> QED BY <3>1
  <2>3. CASE fromCache[r] \/ body[r] = Nothing
    <3>1. dataFile' = dataFile /\ writing' = writing
      BY <1>10, <2>2, <2>3 DEF SaveData
    <3> QED BY <1>p, <2>0, <2>1, <3>1 DEF DataAreAsNew, MetaNotAhead, LoadingReady,
               PostedReady, TasksReady, ServedWell
  <2>4. CASE ~ (fromCache[r] \/ body[r] = Nothing)
    <3>1. dataFile' = body[r] /\ writing' = r
      BY <1>10, <2>2, <2>4 DEF SaveData, WriteData
    <3>2. body[r] # Nothing /\ body[r].at = clock
      BY <1>p, <2>2, <2>4 DEF SavesReady
    <3>3. clock \in Nat /\ clock - clock <= Life
      BY CacheAssumption DEF TypeOK
    <3>4. DataAreAsNew'
      BY <1>p, <2>0, <3>1, <3>2, <3>3 DEF DataAreAsNew, MetaNotAhead
    <3>5. LoadingReady'
      BY <1>p, <2>0, <3>1, <3>2, <3>3 DEF LoadingReady
    <3> QED BY <1>p, <2>0, <2>1, <3>4, <3>5 DEF MetaNotAhead, PostedReady, TasksReady,
               ServedWell
  <2> QED BY <2>3, <2>4
<1>11. CASE SaveMetadata
  <2>0. /\ writing # Nothing /\ writing' = Nothing
        /\ metaFile' = [of |-> Identity[writing], at |-> clock]
        /\ UNCHANGED <<clock, dataFile, task, posted, body, cached, fromCache, loading,
                       saves, served>>
    BY <1>11 DEF SaveMetadata, object
  <2>1. metaFile'.at = clock
    BY <2>0
  <2>2. dataFile # Nothing /\ dataFile.at >= clock /\ clock \in Nat
    BY <1>p, <2>0 DEF DataAreAsNew, TypeOK
  <2>3. DataAreAsNew' /\ MetaNotAhead'
    BY <2>0, <2>1, <2>2 DEF DataAreAsNew, MetaNotAhead
  <2> QED BY <1>p, <2>0, <2>3 DEF SavesReady, LoadingReady, PostedReady, TasksReady,
             ServedWell
<1>12. CASE Tick
  <2>0. /\ saves = <<>> /\ writing = Nothing /\ loading = Nothing /\ posted = {}
        /\ clock' = clock + 1
        /\ UNCHANGED <<dataFile, metaFile, task, posted, body, cached, fromCache,
                       loading, saves, writing, served>>
    BY <1>12 DEF Tick, files, object
  <2>1. MetaNotAhead'
    <3>1. metaFile # Nothing => metaFile.at \in Nat
      BY NothingIsNoResponse DEF TypeOK, Responses
    <3> QED BY <1>p, <2>0, <3>1 DEF TypeOK, MetaNotAhead
  <2>2. SavesReady' /\ LoadingReady' /\ PostedReady'
    BY <2>0 DEF SavesReady, LoadingReady, PostedReady
  <2> QED BY <1>p, <2>0, <2>1, <2>2 DEF DataAreAsNew, TasksReady, ServedWell
<1>13. CASE Crash
  <2>0. /\ posted' = {} /\ task' = [r \in Requests |-> "none"]
        /\ loading' = Nothing /\ saves' = <<>> /\ writing' = Nothing /\ served' = Nothing
        /\ UNCHANGED <<clock, dataFile, metaFile>>
    BY <1>13 DEF Crash, files, Everyone
  <2> QED BY <1>p, <2>0 DEF DataAreAsNew, MetaNotAhead, SavesReady, LoadingReady,
             PostedReady, TasksReady, ServedWell
<1>14. CASE UNCHANGED vars
  BY <1>p, <1>14 DEF vars, DataAreAsNew, MetaNotAhead, SavesReady, LoadingReady,
     PostedReady, TasksReady, ServedWell
<1> QED
  BY <1>1, <1>2, <1>3, <1>4, <1>5, <1>6, <1>7, <1>8, <1>9, <1>10, <1>11, <1>12,
     <1>13, <1>14 DEF Next

-----------------------------------------------------------------------------
(* The theorems.                                                           *)

\* The history variable never goes back.
LEMMA AstrayForEver == TypeOK /\ astray /\ [Next]_vars => astray'
<1> SUFFICES ASSUME TypeOK, astray, [Next]_vars PROVE astray'
  OBVIOUS
<1>1. ASSUME NEW r \in Requests, Start(r) \/ StartWithoutCache(r) \/ LoadCache(r)
      PROVE  astray'
  BY <1>1 DEF Start, StartWithoutCache, LoadCache, GoesAstray
<1>2. ASSUME NEW r \in Requests,
             Stop(r) \/ Respond(r) \/ Fail(r) \/ Deliver(r) \/ DeliverCached(r)
      PROVE  astray'
  BY <1>2 DEF Stop, Respond, Fail, Deliver, DeliverCached
<1>3. CASE SaveData
  BY <1>3 DEF SaveData, WriteData
<1>4. CASE LoadData \/ SaveMetadata \/ Tick \/ Crash \/ UNCHANGED vars
  BY <1>4 DEF LoadData, SaveMetadata, Tick, Crash, vars
<1> QED BY <1>1, <1>2, <1>3, <1>4 DEF Next

\* The invariant: as long as no object goes astray, what vouches for the data is
\* never younger than the data.
THEOREM CacheCorrect == Spec => [](~ astray => CacheInv)
<1> DEFINE Inv == TypeOK /\ (~ astray => CacheInv)
<1>1. Init => Inv
  BY InitType, InitInv
<1>2. Inv /\ [Next]_vars => Inv'
  BY NextType, NextInv, AstrayForEver
<1>3. Spec => []Inv
  BY <1>1, <1>2, PTL DEF Spec
<1> QED BY <1>3, PTL

LEMMA InvServes ==
    ASSUME TypeOK, ~ astray => CacheInv
    PROVE  ServedIsFresh /\ SourceIsTold /\ HeardWithData
BY DEF CacheInv, ServedIsFresh, SourceIsTold, HeardWithData

\* Nobody is served data older than cacheTimeInSeconds from the cache, however
\* saves, loads and ends of the process come between each other.
THEOREM CacheServesFresh == Spec => []ServedIsFresh
BY CacheCorrect, CacheTypeCorrect, InvServes, PTL

\* isDataFromCache is true exactly of the data that responseData takes from
\* the cache.
THEOREM CacheTellsTheSource == Spec => []SourceIsTold
BY CacheCorrect, CacheTypeCorrect, InvServes, PTL

\* Who hears of success has data.
THEOREM CacheHasData == Spec => []HeardWithData
BY CacheCorrect, CacheTypeCorrect, InvServes, PTL
=============================================================================
