---------------------------- MODULE ResponseCache ---------------------------
(***************************************************************************)
(* The response cache of YTKRequest, for the request objects that share    *)
(* one cache file name (the same method, URL and argument).  A start reads *)
(* the metadata file and the data file on the main thread; an answer from  *)
(* the server is saved by a block on a serial queue of its own, the data   *)
(* file first and then the metadata file, with no lock between the two     *)
(* sides.  The metadata decide whether the data may be used: their date    *)
(* against cacheTimeInSeconds, and cacheVersion, cacheSensitiveData and the*)
(* version of the app, which are one identity here.                        *)
(***************************************************************************)
EXTENDS Naturals, Sequences

CONSTANTS
    Requests,
    Identities,
    Identity,       \* Identity[r]: what the metadata must say for r to use them
    Life,           \* cacheTimeInSeconds, of every request
    Nothing,        \* nil, and a file that does not exist
    MaxClock,       \* BOUND: the age of the world
    MaxSaves        \* BOUND: the blocks that wait on the caching queue

Responses == [of : Identities, at : Nat]

ASSUME CacheAssumption ==
    /\ Identity \in [Requests -> Identities]
    /\ Life \in Nat \ {0} /\ MaxClock \in Nat /\ MaxSaves \in Nat
    /\ Nothing \notin Responses \cup Requests \cup {TRUE, FALSE}

VARIABLES
    clock,
    dataFile,   \* the response in the data file
    metaFile,   \* the identity and the date in the metadata file
    waits,      \* the requests whose client waits: started, not heard, not stopped
    task,       \* task[r]: "flight", or "arrived": its callbacks are posted
    posted,     \* requests whose callbacks are posted to serve them from the cache
    body,       \* body[r]: the response from the server (responseData of super)
    cached,     \* cached[r]: _cacheData
    fromCache,  \* fromCache[r]: _dataFromCache
    loading,    \* the load between its two reads, on the main thread
    saves,      \* the blocks on the caching queue
    writing,    \* the request whose block has written its data file
    served,     \* history: what the last client called was given
    astray      \* history: an object was started again before its saves were
                \* done, or loaded in flight, or a data file was not written

vars == <<clock, dataFile, metaFile, waits, task, posted, body, cached, fromCache,
          loading, saves, writing, served, astray>>

files == <<dataFile, metaFile>>
object == <<body, cached, fromCache>>

TypeOK ==
    /\ clock \in Nat
    /\ dataFile \in Responses \cup {Nothing}
    /\ metaFile \in Responses \cup {Nothing}
    /\ waits \subseteq Requests
    /\ task \in [Requests -> {"none", "flight", "arrived"}]
    /\ posted \subseteq Requests
    /\ body \in [Requests -> Responses \cup {Nothing}]
    /\ cached \in [Requests -> Responses \cup {Nothing}]
    /\ fromCache \in [Requests -> BOOLEAN]
    /\ loading \in [by : Requests, starts : BOOLEAN] \cup {Nothing}
    /\ saves \in Seq(Requests)
    /\ writing \in Requests \cup {Nothing}
    /\ served \in [by : Requests, data : Responses \cup {Nothing},
                   told : BOOLEAN, cache : BOOLEAN, at : Nat] \cup {Nothing}
    /\ astray \in BOOLEAN

Everyone(x) == [r \in Requests |-> x]

Init ==
    /\ clock = 0 /\ dataFile = Nothing /\ metaFile = Nothing
    /\ waits = {} /\ posted = {} /\ task = Everyone("none")
    /\ body = Everyone(Nothing) /\ cached = Everyone(Nothing)
    /\ fromCache = Everyone(FALSE)
    /\ loading = Nothing /\ saves = <<>> /\ writing = Nothing
    /\ served = Nothing /\ astray = FALSE

-----------------------------------------------------------------------------
(* Parts of the handlers.                                                  *)

\* Seeded fault, in place of Valid: the date is not looked at: ServedIsFresh.
FaultDateIgnored(r) ==
    /\ metaFile # Nothing
    /\ metaFile.of = Identity[r]

\* loadCacheMetadata and validateCacheWithError.
Valid(r) ==
    /\ metaFile # Nothing
    /\ metaFile.of = Identity[r]
    /\ clock - metaFile.at <= Life

\* Seeded fault, in place of ToTheServer: what is left in the object from the
\* cache stays: SourceIsTold.
FaultNotCleared(r) ==
    /\ fromCache' = [fromCache EXCEPT ![r] = FALSE]
    /\ task' = [task EXCEPT ![r] = "flight"]
    /\ UNCHANGED <<body, cached, posted>>

\* startWithoutCache: clearCacheVariables and the start of the base class.
ToTheServer(r) ==
    /\ cached' = [cached EXCEPT ![r] = Nothing]
    /\ fromCache' = [fromCache EXCEPT ![r] = FALSE]
    /\ task' = [task EXCEPT ![r] = "flight"]
    /\ UNCHANGED <<body, posted>>

\* An object is started again when its client has heard it or stopped it.
\* BOUND: not while the callbacks of a stopped request are posted, which is
\* RequestAgent's case; and nothing is started or loaded after an object went
\* astray, of which nothing is promised.
MayStart(r) ==
    /\ loading = Nothing /\ ~ astray
    /\ r \notin waits \cup posted /\ task[r] = "none"

BeingSaved(r) == r \in {saves[k] : k \in DOMAIN saves} \cup {writing}

GoesAstray(how) == astray' = (astray \/ how)

\* The first half of saveResponseDataToCacheFile.  Nobody looks at the answer of
\* writeToFile:atomically:.
WriteData(r) ==
    /\ \/ dataFile' = body[r] /\ UNCHANGED astray
       \/ UNCHANGED dataFile /\ astray' = TRUE
    /\ writing' = r

\* requestFinished and the success block, if they are still set: what
\* isDataFromCache says, and what responseData gives.
Call(r) ==
    served' =
        IF r \in waits
        THEN [by |-> r,
              data |-> IF cached[r] # Nothing THEN cached[r] ELSE body[r],
              told |-> fromCache[r], cache |-> cached[r] # Nothing, at |-> clock]
        ELSE served

-----------------------------------------------------------------------------
(* The client, on the main thread.                                         *)

\* start, up to the check of the metadata.
Start(r) ==
    /\ MayStart(r)
    /\ waits' = waits \cup {r}
    /\ IF Valid(r)
       THEN /\ loading' = [by |-> r, starts |-> TRUE]
            /\ UNCHANGED <<task, posted, object>>
       ELSE ToTheServer(r) /\ UNCHANGED loading
    /\ GoesAstray(BeingSaved(r))
    /\ UNCHANGED <<clock, files, saves, writing, served>>

\* startWithoutCache, and start of a request with ignoreCache.
StartWithoutCache(r) ==
    /\ MayStart(r)
    /\ waits' = waits \cup {r}
    /\ ToTheServer(r)
    /\ GoesAstray(BeingSaved(r))
    /\ UNCHANGED <<clock, files, loading, saves, writing, served>>

\* loadCacheWithError called by the client, to show what was there last time:
\* before the request is started, as in the guide of the library, or later.
LoadCache(r) ==
    /\ loading = Nothing /\ ~ astray
    /\ r \notin posted
    /\ Valid(r)
    /\ GoesAstray(BeingSaved(r) \/ ~ MayStart(r))
    /\ loading' = [by |-> r, starts |-> FALSE]
    /\ UNCHANGED <<clock, files, waits, task, posted, object, saves, writing, served>>

\* loadCacheData, and the rest of start.  A data file is there when the
\* metadata are; it is whole, since it is written atomically.
LoadData ==
    /\ loading # Nothing
    /\ LET r == loading.by
       IN  IF dataFile = Nothing
           THEN IF loading.starts THEN ToTheServer(r)
                ELSE UNCHANGED <<task, posted, object>>
           ELSE /\ cached' = [cached EXCEPT ![r] = dataFile]
                /\ IF loading.starts
                   THEN /\ fromCache' = [fromCache EXCEPT ![r] = TRUE]
                        /\ posted' = posted \cup {r}
                   ELSE UNCHANGED <<fromCache, posted>>
                /\ UNCHANGED <<task, body>>
    /\ loading' = Nothing
    /\ UNCHANGED <<clock, files, waits, saves, writing, served, astray>>

\* stop takes the callbacks away; it leaves the block that start has posted.
Stop(r) ==
    /\ loading = Nothing
    /\ r \in waits
    /\ waits' = waits \ {r}
    /\ task' = [task EXCEPT ![r] = IF @ = "flight" THEN "none" ELSE @]
    /\ UNCHANGED <<clock, files, posted, object, loading, saves, writing, served, astray>>

-----------------------------------------------------------------------------
(* Answers.                                                                *)

\* The server's answer, on the processing queue: requestCompletePreprocessor
\* posts the save before the agent posts the callbacks.
Respond(r) ==
    /\ task[r] = "flight" /\ Len(saves) < MaxSaves
    /\ body' = [body EXCEPT ![r] = [of |-> Identity[r], at |-> clock]]
    /\ task' = [task EXCEPT ![r] = "arrived"]
    /\ saves' = Append(saves, r)
    /\ UNCHANGED <<clock, files, waits, posted, cached, fromCache, loading, writing,
                   served, astray>>

\* Or a failure, of which the cache knows nothing.
Fail(r) ==
    /\ task[r] = "flight" /\ loading = Nothing
    /\ task' = [task EXCEPT ![r] = "none"]
    /\ waits' = waits \ {r}
    /\ UNCHANGED <<clock, files, posted, object, loading, saves, writing, served, astray>>

Deliver(r) ==
    /\ task[r] = "arrived" /\ loading = Nothing
    /\ task' = [task EXCEPT ![r] = "none"]
    /\ Call(r)
    /\ waits' = waits \ {r}
    /\ UNCHANGED <<clock, files, posted, object, loading, saves, writing, astray>>

\* The block that start has posted: it goes through the preprocessor too.
DeliverCached(r) ==
    /\ r \in posted /\ loading = Nothing /\ Len(saves) < MaxSaves
    /\ posted' = posted \ {r}
    /\ saves' = Append(saves, r)
    /\ Call(r)
    /\ waits' = waits \ {r}
    /\ UNCHANGED <<clock, files, task, object, loading, writing, astray>>

-----------------------------------------------------------------------------
(* The caching queue, one block at a time.                                 *)

\* The block looks at the request when it runs, not when it was posted.
SaveData ==
    /\ writing = Nothing /\ saves # <<>>
    /\ saves' = Tail(saves)
    /\ LET r == Head(saves)
       IN  IF fromCache[r] \/ body[r] = Nothing
           THEN UNCHANGED <<dataFile, writing, astray>>
           ELSE WriteData(r)
    /\ UNCHANGED <<clock, metaFile, waits, task, posted, object, loading, served>>

SaveMetadata ==
    /\ writing # Nothing
    /\ metaFile' = [of |-> Identity[writing], at |-> clock]
    /\ writing' = Nothing
    /\ UNCHANGED <<clock, dataFile, waits, task, posted, object, loading, saves,
                   served, astray>>

-----------------------------------------------------------------------------
(* The world.                                                              *)

\* BOUND: Life is long against the time a posted block waits, and no time
\* passes while one does.
Tick ==
    /\ clock < MaxClock
    /\ saves = <<>> /\ writing = Nothing /\ loading = Nothing /\ posted = {}
    /\ clock' = clock + 1
    /\ UNCHANGED <<files, waits, task, posted, object, loading, saves, writing, served,
                   astray>>

\* The process ends at any point; the files stay.
Crash ==
    /\ waits' = {} /\ posted' = {} /\ task' = Everyone("none")
    /\ body' = Everyone(Nothing) /\ cached' = Everyone(Nothing)
    /\ fromCache' = Everyone(FALSE)
    /\ loading' = Nothing /\ saves' = <<>> /\ writing' = Nothing
    /\ served' = Nothing
    /\ UNCHANGED <<clock, files, astray>>

Next ==
    \/ \E r \in Requests :
          \/ Start(r) \/ StartWithoutCache(r) \/ LoadCache(r) \/ Stop(r)
          \/ Respond(r) \/ Fail(r) \/ Deliver(r) \/ DeliverCached(r)
    \/ LoadData \/ SaveData \/ SaveMetadata
    \/ Tick \/ Crash

Spec == Init /\ [][Next]_vars

-----------------------------------------------------------------------------
(* Properties.                                                             *)

\* Unless an object went astray, nobody is served from the cache with data that
\* are older than cacheTimeInSeconds allows, ends of the process at any point
\* included: the data file is written before the metadata that vouch for it
\* (saveResponseDataToCacheFile:, loadCacheWithError:).
ServedIsFresh ==
    ~ astray /\ served # Nothing /\ served.cache /\ served.data # Nothing =>
        served.at - served.data.at <= Life

\* What vouches for the data is never younger than the data: what the order of
\* the two writes is for.
DataAreAsNew ==
    /\ metaFile # Nothing => dataFile # Nothing /\ dataFile.at >= metaFile.at
    /\ writing # Nothing => dataFile # Nothing /\ dataFile.at >= clock

\* Why the properties hold: a save that will write
\* has a response of now, a load between its reads has data that are fresh
\* enough, and of the callbacks of a request only one kind is posted, with what
\* belongs to it.
CacheInv ==
    /\ DataAreAsNew
    /\ metaFile # Nothing => metaFile.at <= clock
    /\ \A k \in DOMAIN saves :
          \/ fromCache[saves[k]]
          \/ body[saves[k]] = Nothing
          \/ body[saves[k]].at = clock
    /\ loading # Nothing =>
          /\ dataFile # Nothing /\ clock - dataFile.at <= Life
          /\ task[loading.by] = "none" /\ loading.by \notin posted
    /\ \A r \in posted :
          /\ task[r] = "none" /\ fromCache[r]
          /\ cached[r] # Nothing /\ clock - cached[r].at <= Life
    /\ \A r \in Requests : task[r] # "none" => cached[r] = Nothing /\ ~ fromCache[r]
    /\ \A r \in Requests : task[r] = "arrived" => body[r] # Nothing
    /\ served # Nothing =>
          /\ served.data # Nothing
          /\ served.told <=> served.cache
          /\ served.cache => served.at - served.data.at <= Life

\* Unless an object went astray, isDataFromCache says where the data come from
\* that responseData gives, whatever was loaded and cleared in the object before
\* (clearCacheVariables, responseData).
SourceIsTold == ~ astray /\ served # Nothing => (served.told <=> served.cache)

\* Nor does anybody hear of success without data.
HeardWithData == ~ astray /\ served # Nothing => served.data # Nothing
=============================================================================
