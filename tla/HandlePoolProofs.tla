-------------------------- MODULE HandlePoolProofs --------------------------
(***************************************************************************)
(* Proofs about the handle pools of WCDB: their lock and their registry.   *)
(*                                                                         *)
(* RWLock keeps the promise of SharedLock, for any finite number of users. *)
(* The code decides by counters, the promise speaks of sets; what joins    *)
(* them is CountersAgree, which is inductive together with the types.      *)
(* Exclusion and the absence of lost wake-ups follow step by step from the *)
(* counters a step has tested.                                             *)
(*                                                                         *)
(* The registry leaks no pool.  As long as no database is opened by tag,   *)
(* it counts exactly, has one pool for a path, and implements SharedCore.  *)
(***************************************************************************)
EXTENDS RWLock, PoolRegistry, FiniteSetTheorems, TLAPS

-----------------------------------------------------------------------------
(* The lock.                                                               *)

Places == {"out", "lockRead", "lockWrite", "reading", "writing"}

LEMMA AtFinite == \A p : IsFiniteSet(At(p)) /\ Cardinality(At(p)) \in Nat
  <1> TAKE p
  <1>1. At(p) \subseteq Users
    BY DEF At
  <1>2. QED
    BY <1>1, UsersAssumption, FS_Subset, FS_CardinalityType

\* A user who goes from one place to another is counted at the new place and no
\* longer at the old one, and nobody else is counted differently.
LEMMA Moved ==
    ASSUME LockTypeOK, NEW u \in Users, NEW from, NEW to \in Places,
           pc[u] = from, from # to, Goes(u, to)
    PROVE  /\ Cardinality(At(from)') = Cardinality(At(from)) - 1
           /\ Cardinality(At(to)') = Cardinality(At(to)) + 1
           /\ \A p : p # from /\ p # to => At(p)' = At(p)
           /\ Cardinality(At(from)) # 0
  <1>1. /\ \A v \in Users : pc'[v] = IF v = u THEN to ELSE pc[v]
        /\ u \in At(from) /\ u \notin At(to)
    BY DEF LockTypeOK, Goes, At, Places
  <1>2. At(from)' = At(from) \ {u} /\ At(to)' = At(to) \cup {u}
    BY <1>1 DEF At
  <1>3. \A p : p # from /\ p # to => At(p)' = At(p)
    BY <1>1 DEF At
  <1>4. Cardinality(At(from) \ {u}) = Cardinality(At(from)) - 1
    BY <1>1, AtFinite, FS_RemoveElement
  <1>5. Cardinality(At(to) \cup {u}) = Cardinality(At(to)) + 1
    BY <1>1, AtFinite, FS_AddElement
  <1>6. Cardinality(At(from)) # 0
    BY <1>1, AtFinite, FS_EmptySet
  <1>7. QED
    BY <1>2, <1>3, <1>4, <1>5, <1>6

LEMMA NobodyThere == \A p : Cardinality(At(p)) = 0 <=> At(p) = {}
  BY AtFinite, FS_EmptySet

-----------------------------------------------------------------------------
\* Exclusive, said of the code's own places.
Alone == \A u, v \in Users :
    pc[u] = "writing" /\ u # v => pc[v] \notin {"reading", "writing"}

\* The inductive invariant.
RWInv == LockTypeOK /\ CountersAgree /\ Alone /\ AwakeWhenDue

LEMMA InitCorrect == LockInit => RWInv
  <1> SUFFICES ASSUME LockInit PROVE RWInv
    OBVIOUS
  <1>1. LockTypeOK /\ Alone /\ AwakeWhenDue
    BY DEF LockInit, LockTypeOK, Alone, AwakeWhenDue, Waiting, At
  <1>2. \A p : p # "out" => At(p) = {}
    BY DEF LockInit, At
  <1>3. CountersAgree
    BY <1>2, NobodyThere DEF LockInit, CountersAgree
  <1>4. QED
    BY <1>1, <1>3 DEF RWInv

\* The counters a step has tested tell where users are.
LEMMA NoneWhenZero ==
    ASSUME RWInv
    PROVE  /\ m_reader = 0 => At("reading") = {}
           /\ m_writer = 0 => At("writing") = {}
           /\ m_pending = 0 => At("lockWrite") = {}
  BY NobodyThere DEF RWInv, CountersAgree

\* Entering to read, at once or after a wait.
LEMMA EntersToRead ==
    ASSUME RWInv, NEW u \in Users, pc[u] \in {"out", "lockRead"}, u \notin parked,
           ~ ReaderMustWait, Goes(u, "reading"), m_reader' = m_reader + 1,
           UNCHANGED <<m_writer, m_pending, parked>>
    PROVE  RWInv'
  <1> USE DEF RWInv
  <1>1. LockTypeOK'
    BY DEF LockTypeOK, Goes, Waiting, At
  <1>2. CountersAgree'
    BY Moved DEF CountersAgree, Places
  <1>3. At("writing") = {}
    BY NoneWhenZero DEF ReaderMustWait, LockTypeOK
  <1>4. Alone'
    BY <1>3 DEF Alone, LockTypeOK, Goes, At
  <1>5. AwakeWhenDue'
    <2>1. m_reader' > 0
      BY DEF LockTypeOK
    <2>2. At("lockRead")' \cap parked' \subseteq At("lockRead") \cap parked
      BY DEF LockTypeOK, Goes, At
    <2>3. QED
      BY <2>1, <2>2 DEF AwakeWhenDue, ReaderMustWait, WriterMustWait
  <1>6. QED
    BY <1>1, <1>2, <1>4, <1>5

\* Entering to write, from a wait (when m_pending goes down) or at once.
LEMMA EntersToWrite ==
    ASSUME RWInv, NEW u \in Users, ~ WriterMustWait, u \notin parked,
           \/ pc[u] = "out" /\ m_pending' = m_pending
           \/ pc[u] = "lockWrite" /\ m_pending' = m_pending - 1,
           Goes(u, "writing"), m_writer' = m_writer + 1,
           m_reader' = m_reader, parked' = parked \ {u}
    PROVE  RWInv'
  <1> USE DEF RWInv
  <1>0. pc[u] = "lockWrite" => m_pending # 0
    BY Moved DEF CountersAgree, Places
  <1>1. LockTypeOK'
    BY <1>0 DEF LockTypeOK, Goes, Waiting, At
  <1>2. CountersAgree'
    BY Moved DEF CountersAgree, Places
  <1>3. At("writing") = {} /\ At("reading") = {}
    BY NoneWhenZero DEF WriterMustWait, LockTypeOK
  <1>4. Alone'
    BY <1>3 DEF Alone, LockTypeOK, Goes, At
  <1>5. m_writer' > 0
    BY DEF LockTypeOK
  <1>6. AwakeWhenDue'
    BY <1>5 DEF AwakeWhenDue, ReaderMustWait, WriterMustWait
  <1>7. QED
    BY <1>1, <1>2, <1>4, <1>6

\* Falling asleep, for the first time or again: the test has just failed.
LEMMA FallsAsleep ==
    ASSUME RWInv, NEW u \in Users, parked' = parked \cup {u},
           UNCHANGED <<m_reader, m_writer>>,
           \/ /\ ReaderMustWait /\ m_pending' = m_pending
              /\ pc[u] \in {"out", "lockRead"}
              /\ pc' = [pc EXCEPT ![u] = "lockRead"]
           \/ /\ WriterMustWait
              /\ pc[u] = "out" /\ m_pending' = m_pending + 1
              /\ pc' = [pc EXCEPT ![u] = "lockWrite"]
           \/ /\ WriterMustWait
              /\ pc[u] = "lockWrite" /\ m_pending' = m_pending
              /\ pc' = [pc EXCEPT ![u] = "lockWrite"]
    PROVE  RWInv'
  <1> USE DEF RWInv
  <1>1. LockTypeOK'
    BY DEF LockTypeOK, Waiting, At
  <1>2. CountersAgree'
    <2>1. CASE pc[u] = pc'[u]
      <3>1. pc' = pc
        BY <2>1 DEF LockTypeOK
      <3>2. \A p : At(p)' = At(p)
        BY <3>1 DEF At
      <3>3. m_pending' = m_pending
        BY <2>1 DEF LockTypeOK
      <3>4. QED
        BY <3>2, <3>3 DEF CountersAgree
    <2>2. CASE pc[u] # pc'[u]
      BY <2>2, Moved DEF CountersAgree, Places, LockTypeOK, Goes
    <2>3. QED
      BY <2>1, <2>2
  <1>3. Alone'
    BY DEF Alone, LockTypeOK
  <1>4. AwakeWhenDue'
    <2>1. /\ ReaderMustWait \/ WriterMustWait
          /\ ReaderMustWait => ReaderMustWait'
          /\ WriterMustWait => WriterMustWait'
          /\ m_pending' # m_pending => ReaderMustWait'
      BY DEF ReaderMustWait, WriterMustWait, LockTypeOK
    <2>2. pc'[u] = "lockRead" => ReaderMustWait'
      BY <2>1 DEF LockTypeOK
    <2>3. pc'[u] = "lockWrite" => WriterMustWait'
      BY <2>1 DEF LockTypeOK
    <2>4. \A p : At(p)' \cap parked' \subseteq (At(p) \cap parked) \cup {v \in {u} : pc'[v] = p}
      BY DEF LockTypeOK, At
    <2>5. QED
      BY <2>1, <2>2, <2>3, <2>4 DEF AwakeWhenDue
  <1>5. QED
    BY <1>1, <1>2, <1>3, <1>4

\* Letting go: the last reader and every writer wake everybody.
LEMMA LetsGo ==
    ASSUME RWInv, NEW u \in Users, UnlockRead(u) \/ UnlockWrite(u)
    PROVE  RWInv'
  <1> USE DEF RWInv
  <1>1. CASE UnlockRead(u)
    <2> USE <1>1 DEF UnlockRead
    <2>1. m_reader # 0
      BY Moved DEF CountersAgree, Places
    <2>2. LockTypeOK'
      BY <2>1 DEF LockTypeOK, Goes, NotifyAll, Waiting, At
    <2>3. CountersAgree'
      BY Moved DEF CountersAgree, Places
    <2>4. Alone'
      BY DEF Alone, LockTypeOK, Goes
    <2>5. AwakeWhenDue'
      <3>1. CASE m_reader' = 0
        BY <3>1 DEF AwakeWhenDue, NotifyAll
      <3>2. CASE m_reader' # 0
        <4>1. m_reader' > 0 /\ parked' = parked
          BY <3>2, <2>1, <2>2 DEF LockTypeOK
        <4>2. At("lockRead")' = At("lockRead")
          BY Moved DEF Places
        <4>3. QED
          BY <4>1, <4>2 DEF AwakeWhenDue, ReaderMustWait, WriterMustWait
      <3>3. QED
        BY <3>1, <3>2
    <2>6. QED
      BY <2>2, <2>3, <2>4, <2>5
  <1>2. CASE UnlockWrite(u)
    <2> USE <1>2 DEF UnlockWrite
    <2>1. m_writer # 0
      BY Moved DEF CountersAgree, Places
    <2>2. LockTypeOK'
      BY <2>1 DEF LockTypeOK, Goes, NotifyAll, Waiting, At
    <2>3. CountersAgree'
      BY Moved DEF CountersAgree, Places
    <2>4. Alone'
      BY DEF Alone, LockTypeOK, Goes
    <2>5. AwakeWhenDue'
      BY DEF AwakeWhenDue, NotifyAll
    <2>6. QED
      BY <2>2, <2>3, <2>4, <2>5
  <1>3. QED
    BY <1>1, <1>2

\* Waking for no reason, and steps in which nothing happens.
LEMMA Undisturbed ==
    ASSUME RWInv, parked' \subseteq parked, UNCHANGED <<m_reader, m_writer, m_pending, pc>>
    PROVE  RWInv'
  <1> USE DEF RWInv
  <1>1. \A p : At(p)' = At(p)
    BY DEF At
  <1>2. LockTypeOK'
    BY <1>1 DEF LockTypeOK, Waiting
  <1>3. CountersAgree'
    BY <1>1 DEF CountersAgree
  <1>4. Alone'
    BY DEF Alone
  <1>5. AwakeWhenDue'
    BY <1>1 DEF AwakeWhenDue, ReaderMustWait, WriterMustWait
  <1>6. QED
    BY <1>2, <1>3, <1>4, <1>5

LEMMA StepCorrect == RWInv /\ [LockNext]_lockVars => RWInv'
  <1> SUFFICES ASSUME RWInv, [LockNext]_lockVars PROVE RWInv'
    OBVIOUS
  <1>0. LockTypeOK /\ RWInv
    BY DEF RWInv
  <1>1. ASSUME NEW u \in Users, LockRead(u) PROVE RWInv'
    <2>1. u \notin parked
      BY <1>0, <1>1 DEF LockRead, LockTypeOK, Waiting, At
    <2>2. CASE ReaderMustWait
      BY <1>0, <1>1, <2>2, FallsAsleep DEF LockRead, Goes, Park
    <2>3. CASE ~ ReaderMustWait
      BY <1>0, <1>1, <2>1, <2>3, EntersToRead DEF LockRead
    <2>4. QED
      BY <2>2, <2>3
  <1>2. ASSUME NEW u \in Users, TryLockRead(u) PROVE RWInv'
    <2>1. u \notin parked
      BY <1>0, <1>2 DEF TryLockRead, LockTypeOK, Waiting, At
    <2>2. QED
      BY <1>0, <1>2, <2>1, EntersToRead DEF TryLockRead
  <1>3. ASSUME NEW u \in Users, LockReadAgain(u) PROVE RWInv'
    <2>1. CASE ReaderMustWait
      <3>1. pc' = [pc EXCEPT ![u] = "lockRead"]
        BY <1>0, <1>3, <2>1 DEF LockReadAgain, LockTypeOK
      <3>2. QED
        BY <1>0, <1>3, <2>1, <3>1, FallsAsleep DEF LockReadAgain, Park
    <2>2. CASE ~ ReaderMustWait
      BY <1>0, <1>3, <2>2, EntersToRead DEF LockReadAgain
    <2>3. QED
      BY <2>1, <2>2
  <1>4. ASSUME NEW u \in Users, LockWrite(u) PROVE RWInv'
    <2>1. u \notin parked
      BY <1>0, <1>4 DEF LockWrite, LockTypeOK, Waiting, At
    <2>2. CASE WriterMustWait
      BY <1>0, <1>4, <2>2, FallsAsleep DEF LockWrite, Goes, Park
    <2>3. CASE ~ WriterMustWait
      <3>1. parked' = parked \ {u}
        BY <1>4, <2>1, <2>3 DEF LockWrite
      <3>2. QED
        BY <1>0, <1>4, <2>1, <2>3, <3>1, EntersToWrite DEF LockWrite
    <2>4. QED
      BY <2>2, <2>3
  <1>5. ASSUME NEW u \in Users, TryLockWrite(u) PROVE RWInv'
    <2>1. u \notin parked
      BY <1>0, <1>5 DEF TryLockWrite, LockTypeOK, Waiting, At
    <2>2. parked' = parked \ {u} /\ m_writer' = m_writer + 1
      BY <1>0, <1>5, <2>1 DEF TryLockWrite, WriterMustWait, LockTypeOK
    <2>3. QED
      BY <1>0, <1>5, <2>1, <2>2, EntersToWrite DEF TryLockWrite
  <1>6. ASSUME NEW u \in Users, LockWriteAgain(u) PROVE RWInv'
    <2>1. CASE WriterMustWait
      <3>1. pc' = [pc EXCEPT ![u] = "lockWrite"]
        BY <1>0, <1>6, <2>1 DEF LockWriteAgain, LockTypeOK
      <3>2. QED
        BY <1>0, <1>6, <2>1, <3>1, FallsAsleep DEF LockWriteAgain, Park
    <2>2. CASE ~ WriterMustWait
      BY <1>0, <1>6, <2>2, EntersToWrite DEF LockWriteAgain, EnterWrite, Unpark
    <2>3. QED
      BY <2>1, <2>2
  <1>7. ASSUME NEW u \in Users, UnlockRead(u) \/ UnlockWrite(u) PROVE RWInv'
    BY <1>0, <1>7, LetsGo
  <1>8. ASSUME NEW u \in Users, SpuriousWakeup(u) PROVE RWInv'
    BY <1>0, <1>8, Undisturbed DEF SpuriousWakeup, Unpark
  <1>9. CASE UNCHANGED lockVars
    BY <1>0, <1>9, Undisturbed DEF lockVars
  <1>10. QED
    BY <1>1, <1>2, <1>3, <1>4, <1>5, <1>6, <1>7, <1>8, <1>9 DEF LockNext, Proceed

\* The inductive invariant: types, counters, exclusion and no lost wake-up.
THEOREM LockCorrect == LockSpec => []RWInv
  BY InitCorrect, StepCorrect, PTL DEF LockSpec

\* The state is well formed, for any finite number of users.
THEOREM LockTypeCorrect == LockSpec => []LockTypeOK
  BY LockCorrect, PTL DEF RWInv

\* The counters of the code are the numbers of those who read, write and wait.
THEOREM LockCounts == LockSpec => []CountersAgree
  BY LockCorrect, PTL DEF RWInv

\* A writer is alone, whoever locks, tries, waits or is woken in whatever order.
THEOREM WriterAlone == LockSpec => []Exclusive
  <1>1. RWInv => Exclusive
    BY DEF RWInv, Alone, LockTypeOK, Exclusive, LockPromise!Exclusive, Promised
  <1>2. QED
    BY <1>1, LockCorrect, PTL

\* Nobody sleeps on the condition variable who could go on.
THEOREM NoLostWakeup == LockSpec => []AwakeWhenDue
  BY LockCorrect, PTL DEF RWInv

-----------------------------------------------------------------------------
(* RWLock implements SharedLock.                                           *)

LEMMA InitPromised == LockInit => LockPromise!Init
  BY DEF LockInit, LockPromise!Init, Promised

\* Where a user is for the promise, after a step of hers.
LEMMA PromisedMoves ==
    ASSUME LockTypeOK, NEW u \in Users, NEW to \in Places, Goes(u, to)
    PROVE  Promised' = [Promised EXCEPT ![u] =
               CASE to = "lockRead" -> "out" [] to = "lockWrite" -> "wants" [] OTHER -> to]
  BY DEF LockTypeOK, Goes, Promised, Places

LEMMA PromisedIn ==
    ASSUME LockTypeOK
    PROVE  /\ LockPromise!In("writing") = At("writing")
           /\ LockPromise!In("reading") = At("reading")
           /\ LockPromise!In("wants") = At("lockWrite")
  BY DEF LockTypeOK, LockPromise!In, Promised, At

LEMMA StepPromised == RWInv /\ [LockNext]_lockVars => [LockPromise!Next]_Promised
  <1> SUFFICES ASSUME RWInv, [LockNext]_lockVars PROVE [LockPromise!Next]_Promised
    OBVIOUS
  <1>0. /\ LockTypeOK
        /\ ReaderMustWait \/ (LockPromise!In("writing") = {} /\ LockPromise!In("wants") = {})
        /\ WriterMustWait \/ LockPromise!Free
    BY NoneWhenZero, PromisedIn DEF RWInv, LockTypeOK, ReaderMustWait, WriterMustWait, LockPromise!Free
  <1> USE DEF Places
  <1>1. ASSUME NEW u \in Users, LockRead(u) \/ TryLockRead(u) \/ LockReadAgain(u)
        PROVE  [LockPromise!Next]_Promised
    <2>1. CASE ReaderMustWait
      <3>1. Promised' = Promised
        BY <1>0, <1>1, <2>1 DEF LockRead, TryLockRead, LockReadAgain, Goes, LockTypeOK, Promised
      <3>2. QED
        BY <3>1
    <2>2. CASE ~ ReaderMustWait
      <3>1. Goes(u, "reading") /\ Promised[u] = "out"
        BY <1>0, <1>1, <2>2 DEF LockRead, TryLockRead, LockReadAgain, Promised
      <3>2. LockPromise!Read(u)
        BY <1>0, <2>2, <3>1, PromisedMoves DEF LockPromise!Read, LockPromise!Moves
      <3>3. QED
        BY <3>2 DEF LockPromise!Next
    <2>3. QED
      BY <2>1, <2>2
  <1>2. ASSUME NEW u \in Users, LockWrite(u) \/ TryLockWrite(u) \/ LockWriteAgain(u)
        PROVE  [LockPromise!Next]_Promised
    <2>1. CASE WriterMustWait
      <3>1. CASE LockWrite(u)
        <4>1. Goes(u, "lockWrite") /\ Promised[u] = "out"
          BY <3>1, <2>1 DEF LockWrite, Promised
        <4>2. LockPromise!WantWrite(u)
          BY <1>0, <4>1, PromisedMoves DEF LockPromise!WantWrite, LockPromise!Moves
        <4>3. QED
          BY <4>2 DEF LockPromise!Next
      <3>2. CASE ~ LockWrite(u)
        <4>1. Promised' = Promised
          BY <1>2, <2>1, <3>2 DEF TryLockWrite, LockWriteAgain, Promised
        <4>2. QED
          BY <4>1
      <3>3. QED
        BY <3>1, <3>2
    <2>2. CASE ~ WriterMustWait
      <3>1. Goes(u, "writing") /\ Promised[u] \in {"out", "wants"}
        BY <1>0, <1>2, <2>2 DEF LockWrite, TryLockWrite, LockWriteAgain, EnterWrite, Promised
      <3>2. LockPromise!Write(u)
        BY <1>0, <2>2, <3>1, PromisedMoves DEF LockPromise!Write, LockPromise!Moves
      <3>3. QED
        BY <3>2 DEF LockPromise!Next
    <2>3. QED
      BY <2>1, <2>2
  <1>3. ASSUME NEW u \in Users, UnlockRead(u) \/ UnlockWrite(u)
        PROVE  [LockPromise!Next]_Promised
    <2>1. Goes(u, "out") /\ Promised[u] \in {"reading", "writing"}
      BY <1>3 DEF UnlockRead, UnlockWrite, Promised
    <2>2. LockPromise!EndRead(u) \/ LockPromise!EndWrite(u)
      BY <1>0, <2>1, PromisedMoves DEF LockPromise!EndRead, LockPromise!EndWrite, LockPromise!Moves
    <2>3. QED
      BY <2>2 DEF LockPromise!Next
  <1>4. CASE UNCHANGED pc
    BY <1>4 DEF Promised
  <1>5. QED
    BY <1>1, <1>2, <1>3, <1>4 DEF LockNext, Proceed, SpuriousWakeup, lockVars

\* Every behaviour of RWLock is one that SharedLock allows: in particular no
\* reader comes in while a writer waits.
THEOREM LockKeepsPromise == LockSpec => ImplementsSharedLock
  BY InitPromised, StepPromised, LockCorrect, PTL
  DEF LockSpec, ImplementsSharedLock, LockPromise!Spec

-----------------------------------------------------------------------------
(* The registry.                                                           *)

\* A count speaks of the users; that a pool in the registry has a user makes
\* its path that of the entry, and a reference is to a pool.
IInv ==
    /\ TypeOK /\ CountIsExact /\ NotLeaked
    /\ \A d \in Databases : m_pool[d] = None => m_reference[d] = 0

-----------------------------------------------------------------------------
(* Type correctness, with databases opened by tag as without.              *)

LEMMA CountedEntry ==
    ASSUME NEW e \in Entries, NEW n \in Int
    PROVE  [e EXCEPT !.count = n] \in Entries /\ e.count \in Int
           /\ [e EXCEPT !.count = n].pool = e.pool /\ [e EXCEPT !.count = n].count = n
  BY DEF Entries

LEMMA NoEntryIsEntry == NoEntry \in Entries
  BY DEF Entries, NoEntry

LEMMA TypeInit == Init => TypeOK
<1> SUFFICES ASSUME Init PROVE TypeOK
  OBVIOUS
<1>1. 0 \in 0 .. MaxRefs
  BY RegistryAssumption
<1>2. s_pools \in [Paths -> Entries]
  BY NoEntryIsEntry DEF Init
<1>3. m_reference \in [Databases -> 0 .. MaxRefs]
  BY <1>1 DEF Init
<1> QED
  BY <1>2, <1>3 DEF Init, TypeOK

LEMMA NewEntry ==
    ASSUME NEW c \in Pools
    PROVE  [pool |-> c, count |-> 1] \in Entries
  BY DEF Entries

LEMMA TypeStep == TypeOK /\ [Next]_vars => TypeOK'
<1> SUFFICES ASSUME TypeOK, Next PROVE TypeOK'
  BY DEF TypeOK, vars
<1> USE RegistryAssumption
<1>1. ASSUME NEW d \in Databases, NEW p \in Paths, OpenPath(d, p)
      PROVE  TypeOK'
  <2>1. CASE GetThere(d, p)
    <3>1. /\ s_pools[p] \in Entries
          /\ s_pools' = [s_pools EXCEPT ![p] = [s_pools[p] EXCEPT !.count = @ + 1]]
      BY <2>1 DEF GetThere, Found, TypeOK
    <3>2. [s_pools[p] EXCEPT !.count = @ + 1] \in Entries
      BY <3>1, CountedEntry DEF Entries
    <3>3. s_pools' \in [Paths -> Entries]
      BY <3>1, <3>2 DEF TypeOK
    <3>4. s_pools[p].pool \in Pools
      BY <3>1, <2>1 DEF Entries, GetThere
    <3> QED
      BY <1>1, <2>1, <3>3, <3>4 DEF OpenPath, GetThere, TypeOK
  <2>2. CASE GetNew(d, p)
    <3>1. PICK c \in Pools :
            /\ m_pool' = [m_pool EXCEPT ![d] = c]
            /\ s_pools' = [s_pools EXCEPT ![p] = [pool |-> c, count |-> 1]]
            /\ path' = [path EXCEPT ![c] = p]
            /\ tag' = [tag EXCEPT ![c] = None]
      BY <2>2 DEF GetNew
    <3>2. s_pools' \in [Paths -> Entries]
      BY <3>1, NewEntry DEF TypeOK
    <3> QED
      BY <1>1, <3>1, <3>2 DEF OpenPath, TypeOK
  <2> QED
    BY <1>1, <2>1, <2>2 DEF OpenPath, Get
<1>2. ASSUME NEW d \in Databases, NEW t \in Tags, OpenTag(d, t)
      PROVE  TypeOK'
  <2>1. PICK p \in Paths : /\ s_pools[p].pool # None
                           /\ m_pool' = [m_pool EXCEPT ![d] = s_pools[p].pool]
    BY <1>2 DEF OpenTag
  <2>2. s_pools[p].pool \in Pools
    BY <2>1 DEF TypeOK, Entries
  <2> QED
    BY <1>2, <2>1, <2>2 DEF OpenTag, TypeOK
<1>3. ASSUME NEW d \in Databases, NEW t \in Tags, SetTag(d, t)
      PROVE  TypeOK'
  BY <1>3 DEF SetTag, TypeOK
<1>4. ASSUME NEW d \in Databases, Retain(d)
      PROVE  TypeOK'
  BY <1>4 DEF Retain, TypeOK
<1>5. ASSUME NEW d \in Databases, Release(d)
      PROVE  TypeOK'
  BY <1>5 DEF Release, Live, TypeOK
<1>6. ASSUME NEW d \in Databases, Recycle(d)
      PROVE  TypeOK'
  <2> DEFINE p == path[m_pool[d]]
  <2>1. p \in Paths
    BY <1>6 DEF Recycle, TypeOK
  <2>2. CASE s_pools[p].pool = None
    BY <1>6, <2>2 DEF Recycle, TypeOK
  <2>3. CASE s_pools[p].pool # None
    <3>1. /\ s_pools[p] \in Entries /\ m_pool' = [m_pool EXCEPT ![d] = None]
          /\ s_pools' = [s_pools EXCEPT ![p] =
                IF s_pools[p].count = 1 THEN NoEntry
                                       ELSE [s_pools[p] EXCEPT !.count = s_pools[p].count - 1]]
      BY <1>6, <2>1, <2>3 DEF Recycle, Uncount, TypeOK
    <3>2. [s_pools[p] EXCEPT !.count = s_pools[p].count - 1] \in Entries
      BY <3>1, CountedEntry DEF Entries
    <3>3. s_pools' \in [Paths -> Entries]
      BY <3>1, <3>2, NoEntryIsEntry DEF TypeOK
    <3> QED
      BY <1>6, <2>3, <3>1, <3>3 DEF Recycle, TypeOK
  <2> QED
    BY <2>2, <2>3
<1> QED
  BY <1>1, <1>2, <1>3, <1>4, <1>5, <1>6 DEF Next

\* In every reachable state each variable has its type.
THEOREM RegistryTypeCorrect == Spec => []TypeOK
  BY TypeInit, TypeStep, PTL DEF Spec

-----------------------------------------------------------------------------
(* The count.                                                              *)

LEMMA UsersFinite ==
    ASSUME NEW p \in Paths
    PROVE  IsFiniteSet(UsersOf(p)) /\ Cardinality(UsersOf(p)) \in Nat
<1>1. UsersOf(p) \subseteq Databases
  BY DEF UsersOf
<1> QED
  BY <1>1, RegistryAssumption, FS_Subset, FS_CardinalityType

LEMMA CountInit == Init => IInv
<1> SUFFICES ASSUME Init PROVE IInv
  OBVIOUS
<1>1. \A p \in Paths : UsersOf(p) = {} /\ s_pools[p].pool = None /\ s_pools[p].count = 0
  BY DEF Init, UsersOf, NoEntry
<1>2. CountIsExact /\ NotLeaked
  BY <1>1, FS_EmptySet DEF CountIsExact, NotLeaked, Init
<1> QED
  BY <1>2, TypeInit DEF IInv, Init

\* What a step that changes one entry and one database must show.
LEMMA CountFollows ==
    ASSUME IInv, TypeOK', ~ crashed', NEW p \in Paths,
           \A q \in Paths \ {p} : s_pools'[q] = s_pools[q] /\ UsersOf(q)' = UsersOf(q),
           \A q \in Paths \ {p} : \A d \in UsersOf(q) : m_pool'[d] = m_pool[d],
           s_pools'[p].count = Cardinality(UsersOf(p)'),
           \A d \in UsersOf(p)' : s_pools'[p].pool = m_pool'[d],
           s_pools'[p].pool # None => UsersOf(p)' # {}
    PROVE  CountIsExact' /\ NotLeaked'
<1>1. ASSUME NEW q \in Paths
      PROVE  /\ s_pools'[q].count = Cardinality(UsersOf(q)')
             /\ \A d \in UsersOf(q)' : s_pools'[q].pool = m_pool'[d]
             /\ s_pools'[q].pool # None => UsersOf(q)' # {}
  <2>1. CASE q = p
    BY <2>1
  <2>2. CASE q # p
    BY <2>2 DEF IInv, CountIsExact, NotLeaked
  <2> QED
    BY <2>1, <2>2
<1> QED
  BY <1>1 DEF CountIsExact, NotLeaked

LEMMA OpenPathCounts ==
    ASSUME IInv, TypeOK', NEW d \in Databases, NEW p \in Paths, OpenPath(d, p)
    PROVE  IInv'
<1> USE RegistryAssumption
<1>1. m_pool[d] = None /\ ~ crashed /\ ~ crashed' /\ m_reference' = [m_reference EXCEPT ![d] = 1]
  BY DEF OpenPath, Unopened
<1>2. d \notin UsersOf(p)
  BY <1>1 DEF UsersOf
<1>3. CASE GetThere(d, p)
  <2> DEFINE c == s_pools[p].pool
  <2>1. PICK e \in UsersOf(p) : m_pool[e] = c
    BY <1>3 DEF GetThere, IInv, NotLeaked, CountIsExact
  <2>2. c \in Pools /\ path[c] = p
    BY <2>1 DEF UsersOf, IInv, TypeOK
  <2>3. m_pool' = [m_pool EXCEPT ![d] = c] /\ path' = path /\ Found(p)
    BY <1>3 DEF GetThere
  <2> HIDE DEF c
  <2>4. UsersOf(p)' = UsersOf(p) \cup {d}
    BY <1>1, <2>2, <2>3 DEF UsersOf, IInv, TypeOK
  <2>5. \A q \in Paths \ {p} : UsersOf(q)' = UsersOf(q)
    BY <1>1, <2>2, <2>3 DEF UsersOf, IInv, TypeOK
  <2>6. s_pools[p] \in Entries /\ s_pools \in [Paths -> Entries]
    BY DEF IInv, TypeOK
  <2>7. s_pools' = [s_pools EXCEPT ![p] = [s_pools[p] EXCEPT !.count = s_pools[p].count + 1]]
    BY <2>3, <2>6 DEF Found, Entries
  <2>8. s_pools'[p].pool = c /\ s_pools'[p].count = s_pools[p].count + 1
    BY <2>6, <2>7, CountedEntry DEF c
  <2>9. Cardinality(UsersOf(p)') = Cardinality(UsersOf(p)) + 1
    <3>1. IsFiniteSet(UsersOf(p))
      BY UsersFinite
    <3>2. Cardinality(UsersOf(p) \cup {d}) = Cardinality(UsersOf(p)) + 1
      BY <1>2, <3>1, FS_AddElement
    <3> QED
      BY <2>4, <3>2
  <2>10. s_pools'[p].count = Cardinality(UsersOf(p)')
    BY <2>8, <2>9 DEF IInv, CountIsExact
  <2>11. \A o \in UsersOf(p)' : m_pool'[o] = c
    BY <2>3, <2>4 DEF IInv, CountIsExact, TypeOK, UsersOf, c
  <2>12. \A q \in Paths \ {p} : s_pools'[q] = s_pools[q]
    BY <2>6, <2>7
  <2>13. \A q \in Paths \ {p} : \A o \in UsersOf(q) : m_pool'[o] = m_pool[o]
    BY <1>1, <2>3 DEF UsersOf, IInv, TypeOK
  <2>14. UsersOf(p)' # {}
    BY <2>4
  <2>15. CountIsExact' /\ NotLeaked'
    BY <1>1, <2>5, <2>8, <2>10, <2>11, <2>12, <2>13, <2>14, CountFollows
  <2> QED
    BY <1>1, <2>2, <2>3, <2>15 DEF IInv, TypeOK
<1>4. CASE GetNew(d, p)
  <2>1. PICK c \in Pools :
          /\ Gone(c)
          /\ m_pool' = [m_pool EXCEPT ![d] = c]
          /\ s_pools' = [s_pools EXCEPT ![p] = [pool |-> c, count |-> 1]]
          /\ path' = [path EXCEPT ![c] = p]
    BY <1>4 DEF GetNew
  <2>2. UsersOf(p) = {}
    BY <1>4 DEF GetNew, UsersOf, IInv, CountIsExact
  <2>3. \A o \in Databases : m_pool[o] # c
    BY <2>1 DEF Gone
  <2>4. \A o \in Databases \ {d} : m_pool'[o] = m_pool[o] /\ (m_pool[o] # None => path'[m_pool'[o]] = path[m_pool[o]])
    BY <2>1, <2>3 DEF IInv, TypeOK
  <2>5. m_pool'[d] = c /\ path'[c] = p /\ c # None
    BY <2>1 DEF IInv, TypeOK
  <2>6. UsersOf(p)' = {d}
    BY <2>2, <2>4, <2>5 DEF UsersOf
  <2>7. \A q \in Paths \ {p} : UsersOf(q)' = UsersOf(q)
    BY <1>1, <2>4, <2>5 DEF UsersOf
  <2>8. s_pools'[p].pool = c /\ s_pools'[p].count = 1
    BY <2>1 DEF IInv, TypeOK
  <2>9. s_pools'[p].count = Cardinality(UsersOf(p)')
    BY <2>6, <2>8, FS_Singleton
  <2>10. \A q \in Paths \ {p} : s_pools'[q] = s_pools[q]
    BY <2>1 DEF IInv, TypeOK
  <2>11. \A q \in Paths \ {p} : \A o \in UsersOf(q) : m_pool'[o] = m_pool[o]
    BY <1>1, <2>4 DEF UsersOf
  <2>12. \A o \in UsersOf(p)' : s_pools'[p].pool = m_pool'[o]
    BY <2>5, <2>6, <2>8
  <2>13. UsersOf(p)' # {}
    BY <2>6
  <2>14. CountIsExact' /\ NotLeaked'
    BY <1>1, <2>7, <2>9, <2>10, <2>11, <2>12, <2>13, CountFollows
  <2> QED
    BY <1>1, <2>4, <2>5, <2>14 DEF IInv, TypeOK
<1> QED
  BY <1>3, <1>4 DEF OpenPath, Get

LEMMA RecycleCounts ==
    ASSUME IInv, TypeOK', NEW d \in Databases, Recycle(d)
    PROVE  IInv'
<1> USE RegistryAssumption
<1>0. PICK p \in Paths : p = path[m_pool[d]]
  BY DEF Recycle, IInv, TypeOK
<1>1. m_pool[d] # None /\ p \in Paths /\ ~ Live(d) /\ m_reference' = m_reference /\ path' = path
  BY DEF Recycle
<1>2. d \in UsersOf(p)
  BY <1>0, <1>1 DEF UsersOf
<1>3. s_pools[p].pool = m_pool[d] /\ s_pools[p].count = Cardinality(UsersOf(p))
  BY <1>1, <1>2 DEF IInv, CountIsExact
<1>4. Uncount(p) /\ m_pool' = [m_pool EXCEPT ![d] = None] /\ ~ crashed'
  BY <1>0, <1>1, <1>3 DEF Recycle, IInv, CountIsExact
<1>5. UsersOf(p)' = UsersOf(p) \ {d}
  BY <1>1, <1>4 DEF UsersOf, IInv, TypeOK
<1>6. \A q \in Paths \ {p} : UsersOf(q)' = UsersOf(q) /\ d \notin UsersOf(q)
  BY <1>0, <1>1, <1>4 DEF UsersOf, IInv, TypeOK
<1>7. Cardinality(UsersOf(p)') = Cardinality(UsersOf(p)) - 1
  BY <1>1, <1>2, <1>5, UsersFinite, FS_RemoveElement
<1>8. s_pools[p] \in Entries /\ s_pools \in [Paths -> Entries]
  BY <1>1 DEF IInv, TypeOK
<1>9. \A q \in Paths \ {p} : s_pools'[q] = s_pools[q]
  BY <1>4, <1>8 DEF Uncount
<1>10. \A q \in Paths \ {p} : \A o \in UsersOf(q) : m_pool'[o] = m_pool[o]
  BY <1>4, <1>6 DEF UsersOf, IInv, TypeOK
<1>11. \A o \in UsersOf(p)' : o # d /\ m_pool'[o] = s_pools[p].pool
  BY <1>1, <1>4, <1>5 DEF UsersOf, IInv, TypeOK, CountIsExact
<1>12. \A q \in Paths \ {p} : UsersOf(q)' = UsersOf(q)
  BY <1>6
<1>13. \A o \in UsersOf(p)' : m_pool'[o] = s_pools[p].pool
  BY <1>11
<1>14. CASE s_pools[p].count = 1
  <2>1. s_pools'[p] = NoEntry
    BY <1>1, <1>4, <1>8, <1>14 DEF Uncount
  <2>2. IsFiniteSet(UsersOf(p)') /\ Cardinality(UsersOf(p)') = 0
    BY <1>1, <1>3, <1>5, <1>7, <1>14, UsersFinite, FS_Subset
  <2>3. UsersOf(p)' = {}
    BY <2>2, FS_EmptySet
  <2>4. s_pools'[p].pool = None /\ s_pools'[p].count = Cardinality(UsersOf(p)')
    BY <2>1, <2>2 DEF NoEntry
  <2>5. CountIsExact' /\ NotLeaked'
    BY <1>4, <1>12, <1>9, <1>10, <2>3, <2>4, CountFollows
  <2> QED
    BY <1>1, <1>4, <2>5 DEF IInv, TypeOK, Live
<1>15. CASE s_pools[p].count # 1
  <2>1. s_pools'[p] = [s_pools[p] EXCEPT !.count = s_pools[p].count - 1]
    BY <1>1, <1>4, <1>8, <1>15 DEF Uncount
  <2>2. s_pools'[p].pool = s_pools[p].pool /\ s_pools'[p].count = s_pools[p].count - 1
    BY <1>8, <2>1, CountedEntry
  <2>3. s_pools'[p].count = Cardinality(UsersOf(p)')
    BY <1>3, <1>7, <2>2
  <2>4. UsersOf(p)' # {}
    <3>1. Cardinality(UsersOf(p)) \in Nat /\ Cardinality({}) = 0
      BY UsersFinite, FS_EmptySet
    <3>2. Cardinality(UsersOf(p)) - 1 # 0
      BY <1>3, <1>15, <3>1
    <3>3. Cardinality(UsersOf(p)') # 0
      BY <1>7, <3>2
    <3> QED
      BY <3>1, <3>3
  <2>5. \A o \in UsersOf(p)' : s_pools'[p].pool = m_pool'[o]
    BY <1>13, <2>2
  <2>6. CountIsExact' /\ NotLeaked'
    BY <1>4, <1>12, <1>9, <1>10, <2>3, <2>4, <2>5, CountFollows
  <2> QED
    BY <1>1, <1>4, <2>6 DEF IInv, TypeOK, Live
<1> QED
  BY <1>14, <1>15

LEMMA CountStep == ~ tagged' /\ IInv /\ [Next]_vars => IInv'
<1> SUFFICES ASSUME ~ tagged', IInv, [Next]_vars PROVE IInv'
  OBVIOUS
<1>1. TypeOK'
  BY TypeStep DEF IInv
<1>2. ASSUME UNCHANGED <<s_pools, m_pool, path, crashed>>,
             \A d \in Databases : m_pool[d] = None => m_reference'[d] = 0
      PROVE  IInv'
  <2>1. \A p \in Paths : UsersOf(p)' = UsersOf(p)
    BY <1>2 DEF UsersOf
  <2> QED
    BY <1>1, <1>2, <2>1 DEF IInv, CountIsExact, NotLeaked
<1>3. CASE UNCHANGED vars
  BY <1>2, <1>3 DEF vars, IInv
<1>4. ASSUME NEW d \in Databases, NEW t \in Tags, SetTag(d, t)
      PROVE  IInv'
  BY <1>2, <1>4 DEF SetTag, IInv
<1>5. ASSUME NEW d \in Databases, Retain(d)
      PROVE  IInv'
  BY <1>2, <1>5 DEF Retain, IInv, TypeOK
<1>6. ASSUME NEW d \in Databases, Release(d)
      PROVE  IInv'
  BY <1>2, <1>6 DEF Release, Live, IInv, TypeOK
<1>7. CASE Next
  BY <1>1, <1>4, <1>5, <1>6, <1>7, OpenPathCounts, RecycleCounts DEF Next, OpenTag
<1> QED
  BY <1>3, <1>7

\* The history variable never goes back.
LEMMA TaggedForEver == TypeOK /\ tagged /\ [Next]_vars => tagged'
  BY DEF Next, vars, OpenPath, OpenTag, SetTag, Retain, Release, Recycle

\* What holds for ever.
ByPath == TypeOK /\ (~ tagged => IInv)

LEMMA CountInvariant == Spec => []ByPath
<1>1. Init => ByPath
  BY CountInit, TypeInit DEF ByPath
<1>2. ByPath /\ [Next]_vars => ByPath'
  <2> SUFFICES ASSUME ByPath, [Next]_vars PROVE ByPath'
    OBVIOUS
  <2>1. TypeOK'
    BY TypeStep DEF ByPath
  <2>2. ASSUME ~ tagged' PROVE IInv'
    <3>1. ~ tagged
      BY <2>2, TaggedForEver DEF ByPath, TypeOK
    <3> QED
      BY <2>2, <3>1, CountStep DEF ByPath
  <2> QED
    BY <2>1, <2>2 DEF ByPath
<1> QED
  BY <1>1, <1>2, PTL DEF Spec

\* Opened by path only, the count of a path is the number of those who will
\* recycle it, and no recycling misses its entry.
THEOREM RegistryCounts == Spec => [](~ tagged => CountIsExact)
<1>1. ByPath => (~ tagged => CountIsExact)
  BY DEF ByPath, IInv
<1> QED
  BY <1>1, CountInvariant, PTL

\* Opened by path only, databases of one path share one core.
THEOREM RegistrySharesCore == Spec => [](~ tagged => SameCore)
<1>1. ByPath => (~ tagged => SameCore)
  <2> SUFFICES ASSUME IInv, NEW p \in Paths, NEW d \in UsersOf(p), NEW e \in UsersOf(p)
               PROVE  m_pool[d] = m_pool[e]
    BY DEF SameCore, ByPath
  <2> QED
    BY DEF IInv, CountIsExact
<1> QED
  BY <1>1, CountInvariant, PTL

-----------------------------------------------------------------------------
(* A pool in the registry has somebody, with databases opened by tag as    *)
(* without: whoever opens by tag is not counted but uses the pool, so that *)
(* the count of an entry never exceeds its users.                          *)

Covered(p) == s_pools[p].pool # None =>
    /\ path[s_pools[p].pool] = p
    /\ s_pools[p].count \in 1 .. Cardinality(UsersOf(p))

LeakInv == TypeOK /\ \A p \in Paths : Covered(p)

LEMMA LeakInit == Init => LeakInv
<1> SUFFICES ASSUME Init PROVE LeakInv
  OBVIOUS
<1>1. \A p \in Paths : s_pools[p].pool = None
  BY DEF Init, NoEntry
<1> QED
  BY <1>1, TypeInit DEF LeakInv, Covered

\* An entry that a step leaves alone stays covered if it loses no user.
LEMMA StaysCovered ==
    ASSUME LeakInv, NEW p \in Paths, s_pools'[p] = s_pools[p],
           UsersOf(p) \subseteq UsersOf(p)', IsFiniteSet(UsersOf(p)'),
           s_pools[p].pool # None => path'[s_pools[p].pool] = p
    PROVE  Covered(p)'
<1>1. Cardinality(UsersOf(p)) \in Nat /\ Cardinality(UsersOf(p)') \in Nat
  BY UsersFinite, FS_CardinalityType
<1>2. Cardinality(UsersOf(p)) <= Cardinality(UsersOf(p)')
  BY FS_Subset
<1>3. s_pools[p].count \in Int
  BY DEF LeakInv, TypeOK, Entries
<1> QED
  BY <1>1, <1>2, <1>3 DEF LeakInv, Covered

LEMMA UsersFiniteNext ==
    ASSUME NEW p \in Paths
    PROVE  IsFiniteSet(UsersOf(p)') /\ Cardinality(UsersOf(p)') \in Nat
<1>1. UsersOf(p)' \subseteq Databases
  BY DEF UsersOf
<1> QED
  BY <1>1, RegistryAssumption, FS_Subset, FS_CardinalityType

\* A database that begins to use the pool of a path.
LEMMA JoinCovers ==
    ASSUME LeakInv, NEW d \in Databases, NEW p \in Paths, m_pool[d] = None,
           s_pools[p].pool # None, path' = path,
           m_pool' = [m_pool EXCEPT ![d] = s_pools[p].pool]
    PROVE  /\ \A q \in Paths : UsersOf(q) \subseteq UsersOf(q)'
           /\ Cardinality(UsersOf(p)') = Cardinality(UsersOf(p)) + 1
<1> USE RegistryAssumption
<1>1. s_pools[p].pool \in Pools /\ path[s_pools[p].pool] = p
  BY DEF LeakInv, TypeOK, Entries, Covered
<1>2. \A q \in Paths : UsersOf(q) \subseteq UsersOf(q)'
  BY DEF UsersOf, LeakInv, TypeOK
<1>3. UsersOf(p)' = UsersOf(p) \cup {d} /\ d \notin UsersOf(p)
  BY <1>1 DEF UsersOf, LeakInv, TypeOK
<1>4. Cardinality(UsersOf(p) \cup {d}) = Cardinality(UsersOf(p)) + 1
  BY <1>3, UsersFinite, FS_AddElement
<1> QED
  BY <1>2, <1>3, <1>4

LEMMA OpenPathCovers ==
    ASSUME LeakInv, NEW d \in Databases, NEW p \in Paths, OpenPath(d, p), NEW q \in Paths
    PROVE  Covered(q)'
<1> USE RegistryAssumption
<1>1. m_pool[d] = None
  BY DEF OpenPath, Unopened
<1>2. s_pools[p] \in Entries /\ s_pools \in [Paths -> Entries]
  BY DEF LeakInv, TypeOK
<1>3. CASE GetThere(d, p)
  <2>1. /\ s_pools[p].pool # None /\ path' = path
        /\ m_pool' = [m_pool EXCEPT ![d] = s_pools[p].pool]
        /\ s_pools' = [s_pools EXCEPT ![p] = [s_pools[p] EXCEPT !.count = s_pools[p].count + 1]]
    BY <1>2, <1>3 DEF GetThere, Found, Entries
  <2>2. /\ UsersOf(q) \subseteq UsersOf(q)'
        /\ Cardinality(UsersOf(p)') = Cardinality(UsersOf(p)) + 1
    BY <1>1, <2>1, JoinCovers
  <2>3. CASE q = p
    <3>1. s_pools'[p].pool = s_pools[p].pool /\ s_pools'[p].count = s_pools[p].count + 1
      BY <1>2, <2>1, CountedEntry DEF Entries
    <3>2. Cardinality(UsersOf(p)) \in Nat
      BY UsersFinite
    <3>3. path[s_pools[p].pool] = p /\ s_pools[p].count \in 1 .. Cardinality(UsersOf(p))
      BY <2>1 DEF LeakInv, Covered
    <3>4. s_pools'[p].count \in 1 .. Cardinality(UsersOf(p)')
      BY <2>2, <3>1, <3>2, <3>3
    <3> QED
      BY <2>1, <2>3, <3>1, <3>3, <3>4 DEF Covered
  <2>4. CASE q # p
    <3>1. s_pools'[q] = s_pools[q]
      BY <1>2, <2>1, <2>4
    <3>2. s_pools[q].pool # None => path'[s_pools[q].pool] = q
      BY <2>1 DEF LeakInv, Covered
    <3> QED
      BY <2>2, <3>1, <3>2, UsersFiniteNext, StaysCovered
  <2> QED
    BY <2>3, <2>4
<1>4. CASE GetNew(d, p)
  <2>1. PICK c \in Pools :
          /\ Gone(c)
          /\ m_pool' = [m_pool EXCEPT ![d] = c]
          /\ s_pools' = [s_pools EXCEPT ![p] = [pool |-> c, count |-> 1]]
          /\ path' = [path EXCEPT ![c] = p]
    BY <1>4 DEF GetNew
  <2>2. UsersOf(q) \subseteq UsersOf(q)'
    <3> SUFFICES ASSUME NEW o \in UsersOf(q) PROVE o \in UsersOf(q)'
      OBVIOUS
    <3>1. o \in Databases /\ m_pool[o] \in Pools /\ m_pool[o] # c /\ o # d /\ path[m_pool[o]] = q
      BY <1>1, <2>1 DEF UsersOf, Gone, LeakInv, TypeOK
    <3>2. m_pool'[o] = m_pool[o] /\ path'[m_pool[o]] = q
      BY <2>1, <3>1 DEF LeakInv, TypeOK
    <3> QED
      BY <3>1, <3>2 DEF UsersOf
  <2>3. CASE q = p
    <3>1. s_pools'[p] = [pool |-> c, count |-> 1] /\ path'[c] = p /\ m_pool'[d] = c /\ c # None
      BY <1>2, <2>1 DEF LeakInv, TypeOK
    <3>2. d \in UsersOf(p)'
      BY <3>1 DEF UsersOf
    <3>3. Cardinality(UsersOf(p)') \in Nat /\ Cardinality(UsersOf(p)') # 0
      BY <3>2, UsersFiniteNext, FS_EmptySet
    <3>4. 1 \in 1 .. Cardinality(UsersOf(p)')
      BY <3>3
    <3> QED
      BY <2>3, <3>1, <3>4 DEF Covered
  <2>4. CASE q # p
    <3>1. s_pools'[q] = s_pools[q]
      BY <1>2, <2>1, <2>4
    <3>2. s_pools[q].pool # None => path'[s_pools[q].pool] = q
      <4> SUFFICES ASSUME s_pools[q].pool # None PROVE path'[s_pools[q].pool] = q
        OBVIOUS
      <4>1. s_pools[q].pool \in Pools /\ s_pools[q].pool # c /\ path[s_pools[q].pool] = q
        BY <2>1 DEF LeakInv, TypeOK, Entries, Covered, Gone
      <4> QED
        BY <2>1, <4>1 DEF LeakInv, TypeOK
    <3> QED
      BY <2>2, <3>1, <3>2, UsersFiniteNext, StaysCovered
  <2> QED
    BY <2>3, <2>4
<1> QED
  BY <1>3, <1>4 DEF OpenPath, Get

LEMMA OpenTagCovers ==
    ASSUME LeakInv, NEW d \in Databases, NEW t \in Tags, OpenTag(d, t), NEW q \in Paths
    PROVE  Covered(q)'
<1>1. m_pool[d] = None /\ s_pools' = s_pools /\ path' = path
  BY DEF OpenTag, Unopened
<1>2. PICK p \in Paths : s_pools[p].pool # None /\ m_pool' = [m_pool EXCEPT ![d] = s_pools[p].pool]
  BY DEF OpenTag
<1>3. UsersOf(q) \subseteq UsersOf(q)'
  BY <1>1, <1>2, JoinCovers
<1>4. s_pools[q].pool # None => path'[s_pools[q].pool] = q
  BY <1>1 DEF LeakInv, Covered
<1> QED
  BY <1>1, <1>3, <1>4, UsersFiniteNext, StaysCovered

LEMMA RecycleCovers ==
    ASSUME LeakInv, NEW d \in Databases, Recycle(d), NEW q \in Paths
    PROVE  Covered(q)'
<1> USE RegistryAssumption
<1>0. PICK p \in Paths : p = path[m_pool[d]]
  BY DEF Recycle, LeakInv, TypeOK
<1>1. m_pool[d] # None /\ path' = path
  BY DEF Recycle
<1>2. s_pools[q].pool # None => path'[s_pools[q].pool] = q
  BY <1>1 DEF LeakInv, Covered
<1>3. CASE s_pools[p].pool = None
  <2>1. s_pools' = s_pools /\ m_pool' = m_pool
    BY <1>0, <1>3 DEF Recycle
  <2>2. UsersOf(q)' = UsersOf(q)
    BY <1>1, <2>1 DEF UsersOf
  <2> QED
    BY <1>2, <2>1, <2>2, UsersFiniteNext, StaysCovered
<1>4. CASE s_pools[p].pool # None
  <2>1. Uncount(p) /\ m_pool' = [m_pool EXCEPT ![d] = None]
    BY <1>0, <1>4 DEF Recycle
  <2>2. s_pools[p] \in Entries /\ s_pools \in [Paths -> Entries]
    BY DEF LeakInv, TypeOK
  <2>3. CASE q = p /\ s_pools[p].count = 1
    <3>1. s_pools'[p] = NoEntry
      BY <2>1, <2>2, <2>3 DEF Uncount
    <3> QED
      BY <2>3, <3>1 DEF Covered, NoEntry
  <2>4. CASE q = p /\ s_pools[p].count # 1
    <3>1. s_pools'[p] = [s_pools[p] EXCEPT !.count = s_pools[p].count - 1]
      BY <2>1, <2>2, <2>4 DEF Uncount
    <3>2. s_pools'[p].pool = s_pools[p].pool /\ s_pools'[p].count = s_pools[p].count - 1
      BY <2>2, <3>1, CountedEntry DEF Entries
    <3>3. UsersOf(p)' = UsersOf(p) \ {d} /\ d \in UsersOf(p)
      BY <1>0, <1>1, <2>1 DEF UsersOf, LeakInv, TypeOK
    <3>4. Cardinality(UsersOf(p)') = Cardinality(UsersOf(p)) - 1
      BY <3>3, UsersFinite, FS_RemoveElement
    <3>5. Cardinality(UsersOf(p)) \in Nat
      BY UsersFinite
    <3>6. path[s_pools[p].pool] = p /\ s_pools[p].count \in 1 .. Cardinality(UsersOf(p))
      BY <1>4 DEF LeakInv, Covered
    <3>7. s_pools'[p].count \in 1 .. Cardinality(UsersOf(p)')
      BY <2>4, <3>2, <3>4, <3>5, <3>6
    <3> QED
      BY <1>1, <2>4, <3>2, <3>6, <3>7 DEF Covered
  <2>5. CASE q # p
    <3>1. s_pools'[q] = s_pools[q]
      BY <2>1, <2>2, <2>5 DEF Uncount
    <3>2. UsersOf(q)' = UsersOf(q)
      BY <1>0, <1>1, <2>1, <2>5 DEF UsersOf, LeakInv, TypeOK
    <3> QED
      BY <1>2, <3>1, <3>2, UsersFiniteNext, StaysCovered
  <2> QED
    BY <2>3, <2>4, <2>5
<1> QED
  BY <1>3, <1>4

LEMMA LeakStep == LeakInv /\ [Next]_vars => LeakInv'
<1> SUFFICES ASSUME LeakInv, [Next]_vars PROVE LeakInv'
  OBVIOUS
<1>1. TypeOK'
  BY TypeStep DEF LeakInv
<1>2. ASSUME UNCHANGED <<s_pools, m_pool, path>>, NEW q \in Paths
      PROVE  Covered(q)'
  <2>1. UsersOf(q)' = UsersOf(q)
    BY <1>2 DEF UsersOf
  <2>2. s_pools[q].pool # None => path'[s_pools[q].pool] = q
    BY <1>2 DEF LeakInv, Covered
  <2> QED
    BY <1>2, <2>1, <2>2, UsersFiniteNext, StaysCovered
<1>3. ASSUME NEW q \in Paths PROVE Covered(q)'
  <2>1. CASE UNCHANGED vars
    BY <1>2, <2>1 DEF vars
  <2>2. ASSUME NEW d \in Databases, NEW t \in Tags, SetTag(d, t) PROVE Covered(q)'
    BY <1>2, <2>2 DEF SetTag
  <2>3. ASSUME NEW d \in Databases, Retain(d) \/ Release(d) PROVE Covered(q)'
    BY <1>2, <2>3 DEF Retain, Release
  <2>4. CASE Next
    BY <2>2, <2>3, <2>4, OpenPathCovers, OpenTagCovers, RecycleCovers DEF Next
  <2> QED
    BY <2>1, <2>4
<1> QED
  BY <1>1, <1>3 DEF LeakInv

\* The registry holds no pool that nobody has, whatever was opened by tag and
\* even if a recycling found its entry gone.
THEOREM RegistryLeaksNone == Spec => []NotLeaked
<1>1. LeakInv => NotLeaked
  <2> SUFFICES ASSUME LeakInv, NEW p \in Paths, s_pools[p].pool # None PROVE UsersOf(p) # {}
    BY DEF NotLeaked
  <2>1. 1 <= Cardinality(UsersOf(p)) /\ Cardinality(UsersOf(p)) \in Nat
    BY UsersFinite DEF LeakInv, Covered
  <2>2. Cardinality(UsersOf(p)) # 0
    BY <2>1
  <2> QED
    BY <2>2, FS_EmptySet
<1> QED
  BY <1>1, LeakInit, LeakStep, PTL DEF Spec

-----------------------------------------------------------------------------
(* The refinement.                                                         *)

LEMMA PromiseInit == Init => Promise!Init
  BY DEF Init, Promise!Init, File

LEMMA PromiseStep == ~ tagged' /\ IInv /\ [Next]_vars => [Promise!Next]_(Promise!vars)
<1> SUFFICES ASSUME ~ tagged', IInv, [Next]_vars PROVE [Promise!Next]_(Promise!vars)
  OBVIOUS
<1> USE RegistryAssumption
<1>1. ASSUME UNCHANGED <<m_pool, path>> PROVE [Promise!Next]_(Promise!vars)
  BY <1>1 DEF Promise!vars, File
<1>2. ASSUME NEW p \in Paths PROVE Promise!Others(p) = UsersOf(p)
  BY DEF Promise!Others, UsersOf, File
<1>3. ASSUME NEW d \in Databases, NEW p \in Paths, OpenPath(d, p)
      PROVE  Promise!Open(d, p)
  <2>1. m_pool[d] = None
    BY <1>3 DEF OpenPath, Unopened
  <2>2. CASE GetThere(d, p)
    <3>1. PICK e \in UsersOf(p) : m_pool[e] = s_pools[p].pool
      BY <2>2 DEF GetThere, IInv, NotLeaked, CountIsExact
    <3>2. m_pool[e] \in Pools /\ path[m_pool[e]] = p
      BY <3>1 DEF UsersOf, IInv, TypeOK
    <3>3. m_pool' = [m_pool EXCEPT ![d] = m_pool[e]] /\ path' = path
      BY <2>2, <3>1 DEF GetThere
    <3>4. File' = [File EXCEPT ![d] = p]
      BY <2>1, <3>2, <3>3 DEF File, IInv, TypeOK
    <3> QED
      BY <1>2, <2>1, <3>1, <3>2, <3>3, <3>4 DEF Promise!Open
  <2>3. CASE GetNew(d, p)
    <3>1. PICK c \in Pools :
            /\ Gone(c)
            /\ m_pool' = [m_pool EXCEPT ![d] = c]
            /\ path' = [path EXCEPT ![c] = p]
      BY <2>3 DEF GetNew
    <3>2. UsersOf(p) = {}
      BY <2>3 DEF GetNew, UsersOf, IInv, CountIsExact
    <3>3. \A o \in Databases : m_pool[o] # c
      BY <3>1 DEF Gone
    <3>4. File' = [File EXCEPT ![d] = p]
      BY <2>1, <3>1, <3>3 DEF File, IInv, TypeOK
    <3> QED
      BY <1>2, <2>1, <3>1, <3>2, <3>3, <3>4 DEF Promise!Open
  <2> QED
    BY <1>3, <2>2, <2>3 DEF OpenPath, Get
<1>4. ASSUME NEW d \in Databases, Recycle(d)
      PROVE  Promise!Close(d)
  <2>1. m_pool[d] # None /\ path[m_pool[d]] \in Paths /\ d \in UsersOf(path[m_pool[d]])
    BY <1>4 DEF Recycle, IInv, TypeOK, UsersOf
  <2>2. s_pools[path[m_pool[d]]].pool = m_pool[d]
    BY <2>1 DEF IInv, CountIsExact
  <2>3. m_pool' = [m_pool EXCEPT ![d] = None] /\ path' = path
    BY <1>4, <2>1, <2>2 DEF Recycle
  <2>4. File' = [File EXCEPT ![d] = None]
    BY <2>3 DEF File, IInv, TypeOK
  <2> QED
    BY <2>1, <2>3, <2>4 DEF Promise!Close
<1>5. ASSUME NEW d \in Databases, NEW t \in Tags, SetTag(d, t)
      PROVE  [Promise!Next]_(Promise!vars)
  BY <1>1, <1>5 DEF SetTag
<1>6. ASSUME NEW d \in Databases, Retain(d) \/ Release(d)
      PROVE  [Promise!Next]_(Promise!vars)
  BY <1>1, <1>6 DEF Retain, Release
<1>7. CASE Next
  BY <1>3, <1>4, <1>5, <1>6, <1>7 DEF Next, OpenTag, Promise!Next
<1>8. CASE UNCHANGED vars
  BY <1>1, <1>8 DEF vars
<1> QED
  BY <1>7, <1>8

\* As long as nobody opens by tag, the registry implements SharedCore.
THEOREM RegistryKeepsPromise == Spec => SharesCores
<1> DEFINE Step == tagged' \/ Promise!Next \/ UNCHANGED Promise!vars
<1>1. ByPath /\ ByPath' /\ [Next]_vars => [Step]_vars
  <2> SUFFICES ASSUME ByPath, [Next]_vars, ~ tagged'
               PROVE  Promise!Next \/ UNCHANGED Promise!vars
    OBVIOUS
  <2>1. ~ tagged
    BY TaggedForEver DEF ByPath
  <2> QED
    BY <2>1, PromiseStep DEF ByPath
<1>2. Spec => []ByPath
  BY CountInvariant
<1> QED
  BY PromiseInit, <1>1, <1>2, PTL DEF Spec, SharesCores
=============================================================================
