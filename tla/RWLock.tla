------------------------------- MODULE RWLock -------------------------------
(***************************************************************************)
(* WCDB's RWLock (util/rwlock.cpp): three counters behind a mutex and one  *)
(* condition variable on which readers and writers wait together.          *)
(*                                                                         *)
(* What runs with the mutex held is one step; waiting on the condition     *)
(* variable ends the step and a woken user runs the loop's test again.     *)
(***************************************************************************)
EXTENDS Naturals, FiniteSets

CONSTANT Users  \* who lock and unlock, as in SharedLock

ASSUME UsersAssumption == IsFiniteSet(Users)

VARIABLES
    m_reader, m_writer, m_pending,
    pc,         \* pc[u]: the call u is in, or what it holds
    parked      \* the users asleep on m_cond

lockVars == <<m_reader, m_writer, m_pending, pc, parked>>

At(where) == {u \in Users : pc[u] = where}

Waiting == At("lockRead") \cup At("lockWrite")

LockTypeOK ==
    /\ m_reader \in Nat /\ m_writer \in Nat /\ m_pending \in Nat
    /\ pc \in [Users -> {"out", "lockRead", "lockWrite", "reading", "writing"}]
    /\ parked \subseteq Waiting

LockInit ==
    /\ m_reader = 0 /\ m_writer = 0 /\ m_pending = 0
    /\ pc = [u \in Users |-> "out"]
    /\ parked = {}

Goes(u, to) == pc' = [pc EXCEPT ![u] = to]

Park(u) == parked' = parked \cup {u}
Unpark(u) == parked' = parked \ {u}

NotifyAll == parked' = {}

-----------------------------------------------------------------------------
(* Seeded faults.  No step uses these operators: each is a definition      *)
(* below with a mistake one could make in the code, and the property named *)
(* fails when it takes that definition's place.                            *)

\* Readers do not mind a waiting writer: ImplementsSharedLock.
FaultReadersMindOnlyWriters == m_writer > 0

\* The last reader wakes one sleeper: AwakeWhenDue.
FaultNotifyOne(u) ==
    /\ pc[u] = "reading" /\ Goes(u, "out")
    /\ m_reader' = m_reader - 1
    /\ IF m_reader' = 0 /\ parked # {}
       THEN \E v \in parked : Unpark(v)
       ELSE UNCHANGED parked
    /\ UNCHANGED <<m_writer, m_pending>>

\* A writer leaves without waking anybody: WriterGetsIn.
FaultNoNotify(u) ==
    /\ pc[u] = "writing" /\ Goes(u, "out")
    /\ m_writer' = m_writer - 1
    /\ UNCHANGED <<m_reader, m_pending, parked>>

-----------------------------------------------------------------------------
(* Reading.                                                                *)

ReaderMustWait == m_writer > 0 \/ m_pending > 0

LockRead(u) ==
    /\ pc[u] = "out"
    /\ IF ReaderMustWait
       THEN Goes(u, "lockRead") /\ Park(u) /\ UNCHANGED m_reader
       ELSE Goes(u, "reading") /\ m_reader' = m_reader + 1 /\ UNCHANGED parked
    /\ UNCHANGED <<m_writer, m_pending>>

LockReadAgain(u) ==
    /\ pc[u] = "lockRead" /\ u \notin parked
    /\ IF ReaderMustWait
       THEN Park(u) /\ UNCHANGED <<pc, m_reader>>
       ELSE Goes(u, "reading") /\ m_reader' = m_reader + 1 /\ UNCHANGED parked
    /\ UNCHANGED <<m_writer, m_pending>>

\* A refused try changes nothing.
TryLockRead(u) ==
    /\ pc[u] = "out" /\ ~ ReaderMustWait
    /\ Goes(u, "reading")
    /\ m_reader' = m_reader + 1
    /\ UNCHANGED <<m_writer, m_pending, parked>>

UnlockRead(u) ==
    /\ pc[u] = "reading" /\ Goes(u, "out")
    /\ m_reader' = m_reader - 1
    /\ IF m_reader' = 0 THEN NotifyAll ELSE UNCHANGED parked
    /\ UNCHANGED <<m_writer, m_pending>>

-----------------------------------------------------------------------------
(* Writing.                                                                *)

WriterMustWait == m_writer > 0 \/ m_reader > 0

\* What follows the loop of lockWrite.
EnterWrite(u) ==
    /\ Unpark(u) /\ Goes(u, "writing")
    /\ m_pending' = m_pending - 1
    /\ m_writer' = m_writer + 1
    /\ UNCHANGED m_reader

\* m_pending goes up and down again in the same step when there is no wait.
LockWrite(u) ==
    /\ pc[u] = "out"
    /\ IF WriterMustWait
       THEN /\ Goes(u, "lockWrite") /\ Park(u)
            /\ m_pending' = m_pending + 1
            /\ UNCHANGED <<m_reader, m_writer>>
       ELSE /\ Goes(u, "writing")
            /\ m_writer' = m_writer + 1
            /\ UNCHANGED <<m_reader, m_pending, parked>>

LockWriteAgain(u) ==
    /\ pc[u] = "lockWrite" /\ u \notin parked
    /\ IF WriterMustWait THEN Park(u) /\ UNCHANGED <<m_reader, m_writer, m_pending, pc>>
                         ELSE EnterWrite(u)

TryLockWrite(u) ==
    /\ pc[u] = "out" /\ ~ WriterMustWait
    /\ Goes(u, "writing")
    /\ m_writer' = 1
    /\ UNCHANGED <<m_reader, m_pending, parked>>

UnlockWrite(u) ==
    /\ pc[u] = "writing" /\ Goes(u, "out")
    /\ m_writer' = m_writer - 1
    /\ NotifyAll
    /\ UNCHANGED <<m_reader, m_pending>>

\* A condition variable may wake somebody for no reason (external).
SpuriousWakeup(u) ==
    /\ u \in parked /\ Unpark(u)
    /\ UNCHANGED <<m_reader, m_writer, m_pending, pc>>

-----------------------------------------------------------------------------
Proceed(u) == LockReadAgain(u) \/ LockWriteAgain(u) \/ UnlockRead(u) \/ UnlockWrite(u)

LockNext == \E u \in Users :
    \/ LockRead(u) \/ TryLockRead(u) \/ LockWrite(u) \/ TryLockWrite(u)
    \/ Proceed(u)
    \/ SpuriousWakeup(u)

LockSpec == LockInit /\ [][LockNext]_lockVars

\* Whoever is awake inside a call gets the processor and the mutex, and whoever
\* holds the lock lets go of it.  Nobody has to ask for it.
FairLockSpec == LockSpec /\ \A u \in Users : WF_lockVars(Proceed(u))

-----------------------------------------------------------------------------
(* Properties.                                                             *)

Promised == [u \in Users |-> CASE pc[u] = "lockRead"  -> "out"
                               [] pc[u] = "lockWrite" -> "wants"
                               [] OTHER               -> pc[u]]

LockPromise == INSTANCE SharedLock WITH mode <- Promised

\* Every step of the lock is a step of what it promises: nobody enters besides a
\* writer, and no reader enters past a writer who waits, whoever is woken first.
ImplementsSharedLock == LockPromise!Spec

Exclusive == LockPromise!Exclusive

\* The counters are the numbers of those they stand for, so that none of them
\* ever runs below zero or stays up when everybody is gone.
CountersAgree ==
    /\ m_reader = Cardinality(At("reading"))
    /\ m_writer = Cardinality(At("writing"))
    /\ m_pending = Cardinality(At("lockWrite"))

\* No wake-up is lost: whoever is asleep has a reason to be, and the one who is
\* that reason will wake them (unlockRead, unlockWrite, and lockRead's wait for
\* a writer who is himself waiting).
AwakeWhenDue ==
    /\ At("lockRead") \cap parked # {} => ReaderMustWait
    /\ At("lockWrite") \cap parked # {} => WriterMustWait

\* When somebody waits to write, somebody will write: readers that are in leave,
\* readers that come wait, and the last one out wakes the writers.
WriterGetsIn == At("lockWrite") # {} ~> At("writing") # {}
=============================================================================
