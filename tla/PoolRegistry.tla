---------------------------- MODULE PoolRegistry ----------------------------
(***************************************************************************)
(* The registry of WCDB's handle pools: HandlePool::GetPool by path and by *)
(* tag and the recycling of a pool (core/handle_pool.cpp), with the        *)
(* counted references of util/recyclable.hpp.                              *)
(*                                                                         *)
(* s_mutex makes GetPool and the recycling one step each; between the last *)
(* reference that goes and its recycling anybody may come.  A pool that    *)
(* nobody refers to is destroyed, and its name free for another.           *)
(***************************************************************************)
EXTENDS Integers, FiniteSets

CONSTANTS
    Databases,  \* what is made with one GetPool: a Database and its transactions
    Paths, Pools, Tags,
    MaxRefs,    \* BOUND: references to one of Databases
    None

ASSUME RegistryAssumption ==
    /\ IsFiniteSet(Databases) /\ None \notin Pools
    /\ MaxRefs \in Nat \ {0}

VARIABLES
    s_pools,    \* s_pools[path]: the pool there and its count
    m_pool,     \* m_pool[d], None before GetPool and after the recycling
    m_reference,\* m_reference[d]
    path,       \* path[pool]
    tag,        \* tag[pool]
    crashed,    \* an entry was used that is not there
    tagged      \* history: a database has been opened by tag

vars == <<s_pools, m_pool, m_reference, path, tag, crashed, tagged>>

Entries == [pool : Pools \cup {None}, count : Int]

NoEntry == [pool |-> None, count |-> 0]

TypeOK ==
    /\ s_pools \in [Paths -> Entries]
    /\ m_pool \in [Databases -> Pools \cup {None}]
    /\ m_reference \in [Databases -> 0 .. MaxRefs]
    /\ path \in [Pools -> Paths]
    /\ tag \in [Pools -> Tags \cup {None}]
    /\ crashed \in BOOLEAN /\ tagged \in BOOLEAN

Init ==
    /\ s_pools = [p \in Paths |-> NoEntry]
    /\ m_pool = [d \in Databases |-> None]
    /\ m_reference = [d \in Databases |-> 0]
    /\ path \in [Pools -> Paths]
    /\ tag = [c \in Pools |-> None]
    /\ crashed = FALSE /\ tagged = FALSE

Gone(c) == (\A d \in Databases : m_pool[d] # c) /\ (\A p \in Paths : s_pools[p].pool # c)

-----------------------------------------------------------------------------
(* Seeded faults.  No step uses these operators: each is a definition      *)
(* below with a mistake one could make in the code, and the property named *)
(* fails when it takes that definition's place.                            *)

\* The entry stays when its count is 0: NotLeaked.
FaultNeverErased(p) == s_pools' = [s_pools EXCEPT ![p].count = @ - 1]

\* A second database makes a pool of its own: SameCore, SharesCores.
FaultAlwaysNew(d, p) ==
    /\ \E c \in Pools :
        /\ Gone(c)
        /\ m_pool' = [m_pool EXCEPT ![d] = c]
        /\ s_pools' = [s_pools EXCEPT ![p] = [pool |-> c, count |-> 1]]
        /\ path' = [path EXCEPT ![c] = p]
        /\ tag' = [tag EXCEPT ![c] = None]

-----------------------------------------------------------------------------
(* GetPool.                                                                *)

Unopened(d) == m_pool[d] = None /\ ~ crashed

\* Database(path): the pool that is there, or a new one.
Found(p) == s_pools' = [s_pools EXCEPT ![p].count = @ + 1]

GetThere(d, p) ==
    /\ s_pools[p].pool # None
    /\ m_pool' = [m_pool EXCEPT ![d] = s_pools[p].pool]
    /\ Found(p) /\ UNCHANGED <<path, tag>>

GetNew(d, p) ==
    /\ s_pools[p].pool = None
    /\ \E c \in Pools :
        /\ Gone(c)
        /\ m_pool' = [m_pool EXCEPT ![d] = c]
        /\ s_pools' = [s_pools EXCEPT ![p] = [pool |-> c, count |-> 1]]
        /\ path' = [path EXCEPT ![c] = p]
        /\ tag' = [tag EXCEPT ![c] = None]

Get(d, p) == GetThere(d, p) \/ GetNew(d, p)

OpenPath(d, p) ==
    /\ Unopened(d) /\ Get(d, p)
    /\ m_reference' = [m_reference EXCEPT ![d] = 1]
    /\ UNCHANGED <<crashed, tagged>>

\* Database(tag): any pool with the tag.  The loop counts in a copy of the entry.
OpenTag(d, t) ==
    /\ Unopened(d) /\ tagged' = TRUE
    /\ \E p \in Paths :
        /\ s_pools[p].pool # None /\ tag[s_pools[p].pool] = t
        /\ m_pool' = [m_pool EXCEPT ![d] = s_pools[p].pool]
    /\ m_reference' = [m_reference EXCEPT ![d] = 1]
    /\ UNCHANGED <<s_pools, path, tag, crashed>>

-----------------------------------------------------------------------------
(* The user of the pool.                                                   *)

Live(d) == m_reference[d] > 0

SetTag(d, t) ==
    /\ Live(d) /\ ~ crashed
    /\ tag' = [tag EXCEPT ![m_pool[d]] = t]
    /\ UNCHANGED <<s_pools, m_pool, m_reference, path, crashed, tagged>>

\* getTransaction copies the reference to the pool.
Retain(d) ==
    /\ m_reference[d] \in 1 .. MaxRefs - 1 /\ ~ crashed
    /\ m_reference' = [m_reference EXCEPT ![d] = @ + 1]
    /\ UNCHANGED <<s_pools, m_pool, path, tag, crashed, tagged>>

Release(d) ==
    /\ Live(d) /\ ~ crashed
    /\ m_reference' = [m_reference EXCEPT ![d] = @ - 1]
    /\ UNCHANGED <<s_pools, m_pool, path, tag, crashed, tagged>>

\* The entry of a path loses one.
Uncount(p) ==
    LET entry == s_pools[p]
    IN  s_pools' = [s_pools EXCEPT ![p] =
            IF entry.count = 1 THEN NoEntry ELSE [entry EXCEPT !.count = @ - 1]]

\* m_onRecycled, after the last reference.  The end of s_pools is a null
\* pointer: to count there is to crash.
Recycle(d) ==
    LET p == path[m_pool[d]]
    IN  /\ m_pool[d] # None /\ ~ Live(d) /\ ~ crashed
        /\ IF s_pools[p].pool = None
           THEN crashed' = TRUE /\ UNCHANGED <<s_pools, m_pool>>
           ELSE /\ Uncount(p) /\ m_pool' = [m_pool EXCEPT ![d] = None]
                /\ UNCHANGED crashed
        /\ UNCHANGED <<m_reference, path, tag, tagged>>

Next == \E d \in Databases :
    \/ \E p \in Paths : OpenPath(d, p)
    \/ \E t \in Tags : OpenTag(d, t) \/ SetTag(d, t)
    \/ Retain(d) \/ Release(d) \/ Recycle(d)

Spec == Init /\ [][Next]_vars

-----------------------------------------------------------------------------
(* Properties.                                                             *)

UsersOf(p) == {d \in Databases : m_pool[d] # None /\ path[m_pool[d]] = p}

\* "all database objects with same path share the same core"
\* (WCTDatabase+Database.h): one pool, one lock, one configuration.
SameCore == \A p \in Paths : \A d, e \in UsersOf(p) : m_pool[d] = m_pool[e]

\* The count of a path is the number of those who will recycle it, so that its
\* pool is the registry's as long as somebody has it, and none of them misses it.
CountIsExact ==
    /\ ~ crashed
    /\ \A p \in Paths : /\ s_pools[p].count = Cardinality(UsersOf(p))
                        /\ \A d \in UsersOf(p) : s_pools[p].pool = m_pool[d]

\* A pool with open handles does not stay in the registry for nobody, whatever
\* was opened by tag (GetPool, m_onRecycled).
NotLeaked == \A p \in Paths : s_pools[p].pool # None => UsersOf(p) # {}

File == [d \in Databases |-> IF m_pool[d] = None THEN None ELSE path[m_pool[d]]]

Promise == INSTANCE SharedCore WITH core <- m_pool, file <- File

\* As long as nobody opens by tag, opening and recycling keep the promise of
\* SharedCore: a database gets the core of the others of its path or one that
\* nobody has, and keeps it (GetPool, m_onRecycled).
SharesCores ==
    /\ Promise!Init
    /\ [][tagged' \/ Promise!Next \/ UNCHANGED Promise!vars]_vars
=============================================================================
