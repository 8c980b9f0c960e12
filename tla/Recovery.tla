------------------------------ MODULE Recovery ------------------------------
(***************************************************************************)
(* Recovering a corrupted database: Handle::recoverFromPath                *)
(* (abstract/handle.cpp) with sqliterk_output (repair/sqliterk_output.cpp) *)
(* and the walk over the B-trees that calls it back (sqliterk_btree.c,     *)
(* sqliterk.c).                                                            *)
(*                                                                         *)
(* A page is read as its bytes say: children that form a cycle, torn       *)
(* cells and pages of no type are what the program is for.  Another thread *)
(* may call sqliterk_cancel at any moment of the output.  The callback of  *)
(* sqliterk_output_cb is NULL and all tables are asked for, as WCDB does.  *)
(***************************************************************************)
EXTENDS Naturals, Sequences, FiniteSets

CONSTANTS
    Corrupted,  \* corrupted files with their backups
    Names,      \* the names of tables and indices in the order of the map
    Columns,    \* BOUND: columns of every table
    MaxDepth,   \* BOUND: calls of sqliterkBtreeParsePage that the thread's stack holds
    BatchSize,  \* rows in a transaction, 256 in the code
    MayFail     \* the calls of sqlite that may fail on the destination

Named == {Names[i] : i \in DOMAIN Names}

ASSUME RecoveryAssumption ==
    /\ Names \in Seq(Named)
    /\ "none" \notin Named /\ "sqlite_master" \notin Named
    /\ {Columns, BatchSize, MaxDepth} \subseteq Nat \ {0}
    /\ MayFail \subseteq {"create", "insert", "commit"}

Entities == [type : {"table", "index"}, root : Nat, of : Named]
Rows == [of : Named \cup {"sqlite_master"}, n : Nat]

\* A cell that is not torn holds a row; some rows are entries of sqlite_master.
CellSorts ==
    [kind : {"torn"}, overflow : Nat]
    \cup [kind : {"row"}, row : Rows, stored : Nat, overflow : Nat]
    \cup [kind : {"entity"}, row : Rows, stored : Nat, overflow : Nat,
           name : Named, entity : Entities]

PageSorts ==
    [kind : {"interior", "bad"}, children : Seq(Nat), cells : {<<>>}, next : Nat]
    \cup [kind : {"leaf", "bad"}, children : {<<>>}, cells : Seq(CellSorts), next : Nat]

\* A page may hold anything that a page can hold, and point anywhere.
ASSUME CorruptedAssumption ==
    \A f \in Corrupted :
        /\ f.pages \in Seq(PageSorts)
        /\ \E S \in SUBSET Named : f.backup \in [S -> Entities]
        /\ f.key \in [Named -> Nat] /\ f.usable \in BOOLEAN

VARIABLES
    file,       \* the corrupted file and its backup, which nobody writes
    tables,     \* ctx.tables
    phase,      \* idle, master, tables, indices or ended
    cursor,     \* the place of the loop over ctx.tables
    stack,      \* the pages being parsed, innermost last
    returned,   \* what sqliterk_parse_page returned, if it just did
    status,     \* pagesStatus
    stmt,       \* the table of ctx.stmt, or none
    bound,      \* the values bound to ctx.stmt
    pending,    \* rows written in the open transaction
    inTransaction,
    kept,       \* rows committed
    created,    \* tables and indices of the destination
    succeeded, failed,      \* success_count, fail_count
    cancelled,
    result,
    slipped     \* history: a COMMIT failed

position == <<cursor, stack, returned, status>>
destination == <<stmt, bound, pending, inTransaction, kept, created>>
counts == <<succeeded, failed>>
recoveryVars == <<file, tables, phase, position, destination, counts, cancelled, result, slipped>>

Pages == DOMAIN file.pages

\* The values a column can have: of a row, the default, the rowid, NULL.
Stored(row, c) == <<row, c>>
Default(c) == <<c>>
Rowid(row) == <<row, 0>>
Null == <<>>

IsTable(t) == t \in DOMAIN tables /\ tables[t].type = "table"
IsIndex(t) == t \in DOMAIN tables /\ tables[t].type = "index"

Top == stack[Len(stack)]

Below == SubSeq(stack, 1, Len(stack) - 1)

Cells == file.pages[Top.page].cells

Cell == Cells[Top.at]

Children == file.pages[Top.page].children

\* The overflow page that the i-th cell of p goes on in; 0 is no page.
OverflowOf(p, i) ==
    LET cells == file.pages[p].cells
    IN  IF i \in DOMAIN cells THEN cells[i].overflow ELSE 0

Frame(p, i) == [page |-> p, at |-> i, overflow |-> OverflowOf(p, i)]

\* sqliterkBtreeParsePage goes on with the page.
Parses(p) == file.pages[p].kind \in {"interior", "leaf"}

Frames == [page : Nat, at : Nat \ {0}, overflow : Nat]
Statuses == {"unchecked", "checking", "checked", "damaged"}

RecoveryTypeOK ==
    /\ file \in Corrupted
    /\ DOMAIN tables \subseteq Named
    /\ phase \in {"idle", "master", "tables", "indices", "ended"}
    /\ cursor \in 1 .. Len(Names) + 1
    /\ stack \in Seq(Frames) /\ status \in [Pages -> Statuses]
    /\ returned \in {"nothing", "ok", "damaged", "cancelled"}     \* damaged or misused
    /\ result \in {"none", "refused", "ok", "damaged", "cancelled"}
    /\ (stmt = "none") = (bound = <<>>)
    /\ inTransaction \in BOOLEAN /\ cancelled \in BOOLEAN /\ slipped \in BOOLEAN
    /\ {succeeded, failed} \subseteq Nat

RecoveryInit ==
    /\ file \in Corrupted
    /\ tables = <<>> /\ phase = "idle" /\ cursor = 1 /\ stack = <<>>
    /\ returned = "nothing" /\ status = [p \in Pages |-> "unchecked"]
    /\ stmt = "none" /\ bound = <<>> /\ pending = <<>> /\ inTransaction = FALSE
    /\ kept = <<>> /\ created = {} /\ succeeded = 0 /\ failed = 0
    /\ cancelled = FALSE /\ result = "none" /\ slipped = FALSE
-----------------------------------------------------------------------------
(* The walk over a tree. *)

\* sqliterkParsePage of a root: it begins, or returns at once.  A page that
\* was visited before is not parsed again.
BeginTree(p) ==
    IF p \in Pages /\ status[p] = "unchecked" /\ Parses(p)
    THEN /\ stack' = <<Frame(p, 1)>> /\ returned' = "nothing"
         /\ status' = [status EXCEPT ![p] = "checking"]
    ELSE /\ returned' = IF p \in Pages /\ status[p] = "unchecked" THEN "damaged" ELSE "ok"
         /\ UNCHANGED <<stack, status>>

\* The next cell or child of the innermost page.
Advanced == Append(Below, Frame(Top.page, Top.at + 1))

\* A seeded fault: a damaged child ends the loop too (RecoveredWhole).
FaultResumed(rc) ==
    LET past == Len(file.pages[Below[Len(Below)].page].children) + 1
    IN  [Below EXCEPT ![Len(Below)].at = IF rc # "ok" THEN past ELSE @ + 1]

\* What the parent does with the result of a child: only cancellation ends its loop.
Resumed(rc) ==
    LET past == Len(file.pages[Below[Len(Below)].page].children) + 1
    IN  [Below EXCEPT ![Len(Below)].at = IF rc = "cancelled" THEN past ELSE @ + 1]

\* sqliterkBtreeParsePage ends with rc; a cancelled page keeps its status.
Leave(rc) ==
    /\ status' = IF rc = "cancelled" THEN status
                 ELSE [status EXCEPT ![Top.page] = IF rc = "ok" THEN "checked" ELSE "damaged"]
    /\ IF Len(stack) = 1 THEN stack' = <<>> /\ returned' = rc
       ELSE stack' = Resumed(rc) /\ returned' = returned

Inside == stack # <<>>

\* A seeded fault: entered again (RecoveryEnds).
FaultEnterable(p) == p \in Pages

\* A child that is being parsed above is not entered.
Enterable(p) == p \in Pages /\ status[p] # "checking"

EnterChild ==
    /\ Inside /\ Top.at \in DOMAIN Children /\ Len(stack) < MaxDepth
    /\ LET child == Children[Top.at]
       IN  IF Enterable(child) /\ Parses(child)
           THEN /\ stack' = Append(stack, Frame(child, 1))
                /\ status' = [status EXCEPT ![child] = "checking"]
           ELSE /\ stack' = [stack EXCEPT ![Len(stack)].at = @ + 1]
                /\ status' = IF Enterable(child) THEN [status EXCEPT ![child] = "damaged"]
                             ELSE status
    /\ UNCHANGED <<file, tables, phase, cursor, returned, destination, counts, cancelled,
                   result, slipped>>

FinishPage ==
    /\ Inside /\ Top.at \notin DOMAIN Children /\ Top.at \notin DOMAIN Cells
    /\ Leave("ok")
    /\ UNCHANGED <<file, tables, phase, cursor, destination, counts, cancelled, result, slipped>>

\* The loop over the overflow pages of a cell looks at no status and no cancellation.
ReadOverflow ==
    /\ Inside /\ Top.overflow \in Pages
    /\ status' = [status EXCEPT ![Top.overflow] = "checked"]
    /\ stack' = [stack EXCEPT ![Len(stack)].overflow = file.pages[Top.overflow].next]
    /\ UNCHANGED <<file, tables, phase, cursor, returned, destination, counts, cancelled,
                   result, slipped>>

HasPayload == Inside /\ Top.at \in DOMAIN Cells /\ Top.overflow \notin Pages

TornCell ==
    /\ HasPayload /\ Cell.kind = "torn"
    /\ Leave("damaged")
    /\ UNCHANGED <<file, tables, phase, cursor, destination, counts, cancelled, result, slipped>>

HasColumn == HasPayload /\ Cell.kind # "torn"

\* onParseColumn of either phase.
RefuseColumn ==
    /\ HasColumn /\ cancelled
    /\ Leave("cancelled")
    /\ UNCHANGED <<file, tables, phase, cursor, destination, counts, cancelled, result, slipped>>
-----------------------------------------------------------------------------
(* The output. *)

\* recoverFromPath: the backup is loaded, the file opened, sqlite_master begun.
RecoverFromPath ==
    /\ phase = "idle" /\ file.usable
    /\ tables' = file.backup /\ phase' = "master"
    /\ BeginTree(1)
    /\ UNCHANGED <<file, cursor, destination, counts, cancelled, result, slipped>>

\* The backup or the file cannot be opened: recoverFromPath answers false.
RefuseToRecover ==
    /\ phase = "idle" /\ ~file.usable
    /\ phase' = "ended" /\ result' = "refused"
    /\ UNCHANGED <<file, tables, position, destination, counts, cancelled, slipped>>

\* sqliterk_cancel, from any thread, while the output runs.
Cancel ==
    /\ phase \notin {"idle", "ended"} /\ ~cancelled
    /\ cancelled' = TRUE
    /\ UNCHANGED <<file, tables, phase, position, destination, counts, result, slipped>>

\* master_onParseColumn: an entry of the file replaces that of the backup.
TakeEntity ==
    /\ phase = "master" /\ HasColumn /\ ~cancelled /\ Cell.kind = "entity"
    /\ tables' = [n \in DOMAIN tables \cup {Cell.name} |->
                    IF n = Cell.name THEN Cell.entity ELSE tables[n]]
    /\ stack' = Advanced
    /\ UNCHANGED <<file, phase, cursor, returned, status, destination, counts, cancelled,
                   result, slipped>>

\* What is of another type, or of sqlite's own tables, is passed over.
PassEntry ==
    /\ phase = "master" /\ HasColumn /\ ~cancelled /\ Cell.kind # "entity"
    /\ stack' = Advanced
    /\ UNCHANGED <<file, tables, phase, cursor, returned, status, destination, counts,
                   cancelled, result, slipped>>

Ends(rc) == phase' = "ended" /\ result' = rc

\* After sqlite_master, damaged or not, the tables.
EndMaster ==
    /\ phase = "master" /\ ~Inside /\ returned' = "nothing"
    /\ IF returned = "cancelled" THEN Ends("cancelled")
       ELSE phase' = "tables" /\ UNCHANGED result
    /\ UNCHANGED <<file, tables, cursor, stack, status, destination, counts, cancelled, slipped>>

AtName(place) == phase = place /\ ~Inside /\ returned = "nothing" /\ cursor <= Len(Names)

Here == Names[cursor]

\* Both loops look at the flag at each name.
StopAtName ==
    /\ cancelled /\ (AtName("tables") \/ AtName("indices")) /\ Ends("cancelled")
    /\ UNCHANGED <<file, tables, position, destination, counts, cancelled, slipped>>

PassName ==
    /\ ~cancelled
    /\ \/ AtName("tables") /\ ~IsTable(Here)
       \/ AtName("indices") /\ ~IsIndex(Here)
    /\ cursor' = cursor + 1
    /\ UNCHANGED <<file, tables, phase, stack, returned, status, destination, counts, cancelled,
                   result, slipped>>

\* CREATE of a table or an index, which may be impossible, and what is counted.
Creates(possible) ==
    \/ /\ possible
       /\ created' = created \cup {Here} /\ succeeded' = succeeded + 1 /\ failed' = failed
    \/ /\ ~possible \/ "create" \in MayFail
       /\ failed' = failed + 1 /\ UNCHANGED <<created, succeeded>>

CreateTable ==
    /\ ~cancelled /\ AtName("tables") /\ IsTable(Here)
    /\ Creates(TRUE)
    /\ BeginTree(tables[Here].root)
    /\ UNCHANGED <<file, tables, phase, cursor, stmt, bound, pending, inTransaction, kept,
                   cancelled, result, slipped>>

CreateIndex ==
    /\ ~cancelled /\ AtName("indices") /\ IsIndex(Here)
    /\ Creates(tables[Here].of \in created)
    /\ cursor' = cursor + 1
    /\ UNCHANGED <<file, tables, phase, stack, returned, status, stmt, bound, pending,
                   inTransaction, kept, cancelled, result, slipped>>

HasRow == phase = "tables" /\ HasColumn /\ ~cancelled

\* table_onParseColumn without a table in the destination: init_insert fails.
RefuseRow ==
    /\ HasRow /\ stmt = "none" /\ Here \notin created
    /\ failed' = failed + 1 /\ stack' = Advanced
    /\ UNCHANGED <<file, tables, phase, cursor, returned, status, destination, succeeded,
                   cancelled, result, slipped>>

\* A seeded fault: NULL bound as it is stored (RowsAreTheirs).
FaultValueOf(cell, c) == IF file.key[Here] = c THEN Null ELSE Stored(cell.row, c)

\* The value of a stored column; NULL in the INTEGER PRIMARY KEY is the rowid.
ValueOf(cell, c) == IF file.key[Here] = c THEN Rowid(cell.row) ELSE Stored(cell.row, c)

\* The two loops of sqlite3_bind: the second binds the default of column c + 1 to c,
\* and the last column keeps what was bound to it before (a number; of a text, a
\* buffer that is free by then).
Bound(before, cell) ==
    [c \in 1 .. Columns |->
        IF c \in cell.stored .. Columns - 1 THEN Default(c + 1)
        ELSE IF c <= cell.stored THEN ValueOf(cell, c) ELSE before[c]]

\* init_insert prepares the statement, and BEGIN; later rows find it.
Prepared == IF stmt = "none" THEN Here ELSE stmt

Before == IF stmt = "none" THEN [c \in 1 .. Columns |-> Null] ELSE bound

\* The row as the destination gets it.
Written == [into |-> Prepared, row |-> Cell.row, stored |-> Cell.stored,
            values |-> Bound(Before, Cell)]

HasStatement == HasRow /\ (stmt = "none" => Here \in created)

PutRow ==
    /\ HasStatement
    /\ stmt' = Prepared /\ bound' = Bound(Before, Cell) /\ inTransaction' = TRUE
    /\ succeeded' = succeeded + 1
    /\ \/ /\ (succeeded + 1) % BatchSize # 0
          /\ pending' = Append(pending, Written) /\ UNCHANGED <<kept, slipped>>
       \/ /\ (succeeded + 1) % BatchSize = 0
          /\ kept' = kept \o Append(pending, Written) /\ pending' = <<>>
          /\ UNCHANGED slipped
       \/ /\ (succeeded + 1) % BatchSize = 0 /\ "commit" \in MayFail
          /\ pending' = Append(pending, Written) /\ slipped' = TRUE
          /\ UNCHANGED kept
    /\ stack' = Advanced
    /\ UNCHANGED <<file, tables, phase, cursor, returned, status, created, failed, cancelled,
                   result>>

\* The INSERT fails; what it bound stays bound.
RowFails ==
    /\ HasStatement /\ "insert" \in MayFail
    /\ stmt' = Prepared /\ bound' = Bound(Before, Cell) /\ inTransaction' = TRUE
    /\ failed' = failed + 1 /\ stack' = Advanced
    /\ UNCHANGED <<file, tables, phase, cursor, returned, status, pending, kept, created,
                   succeeded, cancelled, result, slipped>>

TreeEnded == phase = "tables" /\ ~Inside /\ returned # "nothing"

\* A seeded fault: the bindings stay behind the statement (RecoveryTypeOK).
FaultFinalize == stmt' = "none" /\ UNCHANGED bound

\* fini_insert
Finalize == stmt' = "none" /\ bound' = <<>>

\* The end of the transaction after sqliterk_parse_page, when there is a statement.
EndTransaction ==
    \/ /\ stmt = "none" /\ UNCHANGED <<pending, inTransaction, kept, slipped>>
    \/ /\ stmt # "none" /\ returned = "cancelled"
       /\ pending' = <<>> /\ inTransaction' = FALSE /\ UNCHANGED <<kept, slipped>>
    \/ /\ stmt # "none" /\ returned # "cancelled"
       /\ kept' = kept \o pending /\ pending' = <<>> /\ inTransaction' = FALSE
       /\ UNCHANGED slipped
    \/ /\ stmt # "none" /\ returned # "cancelled" /\ "commit" \in MayFail
       /\ slipped' = TRUE /\ UNCHANGED <<pending, inTransaction, kept>>

EndTable ==
    /\ TreeEnded
    /\ EndTransaction /\ Finalize
    /\ returned' = "nothing"
    /\ IF returned = "cancelled" THEN Ends("cancelled") /\ UNCHANGED cursor
       ELSE cursor' = cursor + 1 /\ UNCHANGED <<phase, result>>
    /\ UNCHANGED <<file, tables, stack, status, created, counts, cancelled>>

LastName(place) == phase = place /\ ~Inside /\ returned = "nothing" /\ cursor > Len(Names)

ToIndices ==
    /\ LastName("tables") /\ phase' = "indices" /\ cursor' = 1
    /\ UNCHANGED <<file, tables, stack, returned, status, destination, counts, cancelled, result,
                   slipped>>

\* "OK only if we had successfully output at least one row": the count has CREATEs too.
Finish ==
    /\ LastName("indices")
    /\ Ends(IF succeeded = 0 THEN "damaged" ELSE "ok")
    /\ UNCHANGED <<file, tables, position, destination, counts, cancelled, slipped>>

Work ==
    \/ RecoverFromPath \/ RefuseToRecover \/ TakeEntity \/ PassEntry \/ EndMaster
    \/ EnterChild \/ FinishPage \/ ReadOverflow \/ TornCell \/ RefuseColumn
    \/ StopAtName \/ PassName \/ CreateTable \/ CreateIndex \/ RefuseRow
    \/ PutRow \/ RowFails \/ EndTable \/ ToIndices \/ Finish

RecoveryNext == Work \/ Cancel

RecoverySpec == RecoveryInit /\ [][RecoveryNext]_recoveryVars

\* The caller's thread runs; nobody has to cancel.
FairRecoverySpec == RecoverySpec /\ WF_recoveryVars(Work)
-----------------------------------------------------------------------------
(* What the recovery must do. *)

WrittenRows == {kept[i] : i \in DOMAIN kept} \cup {pending[i] : i \in DOMAIN pending}

\* The values a row should have in the destination.
Expected(k) ==
    [c \in 1 .. Columns |->
        IF c > k.stored THEN Default(c)
        ELSE IF file.key[k.row.of] = c THEN Rowid(k.row) ELSE Stored(k.row, c)]

\* The pages of a tree: the least set with the root and with the children of its
\* pages, of those that can be parsed.
Readable(p) == p \in Pages /\ Parses(p)

ClosedUnder(S) ==
    \A p \in S : \A i \in DOMAIN file.pages[p].children :
        Readable(file.pages[p].children[i]) => file.pages[p].children[i] \in S

Reached(root) ==
    {p \in Pages : \A S \in SUBSET Pages :
        ClosedUnder(S) /\ (Readable(root) => root \in S) => p \in S}

\* The rows of a page in front of its first torn cell.
RowsOf(p) ==
    LET cells == file.pages[p].cells
    IN  {cells[i].row : i \in {j \in DOMAIN cells : \A h \in 1 .. j : cells[h].kind # "torn"}}

\* The rows that the tree of a table leads to are its own.
Own(t, root) == \A p \in Reached(root) : \A r \in RowsOf(p) : r.of = t

TreesAreOwn == \A t \in DOMAIN tables : IsTable(t) => Own(t, tables[t].root)

\* A row is written to the table it belongs to, and a row with all its columns has
\* its values: the statement and its bindings are those of the table being parsed
\* (table_onParseColumn, init_insert, sqlite3_bind).  Unless a tree leads to rows
\* of another table: the backup is older than a table that has the root page of a
\* dropped one, or the number of a child is wrong.
RowsAreTheirs ==
    \A k \in WrittenRows :
        \/ k.into = k.row.of /\ (k.stored = Columns => k.values = Expected(k))
        \/ ~TreesAreOwn

\* No cell goes on in a page of a tree.
OverflowsApart ==
    \A p \in Pages : \A q \in Pages :
        Parses(q) => file.pages[p].next # q /\ \A i \in DOMAIN file.pages[p].cells :
                                                    OverflowOf(p, i) # q

\* A recovery that was not cancelled and met no failure in the destination has
\* every row that can be read, and no other, whatever is damaged around it
\* (sqliterk_output, sqliterkBtreeParsePage).  Unless a tree, that of sqlite_master
\* too, leads to rows of another, or a cell goes on in a page of a tree, which is
\* then marked as visited.
RecoveredWhole ==
    /\ result = "ok" /\ ~cancelled /\ failed = 0 /\ ~slipped
    /\ TreesAreOwn /\ Own("sqlite_master", 1) /\ OverflowsApart
    => \A t \in DOMAIN tables : IsTable(t) =>
           {kept[i].row : i \in {j \in DOMAIN kept : kept[j].into = t}}
               = UNION {RowsOf(p) : p \in Reached(tables[t].root)}

\* The overflow page to be read leads back to itself, or is a page being parsed.
Strays ==
    LET next[n \in Nat] ==
            IF n = 0 THEN Top.overflow
            ELSE IF next[n - 1] \in Pages THEN file.pages[next[n - 1]].next ELSE 0
    IN  Inside /\ Top.overflow \in Pages
        /\ \/ \E n \in 1 .. Cardinality(Pages) : next[n] = Top.overflow
           \/ status[Top.overflow] = "checking"

\* The walk over the trees ends, whatever children the pages point to: the status
\* of a page keeps the walk from entering it again (sqliterkBtreeParsePage,
\* sqliterkNotify_onBeginParsePage).  The loop over overflow pages looks at no
\* status and leaves its pages marked as checked: nothing is promised of overflow
\* pages that form a cycle, or that are pages of the tree above.
RecoveryEnds == []~Strays => <>(phase = "ended")
=============================================================================
