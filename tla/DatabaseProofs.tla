--------------------------- MODULE DatabaseProofs ---------------------------
(***************************************************************************)
(* What WCDB does with the files of a database.                            *)
(*                                                                         *)
(* Moving them (DatabaseFiles): whatever the number of files, wherever the *)
(* program is killed and whatever system call fails, a move that is not    *)
(* called again over what a killed one had begun to remove, and on whose   *)
(* files access does not fail, keeps the data whole in one place and       *)
(* answers truly.                                                          *)
(*                                                                         *)
(* Recovering one that is corrupted (Recovery): whatever the pages hold    *)
(* and point to, and whatever the backup says, rows go to their tables,    *)
(* and a recovery that meets no failure has every row that can be read.    *)
(***************************************************************************)
EXTENDS DatabaseFiles, Recovery, TLAPS

\* Until all links are made the source is whole; the files before the index
\* have theirs; from then on the destination is whole.
Linking == {"look", "clear", "link"}

IInv ==
    /\ TypeOK
    /\ at \in {"clear", "link"} => More
    /\ at # "idle" => answer = "none"
    /\ answer = "yes" => data \subseteq Moved
    /\ at \notin {"remove", "killed"} /\ answer # "yes" => data \subseteq source
    /\ at \in Linking =>
          \A i \in 1 .. index - 1 : Paths[i] \in source => dest[Paths[i]] = "moved"
    /\ at \in Linking => recovers \subseteq {Paths[i] : i \in 1 .. index - 1}
    /\ at = "remove" => data \subseteq Moved
    /\ at = "delete" => data = {}
    /\ at = "killed" => data \subseteq source \/ data \subseteq Moved

LEMMA PathsAreFiles ==
    /\ Len(Paths) \in Nat /\ DOMAIN Paths = 1 .. Len(Paths)
    /\ \A i \in 1 .. Len(Paths) : Paths[i] \in Files
  BY FilesAssumption DEF Files

LEMMA AFile ==
    ASSUME TypeOK, More
    PROVE  /\ index \in 1 .. Len(Paths) /\ index + 1 \in 1 .. Len(Paths) + 1
           /\ File \in Files
<1>1. index \in 1 .. Len(Paths) /\ index + 1 \in 1 .. Len(Paths) + 1
  BY PathsAreFiles DEF TypeOK, More
<1> QED
  BY <1>1, PathsAreFiles DEF File

\* The files before the index are others.
LEMMA OtherFiles ==
    ASSUME TypeOK, More
    PROVE  \A i \in 1 .. index - 1 : Paths[i] # File
<1>1. \A i \in 1 .. index - 1 : i \in 1 .. Len(Paths) /\ i # index
  BY AFile, PathsAreFiles DEF TypeOK
<1> QED
  BY <1>1, AFile, PathsAreFiles, FilesAssumption DEF File

LEMMA FilesInit == Init => IInv
<1> SUFFICES ASSUME Init PROVE IInv
  OBVIOUS
<1>1. 1 \in 1 .. Len(Paths) + 1 /\ 0 \in 0 .. MaxCalls
  BY PathsAreFiles, FilesAssumption
<1>2. TypeOK
  BY <1>1 DEF Init, TypeOK, Places
<1> QED
  BY <1>2 DEF Init, IInv, Linking

\* Each step keeps the types; `recovers` holds links of ours.
LEMMA FilesType == IInv /\ [Next]_vars => TypeOK'
<1> SUFFICES ASSUME IInv, [Next]_vars PROVE TypeOK'
  OBVIOUS
<1>0. TypeOK /\ 1 \in 1 .. Len(Paths) + 1
  BY PathsAreFiles DEF IInv
<1>1. CASE UNCHANGED vars
  BY <1>0, <1>1 DEF TypeOK, vars
<1>2. ASSUME NEW place \in {"look", "delete"}, Calls(place), data' \in {data, {}},
             risked' \in BOOLEAN
      PROVE  TypeOK'
  <2>1. calls' \in 0 .. MaxCalls
    BY <1>0, <1>2, FilesAssumption DEF Calls, TypeOK
  <2> QED
    BY <1>0, <1>2, <2>1 DEF Calls, Goes, TypeOK, Places
<1>3. CASE NoDirectory \/ RemoveFails \/ Removed
  BY <1>0, <1>3 DEF NoDirectory, RemoveFails, Removed, Returns, Goes, TypeOK, Places
<1>4. CASE Look
  BY <1>0, <1>4 DEF Look, Goes, TypeOK, Places
<1>5. CASE Skip
  BY <1>0, <1>5, AFile DEF Skip, Goes, TypeOK, Places
<1>6. CASE Clear
  <2>1. File \in Files /\ File \notin recovers
    BY <1>0, <1>6, AFile, OtherFiles DEF Clear, IInv, Linking
  <2> QED
    BY <1>0, <1>6, <2>1 DEF Clear, Goes, TypeOK, Places
<1>7. CASE Link
  <2>1. File \in Files /\ index + 1 \in 1 .. Len(Paths) + 1
    BY <1>0, <1>7, AFile DEF Link, IInv
  <2> QED
    BY <1>0, <1>7, <2>1 DEF Link, Goes, TypeOK, Places
<1>8. CASE ClearOrLinkFails \/ AllLinked
  BY <1>0, <1>8 DEF ClearOrLinkFails, AllLinked, Goes, TypeOK, Places
<1>9. CASE Remove
  BY <1>0, <1>9, AFile DEF Remove, Ending, Goes, TypeOK, Places
<1>10. CASE Recover
  BY <1>0, <1>10 DEF Recover, Returns, AfterRecovery, Goes, TypeOK, Places
<1>11. CASE Kill
  BY <1>0, <1>11 DEF Kill, Goes, TypeOK, Places
<1>12. CASE MoveFiles
  <2>1. risked' \in BOOLEAN /\ Calls("look") /\ data' = data
    BY <1>12 DEF MoveFiles
  <2> QED
    BY <1>2, <2>1
<1>13. CASE RemoveFiles
  <2>1. risked' \in BOOLEAN /\ Calls("delete") /\ data' = {}
    BY <1>0, <1>13 DEF RemoveFiles, TypeOK
  <2> QED
    BY <1>2, <2>1
<1> QED
  BY <1>1, <1>3, <1>4, <1>5, <1>6, <1>7, <1>8, <1>9, <1>10, <1>11, <1>12, <1>13
  DEF Next

LEMMA FilesStep ==
    ASSUME ~ risked', IInv, [Next]_vars
    PROVE  IInv'
<1>1. TypeOK' /\ TypeOK
  BY FilesType DEF IInv
<1>2. CASE UNCHANGED vars
  BY <1>1, <1>2 DEF IInv, vars, More, Moved, Linking
<1>3. ASSUME NEW place \in {"look", "delete"}, Calls(place), data' \in {data, {}},
             data' \subseteq source, place = "delete" => data' = {}
      PROVE  IInv'
  <2>1. answer # "yes" /\ source' = source /\ dest' = dest
        /\ at' = place /\ index' = 1 /\ recovers' = {} /\ answer' = "none"
    BY <1>3 DEF Calls, Goes
  <2> QED
    BY <1>1, <1>3, <2>1 DEF IInv, Linking
<1>4. CASE NoDirectory
  BY <1>1, <1>4 DEF NoDirectory, Returns, Goes, IInv, Linking
<1>5. CASE Look
  BY <1>1, <1>5 DEF Look, Goes, IInv, Linking, More
<1>6. CASE Skip
  <2>1. File \notin source /\ index \in 1 .. Len(Paths) /\ Len(Paths) \in Nat
    BY <1>1, <1>6, AFile, PathsAreFiles DEF Skip
  <2>2. 1 .. index' - 1 = (1 .. index - 1) \cup {index}
    BY <1>6, <2>1 DEF Skip, Goes
  <2>3. \A i \in 1 .. index' - 1 : Paths[i] \in source' => dest'[Paths[i]] = "moved"
    BY <1>6, <2>1, <2>2 DEF Skip, IInv, Linking, File
  <2>4. recovers' \subseteq {Paths[i] : i \in 1 .. index' - 1}
    BY <1>6, <2>2 DEF Skip, IInv, Linking
  <2> QED
    BY <1>1, <1>6, <2>3, <2>4 DEF Skip, Goes, IInv, Linking
<1>7. CASE Clear
  <2>1. \A i \in 1 .. index - 1 : Paths[i] # File
    BY <1>1, <1>7, OtherFiles DEF Clear, IInv
  <2>2. \A i \in 1 .. index - 1 : dest'[Paths[i]] = dest[Paths[i]]
    <3>1. \A i \in 1 .. index - 1 : Paths[i] \in Files
      BY <1>1, <1>7, AFile, PathsAreFiles DEF Clear, IInv
    <3> QED
      BY <1>1, <1>7, <2>1, <3>1 DEF Clear, TypeOK
  <2> QED
    BY <1>1, <1>7, <2>2 DEF Clear, Goes, IInv, Linking, More
<1>8. CASE Link
  <2>1. File \in Files /\ index \in 1 .. Len(Paths) /\ Len(Paths) \in Nat
    BY <1>1, <1>8, AFile, PathsAreFiles DEF Link, IInv
  <2>2. 1 .. index' - 1 = (1 .. index - 1) \cup {index}
    BY <1>8, <2>1 DEF Link, Goes
  <2>3. \A f \in Files : dest'[f] = IF f = File THEN "moved" ELSE dest[f]
    BY <1>1, <1>8 DEF Link, TypeOK
  <2>4. \A i \in 1 .. index' - 1 : Paths[i] \in source' => dest'[Paths[i]] = "moved"
    <3>1. \A i \in 1 .. index - 1 : Paths[i] \in Files
      BY <2>1, PathsAreFiles
    <3> QED
      BY <1>8, <2>1, <2>2, <2>3, <3>1 DEF Link, IInv, Linking, File
  <2>5. recovers' \subseteq {Paths[i] : i \in 1 .. index' - 1}
    BY <1>8, <2>2 DEF Link, IInv, Linking, File
  <2> QED
    BY <1>1, <1>8, <2>4, <2>5 DEF Link, Goes, IInv, Linking
<1>9. CASE ClearOrLinkFails
  BY <1>1, <1>9 DEF ClearOrLinkFails, Goes, IInv, Linking
<1>10. CASE AllLinked
  <2>1. 1 .. index - 1 = 1 .. Len(Paths)
    BY <1>1, <1>10, PathsAreFiles DEF AllLinked, More, TypeOK
  <2>2. \A i \in 1 .. Len(Paths) : Paths[i] \in source => Paths[i] \in Moved
    BY <1>10, <2>1, PathsAreFiles DEF AllLinked, IInv, Linking, Moved
  <2>3. \A f \in data : \E i \in 1 .. Len(Paths) : f = Paths[i]
    BY <1>1, PathsAreFiles DEF TypeOK, Files
  <2>4. data \subseteq source /\ answer = "none"
    BY <1>10 DEF AllLinked, IInv
  <2>5. data \subseteq Moved
    BY <2>2, <2>3, <2>4
  <2>6. Moved' = Moved /\ data' = data /\ at' = "remove" /\ answer' = answer
    BY <1>10 DEF AllLinked, Goes, Moved
  <2> QED
    BY <1>1, <2>4, <2>5, <2>6 DEF IInv, Linking
<1>11. CASE Remove
  <2>1. Moved' = Moved /\ data' = data /\ at' = at /\ answer' = answer /\ Ending
    BY <1>11 DEF Remove, Goes, Moved
  <2>2. answer' = "none"
    BY <2>1 DEF IInv, Ending
  <2>3. CASE at = "remove"
    BY <1>1, <2>1, <2>2, <2>3 DEF IInv, Linking
  <2>4. CASE at = "delete"
    BY <1>1, <2>1, <2>2, <2>4 DEF IInv, Linking
  <2> QED
    BY <2>1, <2>3, <2>4 DEF Ending
<1>12. CASE RemoveFails \/ Removed
  <2>1. /\ Moved' = Moved /\ data' = data /\ at' = "idle" /\ source' = source /\ Ending
        /\ (answer' = "yes" \/ (answer' = "no" /\ at = "delete"))
    BY <1>12 DEF RemoveFails, Removed, Returns, Goes, Moved, Ending
  <2> QED
    BY <1>1, <2>1 DEF IInv, Linking, Ending
<1>13. CASE Recover
  <2>1. /\ at = "recover" /\ source' = source /\ data' = data
        /\ \/ at' = "idle" /\ answer' = "no"
           \/ at' = "recover" /\ answer' = answer
    BY <1>13 DEF Recover, Returns, AfterRecovery, Goes
  <2> QED
    BY <1>1, <2>1 DEF IInv, Linking
<1>14. CASE Kill
  <2>1. Moved' = Moved /\ data' = data /\ at' = "killed" /\ answer' = answer
        /\ source' = source /\ at \notin {"idle", "killed"}
    BY <1>14 DEF Kill, Goes, Moved
  <2> QED
    BY <1>1, <2>1 DEF IInv, Linking
<1> QED
  BY <1>2, <1>3, <1>4, <1>5, <1>6, <1>7, <1>8, <1>9, <1>10, <1>11, <1>12, <1>13, <1>14
  DEF Next, MoveFiles, RemoveFiles

\* What holds for ever.
Careful == risked \in BOOLEAN /\ (~ risked => IInv)

LEMMA RiskedForEver == risked \in BOOLEAN /\ [Next]_vars => risked' \in BOOLEAN /\ (risked => risked')
  BY DEF Next, vars, MoveFiles, NoDirectory, RemoveFiles, Look, Skip, Clear, Link,
         ClearOrLinkFails, AllLinked, Remove, RemoveFails, Removed, Recover, Kill

LEMMA FilesInvariant == Spec => []Careful
<1>1. Init => Careful
  BY FilesInit DEF Init, Careful
<1>2. Careful /\ [Next]_vars => Careful'
  BY RiskedForEver, FilesStep DEF Careful
<1> QED
  BY <1>1, <1>2, PTL DEF Spec

\* The data of a database is whole at its path or in the directory, at every
\* moment of a move and wherever it is killed.
THEOREM DataStaysWhole == Spec => []SomewhereWhole
<1>1. Careful => SomewhereWhole
  BY DEF Careful, IInv, SomewhereWhole
<1> QED
  BY <1>1, FilesInvariant, PTL

\* YES means that the data is in the directory, NO that it is where it was.
THEOREM MoveAnswersTruly == Spec => []AnswerIsTrue
<1>1. Careful => AnswerIsTrue
  BY DEF Careful, IInv, AnswerIsTrue
<1> QED
  BY <1>1, FilesInvariant, PTL
-----------------------------------------------------------------------------
(* The recovery: its invariant. *)

\* What the destination gets.
Values == (Rows \X Nat) \cup Seq(Nat)
Bindings == [1 .. Columns -> Values]
Writes == [into : Named, row : Rows, stored : Nat, values : Bindings]

Typed ==
    /\ \E S \in SUBSET Named : tables \in [S -> Entities]
    /\ bound \in {<<>>} \cup Bindings
    /\ kept \in Seq(Writes) /\ pending \in Seq(Writes)

\* A tree is being parsed, or has just been.
Parsing == Inside \/ returned # "nothing"

\* A statement is that of the table being parsed; outside of a tree nothing is open.
Phased ==
    /\ phase \in {"idle", "master"} => stmt = "none" /\ kept = <<>> /\ pending = <<>> /\ cursor = 1
    /\ ~(Inside /\ returned # "nothing")
    /\ Parsing => phase \in {"master", "tables"}
    /\ Parsing /\ phase = "tables" => cursor \in DOMAIN Names /\ IsTable(Here)
    /\ stmt # "none" => phase = "tables" /\ Parsing /\ stmt = Here
    /\ returned = "cancelled" => cancelled
    /\ stmt = "none" /\ ~slipped => pending = <<>>
    /\ result = "ok" => phase = "ended"

\* The root of the tree being parsed.
Tree == IF phase = "tables" THEN tables[Here].root ELSE 1

\* A page on the stack is one of the tree, was visited, and its cells so far are whole.
Framed(f) ==
    /\ Readable(f.page) /\ status[f.page] # "unchecked" /\ f.page \in Reached(Tree)
    /\ \A j \in DOMAIN file.pages[f.page].cells :
           j < f.at => file.pages[f.page].cells[j].kind # "torn"
    /\ OverflowsApart => ~Readable(f.overflow)

Walked == \A k \in DOMAIN stack : Framed(stack[k])

\* A page on the stack is the child where the page before it stands.
LinkedAt(k) ==
    /\ stack[k].at \in DOMAIN file.pages[stack[k].page].children
    /\ file.pages[stack[k].page].children[stack[k].at] = stack[k + 1].page

Linked == \A k \in DOMAIN stack : k < Len(stack) => LinkedAt(k)

\* A row written comes from a page of its table, and has its values.
WrittenWell(w) ==
    /\ IsTable(w.into)
    /\ \E p \in Reached(tables[w.into].root) : w.row \in RowsOf(p)
    /\ w.stored = Columns =>
           w.values = [c \in 1 .. Columns |->
                          IF file.key[w.into] = c THEN Rowid(w.row) ELSE Stored(w.row, c)]

AllWell == \A w \in WrittenRows : WrittenWell(w)

\* Completeness: what the walk has left behind, and is not still on the stack, has
\* visited children and written rows; what the output has passed has a visited root.
Visited(p) == Readable(p) /\ status[p] # "unchecked"

Behind(p, i) == \A k \in DOMAIN stack : stack[k].page = p => i < stack[k].at

ChildVisited(p, i) ==
    Readable(file.pages[p].children[i]) => Visited(file.pages[p].children[i])

ChildrenVisited ==
    OverflowsApart /\ ~cancelled =>
        \A p \in Pages : \A i \in DOMAIN file.pages[p].children :
            Visited(p) /\ Behind(p, i) => ChildVisited(p, i)

RowWritten(r) == \E w \in WrittenRows : w.row = r

NoTorn(p, i) == \A h \in 1 .. i : file.pages[p].cells[h].kind # "torn"

NothingFailed == OverflowsApart /\ ~cancelled /\ failed = 0 /\ ~slipped

RowsWritten ==
    NothingFailed =>
        \A p \in Pages : \A i \in DOMAIN file.pages[p].cells :
            Visited(p) /\ Behind(p, i) /\ NoTorn(p, i) =>
                p \in Reached(1) \/ RowWritten(file.pages[p].cells[i].row)

Passed(i) ==
    \/ phase = "indices" \/ result = "ok"
    \/ phase = "tables" /\ i < cursor
    \/ phase = "tables" /\ i = cursor /\ Parsing

RootsVisited ==
    \A i \in DOMAIN Names :
        IsTable(Names[i]) /\ Passed(i) /\ Readable(tables[Names[i]].root)
            => Visited(tables[Names[i]].root)

RecoveryInv ==
    /\ RecoveryTypeOK /\ Typed /\ Phased /\ Walked /\ Linked
    /\ AllWell /\ ChildrenVisited /\ RowsWritten /\ RootsVisited

\* The pages of a file are numbered from 1, and each is of one sort.
LEMMA PageFacts ==
    ASSUME file \in Corrupted, NEW p \in Pages
    PROVE  /\ p \in Nat /\ p # 0
           /\ file.pages[p] \in PageSorts
           /\ file.pages[p].children \in Seq(Nat)
           /\ file.pages[p].cells \in Seq(CellSorts)
           /\ file.pages[p].next \in Nat
           /\ file.pages[p].children = <<>> \/ file.pages[p].cells = <<>>
<1>1. file.pages \in Seq(PageSorts)
  BY CorruptedAssumption
<1>2. p \in Nat /\ p # 0 /\ file.pages[p] \in PageSorts
  BY <1>1 DEF Pages
<1>3. <<>> \in Seq(Nat) /\ <<>> \in Seq(CellSorts)
  OBVIOUS
<1> QED
  BY <1>2, <1>3 DEF PageSorts

LEMMA ChildrenAreNumbered ==
    ASSUME file \in Corrupted, NEW p \in Pages, NEW i \in DOMAIN file.pages[p].children
    PROVE  i \in Nat \ {0}
<1>1. ASSUME NEW s \in Seq(Nat), NEW j \in DOMAIN s PROVE j \in Nat \ {0}
  OBVIOUS
<1> QED
  BY <1>1, PageFacts

LEMMA CellsAreNumbered ==
    ASSUME file \in Corrupted, NEW p \in Pages, NEW i \in DOMAIN file.pages[p].cells
    PROVE  i \in Nat \ {0}
<1>1. ASSUME NEW S, NEW s \in Seq(S), NEW j \in DOMAIN s PROVE j \in Nat \ {0}
  OBVIOUS
<1>2. file.pages[p].cells \in Seq(CellSorts)
  BY PageFacts
<1> QED
  BY <1>1, <1>2

\* A page with children has no cells.
LEMMA ParentHasNoCells ==
    ASSUME file \in Corrupted, NEW p \in Pages, NEW i \in DOMAIN file.pages[p].children
    PROVE  DOMAIN file.pages[p].cells = {}
<1>1. file.pages[p].children # <<>>
  OBVIOUS
<1>2. file.pages[p].cells = <<>>
  BY <1>1, PageFacts
<1> QED
  BY <1>2

\* A page with cells has no children.
LEMMA LeafHasNoChildren ==
    ASSUME file \in Corrupted, NEW p \in Pages, NEW i \in DOMAIN file.pages[p].cells
    PROVE  DOMAIN file.pages[p].children = {}
<1>1. file.pages[p].cells # <<>>
  OBVIOUS
<1>2. file.pages[p].children = <<>>
  BY <1>1, PageFacts
<1> QED
  BY <1>2

LEMMA ChildrenAreCounted ==
    ASSUME file \in Corrupted, NEW p \in Pages
    PROVE  Len(file.pages[p].children) + 1 \in Nat \ {0}
<1> DEFINE c == file.pages[p].children
<1>1. c \in Seq(Nat)
  BY PageFacts
<1> HIDE DEF c
<1>2. Len(c) \in Nat
  BY <1>1
<1> QED
  BY <1>2 DEF c

\* A cell that is not torn has a row; an entry of sqlite_master names an entity.
LEMMA CellFacts ==
    ASSUME file \in Corrupted, NEW p \in Pages, NEW i \in DOMAIN file.pages[p].cells
    PROVE  LET cell == file.pages[p].cells[i]
           IN  /\ cell \in CellSorts
               /\ cell.overflow \in Nat
               /\ cell.kind # "torn" => cell.row \in Rows /\ cell.stored \in Nat
               /\ cell.kind = "entity" => cell.name \in Named /\ cell.entity \in Entities
<1>1. file.pages[p].cells \in Seq(CellSorts)
  BY PageFacts
<1>2. file.pages[p].cells[i] \in CellSorts
  BY <1>1
<1> HIDE DEF CellSorts
<1> DEFINE cell == file.pages[p].cells[i]
<1>3. cell \in CellSorts
  BY <1>2
<1> HIDE DEF cell
<1>4. /\ cell.overflow \in Nat
      /\ cell.kind # "torn" => cell.row \in Rows /\ cell.stored \in Nat
      /\ cell.kind = "entity" => cell.name \in Named /\ cell.entity \in Entities
  BY <1>3 DEF CellSorts
<1> QED
  BY <1>3, <1>4 DEF cell

LEMMA OverflowIsNumber ==
    ASSUME file \in Corrupted, NEW p \in Pages, NEW i
    PROVE  OverflowOf(p, i) \in Nat
  BY CellFacts DEF OverflowOf

LEMMA FrameFacts ==
    ASSUME file \in Corrupted, NEW p \in Pages, NEW i \in Nat \ {0}
    PROVE  /\ Frame(p, i) \in Frames
           /\ Frame(p, i).page = p /\ Frame(p, i).at = i
           /\ Frame(p, i).overflow = OverflowOf(p, i)
  BY PageFacts, OverflowIsNumber DEF Frame, Frames

\* The overflow page of a cell is no page of a tree, where the file keeps them apart.
LEMMA OverflowIsApart ==
    ASSUME file \in Corrupted, OverflowsApart, NEW p \in Pages, NEW i
    PROVE  ~Readable(OverflowOf(p, i))
<1>1. CASE i \in DOMAIN file.pages[p].cells
  BY <1>1 DEF OverflowsApart, Readable
<1>2. CASE i \notin DOMAIN file.pages[p].cells
  <2>1. OverflowOf(p, i) = 0
    BY <1>2 DEF OverflowOf
  <2>2. 0 \notin Pages
    BY PageFacts
  <2> QED
    BY <2>1, <2>2 DEF Readable
<1> QED
  BY <1>1, <1>2

LEMMA NextIsApart ==
    ASSUME file \in Corrupted, OverflowsApart, NEW p \in Pages
    PROVE  ~Readable(file.pages[p].next)
  BY DEF OverflowsApart, Readable
-----------------------------------------------------------------------------
(* The pages of a tree. *)

\* The least set: it has the root and the children of its pages, and is in every
\* set that does.
LEMMA RootIsReached ==
    ASSUME NEW root, Readable(root)
    PROVE  root \in Reached(root)
  BY DEF Reached, Readable

LEMMA ChildIsReached ==
    ASSUME NEW root, NEW p \in Reached(root), NEW i \in DOMAIN file.pages[p].children,
           Readable(file.pages[p].children[i])
    PROVE  file.pages[p].children[i] \in Reached(root)
<1> DEFINE child == file.pages[p].children[i]
<1>1. child \in Pages
  BY DEF Readable
<1>2. ASSUME NEW S \in SUBSET Pages, ClosedUnder(S), Readable(root) => root \in S
      PROVE  child \in S
  <2>1. p \in S
    BY <1>2 DEF Reached
  <2> QED
    BY <2>1, <1>2 DEF ClosedUnder
<1> QED
  BY <1>1, <1>2 DEF Reached

LEMMA ReachedIsLeast ==
    ASSUME NEW root, NEW S \in SUBSET Pages, ClosedUnder(S), Readable(root) => root \in S
    PROVE  Reached(root) \subseteq S
  BY DEF Reached

LEMMA ReachedArePages == \A root : Reached(root) \subseteq Pages
  BY DEF Reached

\* What is said of the file alone does not change.
LEMMA FileIsKept ==
    ASSUME file' = file
    PROVE  /\ Pages' = Pages
           /\ \A p : Readable(p)' = Readable(p) /\ Parses(p)' = Parses(p)
           /\ \A p : RowsOf(p)' = RowsOf(p)
           /\ \A root : Reached(root)' = Reached(root)
           /\ OverflowsApart' = OverflowsApart
           /\ \A p, i : Frame(p, i)' = Frame(p, i)
           /\ \A p, i : NoTorn(p, i)' = NoTorn(p, i)
<1>1. Pages' = Pages
  BY DEF Pages
<1>2. \A p : Readable(p)' = Readable(p) /\ Parses(p)' = Parses(p)
  BY <1>1 DEF Readable, Parses
<1>3. \A p : RowsOf(p)' = RowsOf(p)
  BY DEF RowsOf
<1>4. \A S : ClosedUnder(S)' = ClosedUnder(S)
  BY <1>2, Zenon DEF ClosedUnder
<1>5. \A root : Reached(root)' = Reached(root)
  BY <1>1, <1>2, <1>4, Zenon DEF Reached
<1>6. OverflowsApart' = OverflowsApart
  BY <1>1, <1>2, Zenon DEF OverflowsApart, OverflowOf
<1>7. \A p, i : Frame(p, i)' = Frame(p, i)
  BY Zenon DEF Frame, OverflowOf
<1>8. \A p, i : NoTorn(p, i)' = NoTorn(p, i)
  BY Zenon DEF NoTorn
<1> QED
  BY <1>1, <1>2, <1>3, <1>5, <1>6, <1>7, <1>8
-----------------------------------------------------------------------------
(* What a step does to the stack. *)

Replaced(f) ==
    /\ stack' \in Seq(Frames) /\ Len(stack') = Len(stack)
    /\ \A k \in DOMAIN stack : stack'[k] = IF k = Len(stack) THEN f ELSE stack[k]

PushedOn(f) ==
    /\ stack' \in Seq(Frames) /\ Len(stack') = Len(stack) + 1
    /\ \A k \in DOMAIN stack : stack'[k] = stack[k]
    /\ stack'[Len(stack')] = f

\* The innermost page is gone, and the one above it stands at another place.
Popped ==
    /\ stack' \in Seq(Frames) /\ Len(stack') = Len(stack) - 1
    /\ \A k \in DOMAIN stack' :
           /\ stack'[k].page = stack[k].page /\ stack'[k].overflow = stack[k].overflow
           /\ k < Len(stack') => stack'[k].at = stack[k].at
           /\ k = Len(stack') => stack'[k].at = stack[k].at + 1 \/ cancelled

LEMMA TopFacts ==
    ASSUME stack \in Seq(Frames), Inside
    PROVE  /\ Len(stack) \in Nat /\ Len(stack) # 0 /\ Len(stack) \in DOMAIN stack
           /\ DOMAIN stack = 1 .. Len(stack)
           /\ Top \in Frames /\ Top.page \in Nat /\ Top.at \in Nat \ {0} /\ Top.overflow \in Nat
           /\ Top.at + 1 \in Nat \ {0}
<1>1. Len(stack) \in Nat /\ Len(stack) # 0 /\ Len(stack) \in DOMAIN stack
  BY DEF Inside
<1>2. Top \in Frames
  BY <1>1 DEF Top
<1>3. Top.page \in Nat /\ Top.at \in Nat \ {0} /\ Top.overflow \in Nat
  BY <1>2 DEF Frames
<1> QED
  BY <1>1, <1>2, <1>3

LEMMA AdvancedReplaces ==
    ASSUME stack \in Seq(Frames), Inside, file \in Corrupted, Top.page \in Pages,
           stack' = Advanced
    PROVE  Replaced(Frame(Top.page, Top.at + 1))
<1> DEFINE f == Frame(Top.page, Top.at + 1)
<1>1. f \in Frames
  BY FrameFacts, TopFacts
<1> HIDE DEF f
<1>2. stack' = Append(SubSeq(stack, 1, Len(stack) - 1), f)
  BY DEF Advanced, Below, f
<1>3. SubSeq(stack, 1, Len(stack) - 1) \in Seq(Frames)
  BY TopFacts
<1>4. Replaced(f)
  BY <1>1, <1>2, <1>3, TopFacts DEF Replaced
<1> QED
  BY <1>4 DEF f

LEMMA TopIsReplaced ==
    ASSUME stack \in Seq(Frames), Inside, NEW f \in Frames,
           stack' = [stack EXCEPT ![Len(stack)] = f]
    PROVE  Replaced(f)
  BY TopFacts DEF Replaced

LEMMA FrameIsPushed ==
    ASSUME stack \in Seq(Frames), NEW f \in Frames, stack' = Append(stack, f)
    PROVE  PushedOn(f)
  BY DEF PushedOn

LEMMA LeavePops ==
    ASSUME stack \in Seq(Frames), Inside, file \in Corrupted, \A k \in DOMAIN stack : stack[k].page \in Pages,
           NEW rc, Leave(rc), rc = "cancelled" => cancelled
    PROVE  Popped
<1>0. Len(stack) \in Nat /\ Len(stack) # 0 /\ DOMAIN stack = 1 .. Len(stack)
  BY TopFacts
<1>1. CASE Len(stack) = 1
  <2>1. stack' = <<>>
    BY <1>1 DEF Leave
  <2> QED
    BY <2>1, <1>1 DEF Popped
<1>2. CASE Len(stack) # 1
  <2> DEFINE last == Len(stack) - 1
             b == Below
             past == Len(file.pages[b[Len(b)].page].children) + 1
             place == IF rc = "cancelled" THEN past ELSE b[Len(b)].at + 1
  <2>1. b \in Seq(Frames) /\ Len(b) = last /\ last \in Nat /\ last # 0 /\ last \in DOMAIN stack
        /\ \A k \in 1 .. last : b[k] = stack[k]
    BY <1>0, <1>2 DEF Below
  <2>2. b[Len(b)] = stack[last] /\ stack[last] \in Frames /\ stack[last].page \in Pages
    BY <2>1
  <2>3. past \in Nat \ {0}
    <3> HIDE DEF b, last
    <3> QED
      BY ChildrenAreCounted, <2>2
  <2>4. b[Len(b)].at \in Nat \ {0}
    BY <2>2 DEF Frames
  <2>5. place \in Nat \ {0}
    BY <2>3, <2>4
  <2>6. stack' = [b EXCEPT ![Len(b)].at = place]
    BY <1>2 DEF Leave, Resumed
  <2>7. rc # "cancelled" => place = b[Len(b)].at + 1
    OBVIOUS
  <2>8. \A f \in Frames : [f EXCEPT !.at = place] \in Frames
    BY <2>5 DEF Frames
  <2> HIDE DEF place, past, b
  <2> DEFINE g == [stack[last] EXCEPT !.at = place]
  <2>9. g \in Frames /\ g.page = stack[last].page /\ g.overflow = stack[last].overflow
        /\ g.at = place
    BY <2>2, <2>5 DEF Frames
  <2>10. stack' = [b EXCEPT ![last] = g]
    BY <2>6, <2>1, <2>2
  <2> HIDE DEF g
  <2>11. stack' \in Seq(Frames) /\ Len(stack') = last
         /\ \A k \in 1 .. last : stack'[k] = IF k = last THEN g ELSE stack[k]
    BY <2>10, <2>1, <2>9
  <2>12. DOMAIN stack' = 1 .. last
    BY <2>11
  <2>13. rc # "cancelled" => place = stack[last].at + 1
    BY <2>7, <2>2
  <2> HIDE DEF last
  <2>14. ASSUME NEW k \in DOMAIN stack'
         PROVE  /\ stack'[k].page = stack[k].page /\ stack'[k].overflow = stack[k].overflow
                /\ k < Len(stack') => stack'[k].at = stack[k].at
                /\ k = Len(stack') => stack'[k].at = stack[k].at + 1 \/ cancelled
    BY <2>9, <2>11, <2>12, <2>13, <2>1
  <2>15. Len(stack') = Len(stack) - 1
    BY <2>11 DEF last
  <2> QED
    BY <2>11, <2>14, <2>15, Zenon DEF Popped
<1> QED
  BY <1>1, <1>2
-----------------------------------------------------------------------------
(* The pages on the stack. *)

\* No page becomes unchecked.
StatusGrows == \A p \in Pages : status[p] # "unchecked" => status'[p] # "unchecked"

LEMMA VisitedGrows ==
    ASSUME file' = file, StatusGrows, NEW p, Visited(p)
    PROVE  Visited(p)'
  BY FileIsKept DEF Visited, StatusGrows, Readable

LEMMA FramedKept ==
    ASSUME file' = file, Tree' = Tree, StatusGrows, NEW f, NEW g, Framed(f),
           g.page = f.page, g.overflow = f.overflow,
           g.at = f.at \/ DOMAIN file.pages[f.page].cells = {}
    PROVE  Framed(g)'
<1>1. Readable(g.page)' /\ (status[g.page] # "unchecked")'
  BY FileIsKept DEF Framed, StatusGrows, Readable
<1>2. (g.page \in Reached(Tree))'
  BY FileIsKept DEF Framed
<1>3. OverflowsApart' => ~Readable(g.overflow)'
  BY FileIsKept DEF Framed
<1>4. \A j \in DOMAIN file.pages[g.page].cells :
          j < g.at => file.pages[g.page].cells[j].kind # "torn"
  BY DEF Framed
<1> QED
  BY <1>1, <1>2, <1>3, <1>4 DEF Framed

LEMMA WalkedReplaced ==
    ASSUME stack \in Seq(Frames), file' = file, Tree' = Tree, StatusGrows, Walked,
           NEW f, Replaced(f), Framed(f)'
    PROVE  Walked'
<1>1. DOMAIN stack' = DOMAIN stack
  BY DEF Replaced
<1>2. ASSUME NEW k \in DOMAIN stack
      PROVE  Framed(stack[k])'
  <2>1. CASE k = Len(stack)
    BY <2>1 DEF Replaced
  <2>2. CASE k # Len(stack)
    <3>1. stack'[k] = stack[k]
      BY <2>2 DEF Replaced
    <3>2. Framed(stack[k])
      BY DEF Walked
    <3>3. ASSUME NEW g, g = stack[k] PROVE Framed(g)'
      BY <3>2, <3>3, FramedKept
    <3> QED
      BY <3>1, <3>3
  <2> QED
    BY <2>1, <2>2
<1> QED
  BY <1>1, <1>2 DEF Walked

LEMMA WalkedPushed ==
    ASSUME stack \in Seq(Frames), file' = file, StatusGrows, Walked,
           stack # <<>> => Tree' = Tree,
           NEW f, PushedOn(f), Framed(f)'
    PROVE  Walked'
<1>1. /\ Len(stack) \in Nat /\ DOMAIN stack = 1 .. Len(stack)
      /\ DOMAIN stack' = 1 .. (Len(stack) + 1)
  BY DEF PushedOn
<1>2. ASSUME NEW k \in DOMAIN stack'
      PROVE  Framed(stack[k])'
  <2>1. CASE k = Len(stack) + 1
    BY <2>1 DEF PushedOn
  <2>2. CASE k # Len(stack) + 1
    <3>0. k \in DOMAIN stack
      BY <1>1, <2>2
    <3>1. stack'[k] = stack[k] /\ stack # <<>>
      BY <3>0 DEF PushedOn
    <3>2. Framed(stack[k])
      BY <3>0 DEF Walked
    <3>3. ASSUME NEW g, g = stack[k] PROVE Framed(g)'
      BY <3>1, <3>2, <3>3, FramedKept
    <3> QED
      BY <3>1, <3>3
  <2> QED
    BY <2>1, <2>2
<1> QED
  BY <1>2 DEF Walked

LEMMA WalkedPopped ==
    ASSUME stack \in Seq(Frames), file \in Corrupted, file' = file, Tree' = Tree, StatusGrows,
           Walked, Linked, Popped
    PROVE  Walked'
<1>1. ASSUME NEW k \in DOMAIN stack'
      PROVE  Framed(stack[k])'
  <2>1. k \in DOMAIN stack /\ k < Len(stack)
    BY DEF Popped
  <2>2. Framed(stack[k]) /\ stack[k].page \in Pages
    BY <2>1 DEF Walked, Framed, Readable
  <2>3. LinkedAt(k)
    BY <2>1 DEF Linked
  <2>4. DOMAIN file.pages[stack[k].page].cells = {}
    BY <2>2, <2>3, ParentHasNoCells DEF LinkedAt
  <2>5. stack'[k].page = stack[k].page /\ stack'[k].overflow = stack[k].overflow
    BY DEF Popped
  <2>6. ASSUME NEW f, f = stack[k], NEW g, g = stack'[k] PROVE Framed(g)'
    BY <2>2, <2>4, <2>5, <2>6, FramedKept
  <2> QED
    BY <2>6
<1> QED
  BY <1>1 DEF Walked

LEMMA LinkedReplaced ==
    ASSUME stack \in Seq(Frames), file' = file, Linked, Inside,
           NEW f, Replaced(f), f.page = Top.page
    PROVE  Linked'
<1>1. /\ DOMAIN stack' = DOMAIN stack /\ Len(stack') = Len(stack)
      /\ Len(stack) \in Nat /\ DOMAIN stack = 1 .. Len(stack)
  BY DEF Replaced
<1>2. ASSUME NEW k \in DOMAIN stack, k < Len(stack)
      PROVE  LinkedAt(k)'
  <2>1. LinkedAt(k)
    BY <1>2 DEF Linked
  <2>2. stack'[k] = stack[k]
    BY <1>2 DEF Replaced
  <2>3. stack'[k + 1].page = stack[k + 1].page
    BY <1>1, <1>2 DEF Replaced, Top
  <2> QED
    BY <2>1, <2>2, <2>3 DEF LinkedAt
<1> QED
  BY <1>1, <1>2 DEF Linked

LEMMA LinkedPushed ==
    ASSUME stack \in Seq(Frames), file' = file, Linked, NEW f, PushedOn(f),
           Inside => Top.at \in DOMAIN Children /\ Children[Top.at] = f.page
    PROVE  Linked'
<1>1. /\ Len(stack') = Len(stack) + 1 /\ DOMAIN stack' = 1 .. Len(stack')
      /\ Len(stack) \in Nat /\ DOMAIN stack = 1 .. Len(stack)
  BY DEF PushedOn
<1>2. ASSUME NEW k \in DOMAIN stack', k < Len(stack')
      PROVE  LinkedAt(k)'
  <2>1. k \in DOMAIN stack /\ stack'[k] = stack[k] /\ Inside
    BY <1>1, <1>2 DEF PushedOn, Inside
  <2>2. CASE k = Len(stack)
    <3>1. stack'[k + 1] = f
      BY <2>2, <1>1 DEF PushedOn
    <3> QED
      BY <2>1, <2>2, <3>1 DEF LinkedAt, Top, Children
  <2>3. CASE k # Len(stack)
    <3>1. LinkedAt(k)
      BY <2>1, <2>3, <1>1 DEF Linked
    <3>2. stack'[k + 1] = stack[k + 1]
      BY <2>3, <1>1, <2>1 DEF PushedOn
    <3> QED
      BY <2>1, <3>1, <3>2 DEF LinkedAt
  <2> QED
    BY <2>2, <2>3
<1> QED
  BY <1>2 DEF Linked

LEMMA LinkedPopped ==
    ASSUME stack \in Seq(Frames), file' = file, Linked, Popped
    PROVE  Linked'
<1>1. /\ Len(stack') = Len(stack) - 1 /\ DOMAIN stack' = 1 .. Len(stack') /\ Len(stack') \in Nat
      /\ Len(stack) \in Nat /\ DOMAIN stack = 1 .. Len(stack)
  BY DEF Popped
<1>2. ASSUME NEW k \in DOMAIN stack', k < Len(stack')
      PROVE  LinkedAt(k)'
  <2>1. k \in DOMAIN stack /\ k < Len(stack) /\ k + 1 \in DOMAIN stack'
    BY <1>1, <1>2
  <2>2. LinkedAt(k)
    BY <2>1 DEF Linked
  <2>3. stack'[k].page = stack[k].page /\ stack'[k].at = stack[k].at
    BY <1>2 DEF Popped
  <2>4. stack'[k + 1].page = stack[k + 1].page
    BY <2>1 DEF Popped
  <2> QED
    BY <2>2, <2>3, <2>4 DEF LinkedAt
<1> QED
  BY <1>2 DEF Linked
-----------------------------------------------------------------------------
(* What a step leaves behind. *)

\* The step leaves the i-th child or cell of p behind, for all the pages on the stack.
NewlyBehind(p, i) == Visited(p)' /\ Behind(p, i)' /\ ~(Visited(p) /\ Behind(p, i))

LEMMA BehindReplaced ==
    ASSUME stack \in Seq(Frames), Inside, NEW f \in Frames, Replaced(f), f.page = Top.page,
           f.at = Top.at \/ f.at = Top.at + 1,
           NEW p, NEW i \in Nat, Behind(p, i)', ~Behind(p, i)
    PROVE  p = Top.page /\ i = Top.at /\ f.at = Top.at + 1
<1>1. PICK k \in DOMAIN stack : stack[k].page = p /\ ~(i < stack[k].at)
  BY DEF Behind
<1>2. stack'[k].page = p => i < stack'[k].at
  BY DEF Behind, Replaced
<1>3. k = Len(stack)
  BY <1>1, <1>2 DEF Replaced
<1>4. stack[k] = Top /\ stack'[k] = f
  BY <1>3 DEF Replaced, Top
<1>5. Top.at \in Nat
  BY TopFacts
<1> QED
  BY <1>1, <1>2, <1>4, <1>5

LEMMA BehindPushed ==
    ASSUME stack \in Seq(Frames), NEW f \in Frames, PushedOn(f),
           NEW p, NEW i \in Nat, Behind(p, i)'
    PROVE  Behind(p, i) /\ (p = f.page => i < f.at)
<1>1. /\ Len(stack) \in Nat /\ DOMAIN stack = 1 .. Len(stack)
      /\ DOMAIN stack' = 1 .. (Len(stack) + 1) /\ Len(stack') = Len(stack) + 1
  BY DEF PushedOn
<1>2. \A k \in DOMAIN stack' : stack'[k].page = p => i < stack'[k].at
  BY DEF Behind
<1>3. ASSUME NEW k \in DOMAIN stack, stack[k].page = p PROVE i < stack[k].at
  BY <1>1, <1>2, <1>3 DEF PushedOn
<1>4. p = f.page => i < f.at
  BY <1>1, <1>2 DEF PushedOn
<1> QED
  BY <1>3, <1>4 DEF Behind

LEMMA BehindPopped ==
    ASSUME stack \in Seq(Frames), Inside, Popped, ~cancelled,
           NEW p, NEW i \in Nat, Behind(p, i)', ~Behind(p, i)
    PROVE  \/ p = Top.page /\ ~(i < Top.at)
           \/ \E k \in DOMAIN stack : /\ k = Len(stack) - 1 /\ stack[k].page = p
                                      /\ stack[k].at = i
<1>1. /\ Len(stack) \in Nat /\ DOMAIN stack = 1 .. Len(stack)
      /\ Len(stack') = Len(stack) - 1 /\ DOMAIN stack' = 1 .. Len(stack')
  BY DEF Popped
<1>2. PICK k \in DOMAIN stack : stack[k].page = p /\ ~(i < stack[k].at)
  BY DEF Behind
<1>3. CASE k = Len(stack)
  BY <1>2, <1>3 DEF Top
<1>4. CASE k # Len(stack)
  <2>1. k \in DOMAIN stack'
    BY <1>1, <1>4
  <2>2. stack'[k].page = p
    BY <2>1, <1>2 DEF Popped
  <2>3. i < stack'[k].at
    BY <2>1, <2>2 DEF Behind
  <2>4. k = Len(stack') /\ stack'[k].at = stack[k].at + 1
    BY <1>1, <1>2, <2>1, <2>3 DEF Popped
  <2>5. stack[k].at \in Nat
    <3>1. stack[k] \in Frames
      OBVIOUS
    <3> QED
      BY <3>1 DEF Frames
  <2>6. stack[k].at = i
    BY <2>3, <2>4, <2>5, <1>2
  <2> QED
    BY <2>4, <2>6, <1>1, <1>2
<1> QED
  BY <1>3, <1>4

LEMMA ChildrenAreVisited ==
    ASSUME file' = file, StatusGrows, ChildrenVisited, cancelled => cancelled',
           ASSUME OverflowsApart, ~cancelled, NEW p \in Pages,
                  NEW i \in DOMAIN file.pages[p].children, NewlyBehind(p, i)
           PROVE  ChildVisited(p, i)'
    PROVE  ChildrenVisited'
<1>1. \A p, i : ChildVisited(p, i) => ChildVisited(p, i)'
  BY VisitedGrows, FileIsKept DEF ChildVisited
<1>2. ASSUME OverflowsApart, ~cancelled, NEW p \in Pages,
             NEW i \in DOMAIN file.pages[p].children, Visited(p)', Behind(p, i)'
      PROVE  ChildVisited(p, i)'
  <2>1. CASE Visited(p) /\ Behind(p, i)
    BY <1>1, <1>2, <2>1 DEF ChildrenVisited
  <2>2. CASE ~(Visited(p) /\ Behind(p, i))
    BY <1>2, <2>2 DEF NewlyBehind
  <2> QED
    BY <2>1, <2>2
<1>3. OverflowsApart' = OverflowsApart /\ Pages' = Pages
  BY FileIsKept
<1> QED
  BY <1>2, <1>3 DEF ChildrenVisited

LEMMA RowsAreWritten ==
    ASSUME file' = file, RowsWritten, NothingFailed' => NothingFailed,
           NothingFailed' => \A r : RowWritten(r) => RowWritten(r)',
           ASSUME NothingFailed', NEW p \in Pages, NEW i \in DOMAIN file.pages[p].cells,
                  NewlyBehind(p, i), NoTorn(p, i), p \notin Reached(1)
           PROVE  RowWritten(file.pages[p].cells[i].row)'
    PROVE  RowsWritten'
<1>1. ASSUME NothingFailed', NEW p \in Pages, NEW i \in DOMAIN file.pages[p].cells,
             Visited(p)', Behind(p, i)', NoTorn(p, i), p \notin Reached(1)
      PROVE  RowWritten(file.pages[p].cells[i].row)'
  <2>1. CASE Visited(p) /\ Behind(p, i)
    <3>1. RowWritten(file.pages[p].cells[i].row)
      BY <1>1, <2>1 DEF RowsWritten
    <3> QED
      BY <3>1, <1>1
  <2>2. CASE ~(Visited(p) /\ Behind(p, i))
    BY <1>1, <2>2 DEF NewlyBehind
  <2> QED
    BY <2>1, <2>2
<1>2. /\ Pages' = Pages
      /\ \A p, i : NoTorn(p, i)' = NoTorn(p, i)
      /\ \A root : Reached(root)' = Reached(root)
  BY FileIsKept
<1> QED
  BY <1>1, <1>2 DEF RowsWritten
-----------------------------------------------------------------------------
(* The moves of the walk. *)

WalkKept ==
    /\ stack' \in Seq(Frames) /\ status' \in [Pages' -> Statuses]
    /\ StatusGrows /\ Walked' /\ Linked'

LEMMA TypesOfWalk ==
    ASSUME RecoveryInv
    PROVE  /\ file \in Corrupted /\ stack \in Seq(Frames) /\ status \in [Pages -> Statuses]
           /\ Walked /\ Linked
           /\ \A k \in DOMAIN stack : stack[k].page \in Pages
  BY DEF RecoveryInv, RecoveryTypeOK, Walked, Framed, Readable

LEMMA TopIsFramed ==
    ASSUME RecoveryInv, Inside
    PROVE  /\ Framed(Top) /\ Top.page \in Pages /\ Readable(Top.page) /\ Visited(Top.page)
           /\ Top \in Frames /\ Top.at \in Nat \ {0} /\ Top.at + 1 \in Nat \ {0}
           /\ Top.page \in Reached(Tree)
<1>1. Framed(Top)
  BY TypesOfWalk, TopFacts DEF Walked, Top
<1> QED
  BY <1>1, TypesOfWalk, TopFacts DEF Framed, Readable, Visited

LEMMA RestMoves ==
    ASSUME RecoveryInv, UNCHANGED <<file, stack, status>>, Inside => Tree' = Tree
    PROVE  WalkKept /\ \A p, i : ~NewlyBehind(p, i)
<1>1. StatusGrows /\ stack' \in Seq(Frames) /\ status' \in [Pages' -> Statuses]
  BY TypesOfWalk, FileIsKept DEF StatusGrows
<1>2. Linked'
  BY TypesOfWalk DEF Linked, LinkedAt
<1>3. ASSUME NEW k \in DOMAIN stack PROVE Framed(stack[k])'
  <2>1. Framed(stack[k]) /\ Inside
    BY TypesOfWalk DEF Walked, Inside
  <2>2. ASSUME NEW g, g = stack[k] PROVE Framed(g)'
    BY <1>1, <2>1, <2>2, FramedKept
  <2> QED
    BY <2>2
<1>4. \A p, i : (Visited(p)' <=> Visited(p)) /\ (Behind(p, i)' <=> Behind(p, i))
  BY FileIsKept DEF Visited, Behind
<1> QED
  BY <1>1, <1>2, <1>3, <1>4 DEF WalkKept, Walked, NewlyBehind

\* The parsing of a cell of the innermost page.
Advances == HasColumn /\ stack' = Advanced /\ UNCHANGED <<file, status>>

LEMMA AdvanceMoves ==
    ASSUME RecoveryInv, Advances, Tree' = Tree
    PROVE  /\ WalkKept
           /\ \A p : \A i \in Nat : NewlyBehind(p, i) => p = Top.page /\ i = Top.at
<1>f. PICK f : f = Frame(Top.page, Top.at + 1)
  OBVIOUS
<1>1. Inside /\ Top.at \in DOMAIN Cells /\ Cell.kind # "torn"
  BY DEF Advances, HasColumn, HasPayload
<1>2. f \in Frames /\ f.page = Top.page /\ f.at = Top.at + 1
      /\ f.overflow = OverflowOf(Top.page, Top.at + 1)
  BY <1>f, <1>1, FrameFacts, TopIsFramed, TypesOfWalk
<1>3. Replaced(f)
  BY <1>f, <1>1, AdvancedReplaces, TopIsFramed, TypesOfWalk DEF Advances
<1>4. StatusGrows /\ stack' \in Seq(Frames) /\ status' \in [Pages' -> Statuses]
  BY <1>3, TypesOfWalk, FileIsKept DEF StatusGrows, Advances, Replaced
<1>5. Framed(f)'
  <2>1. Readable(f.page)' /\ (status[f.page] # "unchecked")' /\ (f.page \in Reached(Tree))'
    BY <1>1, <1>2, TopIsFramed, FileIsKept DEF Framed, Advances
  <2>2. OverflowsApart' => ~Readable(f.overflow)'
    BY <1>1, <1>2, TopIsFramed, TypesOfWalk, OverflowIsApart, FileIsKept DEF Advances
  <2>3. ASSUME NEW j \in DOMAIN file.pages[f.page].cells, j < f.at
        PROVE  file.pages[f.page].cells[j].kind # "torn"
    <3>0. j \in Nat /\ Top.at \in Nat
      BY <1>1, <1>2, TopIsFramed, TypesOfWalk, CellsAreNumbered
    <3>1. CASE j < Top.at
      BY <1>1, <1>2, <3>1, TopIsFramed DEF Framed
    <3>2. CASE j = Top.at
      BY <1>1, <1>2, <3>2 DEF Cell, Cells
    <3> QED
      BY <3>0, <3>1, <3>2, <2>3, <1>2
  <2> QED
    BY <2>1, <2>2, <2>3 DEF Framed, Advances
<1>6. Walked'
  BY <1>3, <1>4, <1>5, TypesOfWalk, WalkedReplaced DEF Advances
<1>7. Linked'
  BY <1>1, <1>2, <1>3, TypesOfWalk, LinkedReplaced DEF Advances
<1>8. ASSUME NEW p, NEW i \in Nat, NewlyBehind(p, i)
      PROVE  p = Top.page /\ i = Top.at
  <2>1. Visited(p)' <=> Visited(p)
    BY FileIsKept DEF Visited, Advances
  <2>2. Behind(p, i)' /\ ~Behind(p, i)
    BY <1>8, <2>1 DEF NewlyBehind
  <2> QED
    BY <1>1, <1>2, <1>3, <2>2, BehindReplaced, TypesOfWalk
<1> QED
  BY <1>4, <1>6, <1>7, <1>8 DEF WalkKept

LEMMA BeginMoves ==
    ASSUME RecoveryInv, ~Inside, file' = file, NEW root, Tree' = root, BeginTree(root)
    PROVE  /\ WalkKept
           /\ \A p : \A i \in Nat \ {0} : ~NewlyBehind(p, i)
           /\ Readable(root) => Visited(root)'
<1>f. PICK f : f = Frame(root, 1)
  OBVIOUS
<1>0. stack = <<>> /\ stack \in Seq(Frames) /\ file \in Corrupted
  BY TypesOfWalk DEF Inside
<1>1. CASE Readable(root) /\ status[root] = "unchecked"
  <2>1. stack' = <<f>> /\ status' = [status EXCEPT ![root] = "checking"] /\ root \in Pages
    BY <1>f, <1>1 DEF BeginTree, Readable
  <2>2. f \in Frames /\ f.page = root /\ f.at = 1 /\ f.overflow = OverflowOf(root, 1)
    BY <1>f, <1>0, <2>1, FrameFacts
  <2>3. PushedOn(f)
    BY <1>0, <2>1, <2>2 DEF PushedOn
  <2>4. StatusGrows /\ status' \in [Pages' -> Statuses] /\ status'[root] = "checking"
    BY <2>1, TypesOfWalk, FileIsKept DEF StatusGrows, Statuses
  <2>5. Framed(f)'
    <3>1. Readable(f.page)' /\ (status[f.page] # "unchecked")' /\ (f.page \in Reached(Tree))'
      BY <1>1, <2>2, <2>4, RootIsReached, FileIsKept
    <3>2. OverflowsApart' => ~Readable(f.overflow)'
      BY <1>0, <2>1, <2>2, OverflowIsApart, FileIsKept
    <3>3. \A j \in DOMAIN file.pages[f.page].cells : ~(j < f.at)
      BY <1>0, <2>1, <2>2, PageFacts
    <3> QED
      BY <3>1, <3>2, <3>3 DEF Framed
  <2>6. Walked'
    BY <1>0, <2>3, <2>4, <2>5, TypesOfWalk, WalkedPushed
  <2>7. Linked'
    BY <2>3, TypesOfWalk, LinkedPushed
  <2>8. ASSUME NEW p, NEW i \in Nat \ {0}, NewlyBehind(p, i)
        PROVE  FALSE
    <3>1. Behind(p, i) /\ (p = root => i < 1)
      BY <2>2, <2>3, <2>8, BehindPushed, TypesOfWalk DEF NewlyBehind
    <3>2. p # root
      BY <3>1
    <3>3. Visited(p)
      BY <2>1, <2>8, <3>2, TypesOfWalk, FileIsKept DEF NewlyBehind, Visited, Readable
    <3> QED
      BY <2>8, <3>1, <3>3 DEF NewlyBehind
  <2>9. Visited(root)'
    BY <1>1, <2>4, FileIsKept DEF Visited
  <2> QED
    BY <2>3, <2>4, <2>6, <2>7, <2>8, <2>9 DEF WalkKept, PushedOn
<1>2. CASE ~(Readable(root) /\ status[root] = "unchecked")
  <2>1. UNCHANGED <<stack, status>>
    BY <1>2 DEF BeginTree, Readable
  <2>2. WalkKept /\ \A p, i : ~NewlyBehind(p, i)
    BY <2>1, RestMoves
  <2>3. Readable(root) => Visited(root)'
    BY <1>2, <2>1, FileIsKept DEF Visited
  <2> QED
    BY <2>2, <2>3
<1> QED
  BY <1>1, <1>2

LEMMA TreeIsKept ==
    ASSUME UNCHANGED <<tables, phase, cursor>>
    PROVE  Tree' = Tree
  BY DEF Tree, Here

LEMMA EnterMoves ==
    ASSUME RecoveryInv, EnterChild
    PROVE  /\ WalkKept
           /\ \A p : \A i \in Nat \ {0} : NewlyBehind(p, i) =>
                  /\ p = Top.page /\ i = Top.at /\ ChildVisited(p, i)'
                  /\ i \in DOMAIN file.pages[p].children
<1>f. PICK child : child = Children[Top.at]
  OBVIOUS
<1>0. /\ Inside /\ Top.at \in DOMAIN Children /\ file' = file /\ file \in Corrupted
      /\ stack \in Seq(Frames)
  BY TypesOfWalk DEF EnterChild
<1>t. Tree' = Tree
  BY TreeIsKept DEF EnterChild
<1>1. CASE Readable(child) /\ status[child] # "checking"
  <2>g. PICK f : f = Frame(child, 1)
    OBVIOUS
  <2>1. stack' = Append(stack, f) /\ status' = [status EXCEPT ![child] = "checking"]
        /\ child \in Pages
    BY <1>f, <2>g, <1>1 DEF EnterChild, Enterable, Readable
  <2>2. f \in Frames /\ f.page = child /\ f.at = 1 /\ f.overflow = OverflowOf(child, 1)
    BY <1>0, <2>g, <2>1, FrameFacts
  <2>3. PushedOn(f)
    BY <1>0, <2>1, <2>2, FrameIsPushed
  <2>4. StatusGrows /\ status' \in [Pages' -> Statuses] /\ status'[child] = "checking"
    BY <1>0, <2>1, TypesOfWalk, FileIsKept DEF StatusGrows, Statuses
  <2>5. Framed(f)'
    <3>1. Readable(f.page)' /\ (status[f.page] # "unchecked")'
      BY <1>0, <1>1, <2>2, <2>4, FileIsKept
    <3>2. Top.page \in Reached(Tree)
      BY <1>0, TopIsFramed
    <3>3. child \in Reached(Tree)
      BY <1>0, <1>1, <1>f, <3>2, ChildIsReached DEF Children
    <3>4. (f.page \in Reached(Tree))'
      BY <1>0, <1>t, <2>2, <3>3, FileIsKept
    <3>5. OverflowsApart' => ~Readable(f.overflow)'
      BY <1>0, <2>1, <2>2, OverflowIsApart, FileIsKept
    <3>6. \A j \in DOMAIN file.pages[f.page].cells : ~(j < f.at)
      BY <1>0, <2>1, <2>2, PageFacts
    <3> QED
      BY <1>0, <3>1, <3>4, <3>5, <3>6 DEF Framed
  <2>6. Walked'
    BY <1>0, <1>t, <2>3, <2>4, <2>5, TypesOfWalk, WalkedPushed
  <2>7. Linked'
    BY <1>0, <1>f, <2>2, <2>3, TypesOfWalk, LinkedPushed
  <2>8. ASSUME NEW p, NEW i \in Nat \ {0}, NewlyBehind(p, i)
        PROVE  FALSE
    <3>1. Behind(p, i) /\ (p = child => i < 1)
      BY <2>2, <2>3, <2>8, BehindPushed, TypesOfWalk DEF NewlyBehind
    <3>2. p # child
      BY <3>1
    <3>3. Visited(p)
      BY <1>0, <2>1, <2>8, <3>2, TypesOfWalk, FileIsKept DEF NewlyBehind, Visited, Readable
    <3> QED
      BY <2>8, <3>1, <3>3 DEF NewlyBehind
  <2> QED
    BY <2>3, <2>4, <2>6, <2>7, <2>8 DEF WalkKept, PushedOn
<1>2. CASE ~(Readable(child) /\ status[child] # "checking")
  <2>g. PICK f : f = [Top EXCEPT !.at = @ + 1]
    OBVIOUS
  <2>1. /\ stack' = [stack EXCEPT ![Len(stack)] = f]
        /\ \/ status' = status
           \/ status' = [status EXCEPT ![child] = "damaged"] /\ ~Readable(child)
    <3>1. ~(Enterable(child) /\ Parses(child))
      BY <1>2 DEF Enterable, Readable
    <3>2. /\ stack' = [stack EXCEPT ![Len(stack)].at = @ + 1]
          /\ status' = IF Enterable(child) THEN [status EXCEPT ![child] = "damaged"] ELSE status
      BY <1>f, <3>1 DEF EnterChild
    <3>3. Enterable(child) => ~Readable(child)
      BY <3>1 DEF Readable
    <3>4. stack' = [stack EXCEPT ![Len(stack)] = f]
      BY <3>2, <2>g DEF Top
    <3> QED
      BY <3>2, <3>3, <3>4
  <2>2. f \in Frames /\ f.page = Top.page /\ f.at = Top.at + 1 /\ f.overflow = Top.overflow
    BY <1>0, <2>g, TopFacts DEF Frames
  <2>3. Replaced(f)
    BY <1>0, <2>1, <2>2, TopIsReplaced
  <2>4. StatusGrows /\ status' \in [Pages' -> Statuses]
    BY <1>0, <2>1, TypesOfWalk, FileIsKept DEF StatusGrows, Statuses
  <2>5. Framed(f)'
    <3>1. DOMAIN file.pages[Top.page].cells = {}
      BY <1>0, TopIsFramed, ParentHasNoCells DEF Children
    <3> QED
      BY <1>0, <1>t, <2>2, <2>4, <3>1, TopIsFramed, FramedKept
  <2>6. Walked'
    BY <1>0, <1>t, <2>3, <2>4, <2>5, TypesOfWalk, WalkedReplaced
  <2>7. Linked'
    BY <1>0, <2>2, <2>3, TypesOfWalk, LinkedReplaced
  <2>8. ASSUME NEW p, NEW i \in Nat \ {0}, NewlyBehind(p, i)
        PROVE  /\ p = Top.page /\ i = Top.at /\ ChildVisited(p, i)'
               /\ i \in DOMAIN file.pages[p].children
    <3>1. Visited(p)' <=> Visited(p)
      BY <1>0, <2>1, TypesOfWalk, FileIsKept DEF Visited, Readable
    <3>2. Behind(p, i)' /\ ~Behind(p, i)
      BY <2>8, <3>1 DEF NewlyBehind
    <3>3. p = Top.page /\ i = Top.at
      BY <1>0, <2>2, <2>3, <3>2, BehindReplaced
    <3>4. Readable(child) => Visited(child)
      BY <1>2 DEF Visited
    <3>5. Readable(child)' => Visited(child)'
      BY <1>0, <2>4, <3>4, VisitedGrows, FileIsKept
    <3>6. file.pages[p].children[i] = child /\ i \in DOMAIN file.pages[p].children
      BY <1>0, <1>f, <3>3 DEF Children
    <3>7. ChildVisited(p, i)'
      BY <1>0, <3>5, <3>6 DEF ChildVisited
    <3> QED
      BY <3>3, <3>6, <3>7
  <2> QED
    BY <2>3, <2>4, <2>6, <2>7, <2>8 DEF WalkKept, Replaced
<1> QED
  BY <1>1, <1>2

LEMMA LeaveMoves ==
    ASSUME RecoveryInv, Inside, UNCHANGED <<file, tables, phase, cursor>>,
           NEW rc \in {"ok", "damaged", "cancelled"}, Leave(rc), rc = "cancelled" => cancelled
    PROVE  /\ WalkKept
           /\ ~cancelled => \A p : \A i \in Nat : NewlyBehind(p, i) =>
                  \/ p = Top.page /\ ~(i < Top.at)
                  \/ i \in DOMAIN file.pages[p].children /\ ChildVisited(p, i)'
<1>0. stack \in Seq(Frames) /\ file \in Corrupted /\ Top.page \in Pages /\ Visited(Top.page)
  BY TopIsFramed, TypesOfWalk
<1>t. Tree' = Tree
  BY TreeIsKept
<1>1. Popped
  BY TypesOfWalk, LeavePops
<1>2. StatusGrows /\ status' \in [Pages' -> Statuses]
  BY <1>0, TypesOfWalk, FileIsKept DEF StatusGrows, Statuses, Leave
<1>3. Walked'
  BY <1>0, <1>1, <1>2, <1>t, TypesOfWalk, WalkedPopped
<1>4. Linked'
  BY <1>0, <1>1, TypesOfWalk, LinkedPopped
<1>5. ASSUME ~cancelled, NEW p, NEW i \in Nat, NewlyBehind(p, i)
      PROVE  \/ p = Top.page /\ ~(i < Top.at)
             \/ i \in DOMAIN file.pages[p].children /\ ChildVisited(p, i)'
  <2>1. Visited(p)' => Visited(p)
    <3>1. p # Top.page => status'[p] = status[p]
      BY DEF Leave
    <3> QED
      BY <1>0, <3>1, FileIsKept DEF Visited
  <2>2. Behind(p, i)' /\ ~Behind(p, i)
    BY <1>5, <2>1 DEF NewlyBehind
  <2>3. CASE p = Top.page /\ ~(i < Top.at)
    BY <2>3
  <2>4. CASE \E k \in DOMAIN stack : /\ k = Len(stack) - 1 /\ stack[k].page = p
                                     /\ stack[k].at = i
    <3>1. PICK k \in DOMAIN stack : k = Len(stack) - 1 /\ stack[k].page = p /\ stack[k].at = i
      BY <2>4
    <3>2. LinkedAt(k) /\ k + 1 = Len(stack)
      BY <1>0, <3>1, TypesOfWalk DEF Linked
    <3>3. i \in DOMAIN file.pages[p].children /\ file.pages[p].children[i] = Top.page
      BY <3>1, <3>2 DEF LinkedAt, Top
    <3>4. Visited(Top.page) 
      BY <1>0
    <3>5. ASSUME NEW q, q = Top.page PROVE Visited(q)'
      BY <3>4, <3>5, <1>2, VisitedGrows
    <3> QED
      BY <3>3, <3>5 DEF ChildVisited
  <2> QED
    BY <1>0, <1>1, <1>5, <2>2, <2>3, <2>4, BehindPopped
<1> QED
  BY <1>1, <1>2, <1>3, <1>4, <1>5 DEF WalkKept, Popped

LEMMA OverflowMoves ==
    ASSUME RecoveryInv, ReadOverflow
    PROVE  /\ WalkKept
           /\ OverflowsApart => \A p : \A i \in Nat : ~NewlyBehind(p, i)
<1>0. /\ Inside /\ file' = file /\ file \in Corrupted /\ stack \in Seq(Frames)
      /\ Top.overflow \in Pages
  BY TypesOfWalk DEF ReadOverflow
<1>t. Tree' = Tree
  BY TreeIsKept DEF ReadOverflow
<1>f. PICK f : f = [Top EXCEPT !.overflow = file.pages[Top.overflow].next]
  OBVIOUS
<1>1. stack' = [stack EXCEPT ![Len(stack)] = f]
  BY <1>f DEF ReadOverflow, Top
<1>2. /\ f \in Frames /\ f.page = Top.page /\ f.at = Top.at
      /\ f.overflow = file.pages[Top.overflow].next
  BY <1>0, <1>f, TopFacts, PageFacts DEF Frames
<1>3. Replaced(f)
  BY <1>0, <1>1, <1>2, TopIsReplaced
<1>4. status' = [status EXCEPT ![Top.overflow] = "checked"]
  BY DEF ReadOverflow
<1>5. StatusGrows /\ status' \in [Pages' -> Statuses]
  BY <1>0, <1>4, TypesOfWalk, FileIsKept DEF StatusGrows, Statuses
<1>6. Framed(f)'
  <2>1. Framed(Top)
    BY <1>0, TopIsFramed
  <2>2. OverflowsApart => ~Readable(f.overflow)
    BY <1>0, <1>2, NextIsApart
  <2>3. Readable(f.page)' /\ (status[f.page] # "unchecked")' /\ (f.page \in Reached(Tree))'
    BY <1>0, <1>2, <1>5, <1>t, <2>1, FileIsKept DEF Framed, StatusGrows, Readable
  <2> QED
    BY <1>0, <1>2, <2>1, <2>2, <2>3, FileIsKept DEF Framed
<1>7. Walked'
  BY <1>0, <1>t, <1>3, <1>5, <1>6, TypesOfWalk, WalkedReplaced
<1>8. Linked'
  BY <1>0, <1>2, <1>3, TypesOfWalk, LinkedReplaced
<1>9. ASSUME OverflowsApart, NEW p, NEW i \in Nat, NewlyBehind(p, i)
      PROVE  FALSE
  <2>1. ~Readable(Top.overflow)
    BY <1>0, <1>9, TopIsFramed DEF Framed
  <2>2. Visited(p)' => Visited(p)
    BY <1>0, <1>4, <2>1, FileIsKept DEF Visited
  <2>3. Behind(p, i)' /\ ~Behind(p, i)
    BY <1>9, <2>2 DEF NewlyBehind
  <2>4. f.at = Top.at + 1
    BY <1>0, <1>2, <1>3, <2>3, BehindReplaced
  <2> QED
    BY <1>0, <1>2, <2>4, TopFacts
<1> QED
  BY <1>3, <1>5, <1>7, <1>8, <1>9 DEF WalkKept, Replaced
-----------------------------------------------------------------------------
(* Every step is one of the moves. *)

\* A child that is left behind has been visited, and a row has just been parsed.
NothingLost(p, i) ==
    /\ i \in DOMAIN file.pages[p].children => ChildVisited(p, i)'
    /\ i \in DOMAIN file.pages[p].cells /\ NoTorn(p, i) =>
           Advances /\ p = Top.page /\ i = Top.at

StepMoves ==
    /\ WalkKept
    /\ OverflowsApart /\ ~cancelled =>
           \A p \in Pages : \A i \in Nat \ {0} : NewlyBehind(p, i) => NothingLost(p, i)

LEMMA ParsingFacts ==
    ASSUME RecoveryInv
    PROVE  /\ Inside => phase \in {"master", "tables"} /\ returned = "nothing"
           /\ returned # "nothing" => phase \in {"master", "tables"} /\ ~Inside
  BY Zenon DEF RecoveryInv, Phased, Parsing

LEMMA RestSteps ==
    ASSUME RecoveryInv, UNCHANGED <<file, stack, status>>, Inside => Tree' = Tree
    PROVE  StepMoves
  BY RestMoves, Zenon DEF StepMoves

LEMMA AdvanceSteps ==
    ASSUME RecoveryInv, Advances, Tree' = Tree
    PROVE  StepMoves
<1>1. Inside /\ Top.at \in DOMAIN Cells /\ Cell.kind # "torn"
  BY DEF Advances, HasColumn, HasPayload
<1>2. DOMAIN file.pages[Top.page].children = {}
  BY <1>1, TopIsFramed, TypesOfWalk, LeafHasNoChildren DEF Cells
<1>3. ASSUME NEW p \in Pages, NEW i \in Nat \ {0}, NewlyBehind(p, i)
      PROVE  NothingLost(p, i)
  <2>1. p = Top.page /\ i = Top.at
    BY <1>3, AdvanceMoves
  <2> QED
    BY <2>1, <1>2, Zenon DEF NothingLost
<1> QED
  BY <1>3, AdvanceMoves, Zenon DEF StepMoves

LEMMA BeginSteps ==
    ASSUME RecoveryInv, ~Inside, file' = file, NEW root, Tree' = root, BeginTree(root)
    PROVE  StepMoves /\ (Readable(root) => Visited(root)')
  BY BeginMoves, Zenon DEF StepMoves

LEMMA EnterSteps ==
    ASSUME RecoveryInv, EnterChild
    PROVE  StepMoves
<1>1. ASSUME NEW p \in Pages, NEW i \in Nat \ {0}, NewlyBehind(p, i)
      PROVE  NothingLost(p, i)
  <2>1. ChildVisited(p, i)' /\ i \in DOMAIN file.pages[p].children
    BY <1>1, EnterMoves
  <2>2. DOMAIN file.pages[p].cells = {}
    BY <2>1, TypesOfWalk, ParentHasNoCells
  <2> QED
    BY <2>1, <2>2, Zenon DEF NothingLost
<1> QED
  BY <1>1, EnterMoves, Zenon DEF StepMoves

LEMMA FinishSteps ==
    ASSUME RecoveryInv, FinishPage
    PROVE  StepMoves
<1>0. /\ Inside /\ Top.at \notin DOMAIN Children /\ Top.at \notin DOMAIN Cells /\ Leave("ok")
      /\ UNCHANGED <<file, tables, phase, cursor>>
  BY DEF FinishPage
<1>1. /\ WalkKept
      /\ ~cancelled => \A p : \A i \in Nat : NewlyBehind(p, i) =>
             \/ p = Top.page /\ ~(i < Top.at)
             \/ i \in DOMAIN file.pages[p].children /\ ChildVisited(p, i)'
  BY <1>0, LeaveMoves
<1>2. /\ file.pages[Top.page].children \in Seq(Nat)
      /\ file.pages[Top.page].cells \in Seq(CellSorts)
      /\ Top.at \in Nat \ {0}
  BY <1>0, TopIsFramed, TypesOfWalk, PageFacts
<1>3. /\ \A i \in DOMAIN file.pages[Top.page].children : i < Top.at
      /\ \A i \in DOMAIN file.pages[Top.page].cells : i < Top.at
  BY <1>0, <1>2 DEF Children, Cells
<1>4. ASSUME ~cancelled, NEW p \in Pages, NEW i \in Nat \ {0}, NewlyBehind(p, i)
      PROVE  NothingLost(p, i)
  <2>1. CASE p = Top.page /\ ~(i < Top.at)
    BY <2>1, <1>3, Zenon DEF NothingLost
  <2>2. CASE i \in DOMAIN file.pages[p].children /\ ChildVisited(p, i)'
    <3>1. DOMAIN file.pages[p].cells = {}
      BY <2>2, TypesOfWalk, ParentHasNoCells
    <3> QED
      BY <2>2, <3>1, Zenon DEF NothingLost
  <2> QED
    BY <1>1, <1>4, <2>1, <2>2
<1> QED
  BY <1>1, <1>4, Zenon DEF StepMoves

LEMMA TornSteps ==
    ASSUME RecoveryInv, TornCell
    PROVE  StepMoves
<1>0. /\ Inside /\ Top.at \in DOMAIN Cells /\ Cell.kind = "torn" /\ Leave("damaged")
      /\ UNCHANGED <<file, tables, phase, cursor>>
  BY DEF TornCell, HasPayload
<1>1. /\ WalkKept
      /\ ~cancelled => \A p : \A i \in Nat : NewlyBehind(p, i) =>
             \/ p = Top.page /\ ~(i < Top.at)
             \/ i \in DOMAIN file.pages[p].children /\ ChildVisited(p, i)'
  BY <1>0, LeaveMoves
<1>2. DOMAIN file.pages[Top.page].children = {} /\ Top.at \in Nat \ {0}
  BY <1>0, TopIsFramed, TypesOfWalk, LeafHasNoChildren DEF Cells
<1>3. \A i \in Nat : ~(i < Top.at) => ~NoTorn(Top.page, i)
  BY <1>0, <1>2 DEF NoTorn, Cell, Cells
<1>4. ASSUME ~cancelled, NEW p \in Pages, NEW i \in Nat \ {0}, NewlyBehind(p, i)
      PROVE  NothingLost(p, i)
  <2>1. CASE p = Top.page /\ ~(i < Top.at)
    BY <2>1, <1>2, <1>3, Zenon DEF NothingLost
  <2>2. CASE i \in DOMAIN file.pages[p].children /\ ChildVisited(p, i)'
    <3>1. DOMAIN file.pages[p].cells = {}
      BY <2>2, TypesOfWalk, ParentHasNoCells
    <3> QED
      BY <2>2, <3>1, Zenon DEF NothingLost
  <2> QED
    BY <1>1, <1>4, <2>1, <2>2
<1> QED
  BY <1>1, <1>4, Zenon DEF StepMoves

LEMMA OverflowSteps ==
    ASSUME RecoveryInv, ReadOverflow
    PROVE  StepMoves
  BY OverflowMoves, Zenon DEF StepMoves

LEMMA RefuseSteps ==
    ASSUME RecoveryInv, RefuseColumn
    PROVE  StepMoves
<1>1. /\ Inside /\ cancelled /\ Leave("cancelled") /\ UNCHANGED <<file, tables, phase, cursor>>
  BY DEF RefuseColumn, HasColumn, HasPayload
<1> QED
  BY <1>1, LeaveMoves DEF StepMoves

LEMMA WalkStep ==
    ASSUME RecoveryInv, RecoveryNext
    PROVE  StepMoves
<1>1. CASE RecoverFromPath
  <2>1. ~Inside
    BY <1>1, ParsingFacts DEF RecoverFromPath
  <2>2. Tree' = 1 /\ BeginTree(1) /\ file' = file
    BY <1>1 DEF RecoverFromPath, Tree
  <2> QED
    BY <2>1, <2>2, BeginSteps
<1>2. CASE RefuseToRecover \/ EndMaster \/ StopAtName \/ PassName \/ CreateIndex \/ EndTable
           \/ ToIndices \/ Finish
  <2>1. ~Inside
    BY <1>2, ParsingFacts DEF RefuseToRecover, EndMaster, StopAtName, PassName, CreateIndex,
       EndTable, ToIndices, Finish, AtName, TreeEnded, LastName
  <2>2. UNCHANGED <<file, stack, status>>
    BY <1>2 DEF RefuseToRecover, EndMaster, StopAtName, PassName, CreateIndex, EndTable,
       ToIndices, Finish, position
  <2> QED
    BY <2>1, <2>2, RestSteps
<1>3. CASE Cancel
  <2>1. UNCHANGED <<file, stack, status, tables, phase, cursor>>
    BY <1>3 DEF Cancel, position
  <2> QED
    BY <2>1, TreeIsKept, RestSteps
<1>4. CASE TakeEntity
  <2>1. Advances /\ phase = "master" /\ phase' = "master"
    BY <1>4 DEF TakeEntity, Advances
  <2>2. Tree' = Tree
    BY <2>1 DEF Tree
  <2> QED
    BY <2>1, <2>2, AdvanceSteps
<1>5. CASE PassEntry \/ RefuseRow \/ PutRow \/ RowFails
  <2>1. Advances /\ UNCHANGED <<tables, phase, cursor>>
    BY <1>5 DEF PassEntry, RefuseRow, PutRow, RowFails, HasStatement, HasRow, Advances
  <2> QED
    BY <2>1, TreeIsKept, AdvanceSteps
<1>6. CASE CreateTable
  <2>1. ~Inside /\ phase = "tables" /\ UNCHANGED <<file, tables, phase, cursor>>
    BY <1>6 DEF CreateTable, AtName
  <2>2. BeginTree(tables[Here].root)
    BY <1>6 DEF CreateTable
  <2>3. Tree' = tables[Here].root
    BY <2>1 DEF Tree, Here
  <2> QED
    BY <2>1, <2>2, <2>3, BeginSteps
<1> QED
  BY <1>1, <1>2, <1>3, <1>4, <1>5, <1>6, EnterSteps, FinishSteps, OverflowSteps, TornSteps,
     RefuseSteps DEF RecoveryNext, Work
-----------------------------------------------------------------------------
(* Types. *)

LEMMA NamesFacts ==
    /\ Len(Names) \in Nat /\ DOMAIN Names = 1 .. Len(Names)
    /\ \A i \in 1 .. Len(Names) : Names[i] \in Named
    /\ Columns \in Nat \ {0}
<1>1. Names \in Seq(Named) /\ Columns \in Nat \ {0}
  BY RecoveryAssumption
<1> QED
  BY <1>1

LEMMA TablesTyped ==
    ASSUME RecoveryInv, RecoveryNext
    PROVE  /\ file' = file /\ (DOMAIN tables \subseteq Named)'
           /\ (\E S \in SUBSET Named : tables \in [S -> Entities])'
<1>1. /\ DOMAIN tables \subseteq Named
      /\ \E S \in SUBSET Named : tables \in [S -> Entities]
  BY DEF RecoveryInv, RecoveryTypeOK, Typed
<1>2. CASE RecoverFromPath
  <2>1. tables' = file.backup /\ file' = file
    BY <1>2 DEF RecoverFromPath
  <2>2. \E S \in SUBSET Named : file.backup \in [S -> Entities]
    BY CorruptedAssumption, TypesOfWalk
  <2> QED
    BY <2>1, <2>2
<1>3. CASE TakeEntity
  <2>1. Cell.name \in Named /\ Cell.entity \in Entities
    <3>1. Inside /\ Top.at \in DOMAIN Cells /\ Cell.kind = "entity"
      BY <1>3 DEF TakeEntity, HasColumn, HasPayload
    <3> QED
      BY <3>1, TopIsFramed, TypesOfWalk, CellFacts DEF Cell, Cells
  <2>2. PICK S \in SUBSET Named : tables \in [S -> Entities]
    BY <1>1
  <2>3. file' = file /\ tables' = [n \in DOMAIN tables \cup {Cell.name} |->
                                       IF n = Cell.name THEN Cell.entity ELSE tables[n]]
    BY <1>3 DEF TakeEntity
  <2>4. tables' \in [S \cup {Cell.name} -> Entities] /\ S \cup {Cell.name} \in SUBSET Named
    BY <2>1, <2>2, <2>3
  <2> QED
    BY <2>3, <2>4
<1>4. CASE RecoveryNext /\ ~RecoverFromPath /\ ~TakeEntity
  <2>1. UNCHANGED <<file, tables>>
    BY <1>4 DEF RecoveryNext, Work, RefuseToRecover, PassEntry, EndMaster, EnterChild,
       FinishPage, ReadOverflow, TornCell, RefuseColumn, StopAtName, PassName, CreateTable,
       CreateIndex, RefuseRow, PutRow, RowFails, EndTable, ToIndices, Finish, Cancel
  <2> QED
    BY <2>1, <1>1
<1> QED
  BY <1>2, <1>3, <1>4

LEMMA ControlTyped ==
    ASSUME RecoveryInv, RecoveryNext
    PROVE  /\ phase' \in {"idle", "master", "tables", "indices", "ended"}
           /\ cursor' \in 1 .. Len(Names) + 1
           /\ returned' \in {"nothing", "ok", "damaged", "cancelled"}
           /\ result' \in {"none", "refused", "ok", "damaged", "cancelled"}
           /\ cancelled' \in BOOLEAN
<1>1. /\ phase \in {"idle", "master", "tables", "indices", "ended"}
      /\ cursor \in 1 .. Len(Names) + 1
      /\ returned \in {"nothing", "ok", "damaged", "cancelled"}
      /\ result \in {"none", "refused", "ok", "damaged", "cancelled"}
      /\ cancelled \in BOOLEAN
  BY DEF RecoveryInv, RecoveryTypeOK
<1>2. CASE RecoverFromPath \/ RefuseToRecover \/ EndMaster \/ Finish \/ ToIndices \/ StopAtName
  BY <1>1, <1>2, NamesFacts DEF RecoverFromPath, RefuseToRecover, EndMaster, Finish, ToIndices, StopAtName,
     Ends, BeginTree, position
<1>3. CASE EnterChild \/ FinishPage \/ ReadOverflow \/ TornCell \/ RefuseColumn
  BY <1>1, <1>3 DEF EnterChild, FinishPage, ReadOverflow, TornCell, RefuseColumn, Leave
<1>4. CASE TakeEntity \/ PassEntry \/ RefuseRow \/ PutRow \/ RowFails
  BY <1>1, <1>4 DEF TakeEntity, PassEntry, RefuseRow, PutRow, RowFails
<1>5. CASE PassName \/ CreateIndex
  <2>1. cursor <= Len(Names) /\ cursor' = cursor + 1
    BY <1>5 DEF PassName, CreateIndex, AtName
  <2>2. cursor' \in 1 .. Len(Names) + 1
    BY <1>1, <2>1, NamesFacts
  <2> QED
    BY <1>1, <1>5, <2>2 DEF PassName, CreateIndex
<1>6. CASE CreateTable
  BY <1>1, <1>6 DEF CreateTable, BeginTree
<1>7. CASE EndTable
  <2>1. cursor \in DOMAIN Names
    BY <1>7, Zenon DEF EndTable, TreeEnded, RecoveryInv, Phased, Parsing
  <2>2. cursor' \in 1 .. Len(Names) + 1
    BY <1>1, <1>7, <2>1, NamesFacts DEF EndTable
  <2> QED
    BY <1>1, <1>7, <2>2 DEF EndTable, Ends
<1>8. CASE Cancel
  BY <1>1, <1>8 DEF Cancel, position
<1> QED
  BY <1>2, <1>3, <1>4, <1>5, <1>6, <1>7, <1>8 DEF RecoveryNext, Work

\* The destination.
DestinationTyped ==
    /\ (stmt = "none") = (bound = <<>>)
    /\ inTransaction \in BOOLEAN /\ slipped \in BOOLEAN
    /\ {succeeded, failed} \subseteq Nat
    /\ bound \in {<<>>} \cup Bindings
    /\ kept \in Seq(Writes) /\ pending \in Seq(Writes)

LEMMA ValuesTyped ==
    /\ Null \in Values
    /\ \A c \in Nat : Default(c) \in Values
    /\ \A row \in Rows, c \in Nat : Stored(row, c) \in Values
    /\ \A row \in Rows : Rowid(row) \in Values
<1>1. Null \in Seq(Nat) /\ \A c \in Nat : Default(c) \in Seq(Nat)
  BY DEF Null, Default
<1>2. \A row \in Rows, c \in Nat : <<row, c>> \in Rows \X Nat
  OBVIOUS
<1> QED
  BY <1>1, <1>2 DEF Values, Stored, Rowid

\* The row at hand, as the destination gets it.
LEMMA RowTyped ==
    ASSUME RecoveryInv, HasRow, bound \in {<<>>} \cup Bindings,
           (stmt = "none") = (bound = <<>>), stmt # "none" => stmt = Here
    PROVE  /\ Cell.row \in Rows /\ Cell.stored \in Nat
           /\ Prepared = Here /\ Here \in Named /\ Prepared # "none"
           /\ Bound(Before, Cell) \in Bindings /\ Bound(Before, Cell) # <<>>
           /\ Written \in Writes
<1>1. Inside /\ Top.at \in DOMAIN Cells /\ Cell.kind # "torn" /\ phase = "tables"
  BY DEF HasRow, HasColumn, HasPayload
<1>2. Cell.row \in Rows /\ Cell.stored \in Nat
  BY <1>1, TopIsFramed, TypesOfWalk, CellFacts DEF Cell, Cells
<1>3. cursor \in DOMAIN Names
  BY <1>1, Zenon DEF RecoveryInv, Phased, Parsing
<1>4. Here \in Named /\ "none" \notin Named
  BY <1>3, NamesFacts, RecoveryAssumption DEF Here
<1>5. Prepared = Here /\ Prepared # "none"
  BY <1>4 DEF Prepared
<1>6. Before \in Bindings
  BY ValuesTyped DEF Before, Bindings
<1>7. \A c \in 1 .. Columns : Bound(Before, Cell)[c] \in Values
  <2>1. \A c \in 1 .. Columns : c \in Nat /\ c + 1 \in Nat /\ Before[c] \in Values
    BY <1>6, NamesFacts DEF Bindings
  <2>2. \A c \in 1 .. Columns : ValueOf(Cell, c) \in Values
    BY <1>2, <2>1, ValuesTyped DEF ValueOf
  <2> QED
    BY <2>1, <2>2, ValuesTyped DEF Bound
<1>8. Bound(Before, Cell) \in Bindings
  BY <1>7 DEF Bound, Bindings
<1>9. Bound(Before, Cell) # <<>>
  <2>1. 1 \in DOMAIN Bound(Before, Cell)
    BY NamesFacts DEF Bound
  <2> QED
    BY <2>1
<1>10. Written \in Writes
  BY <1>2, <1>4, <1>5, <1>8 DEF Written, Writes
<1> QED
  BY <1>2, <1>4, <1>5, <1>8, <1>9, <1>10

LEMMA DestinationStep ==
    ASSUME RecoveryInv, RecoveryNext
    PROVE  DestinationTyped'
<1>1. DestinationTyped
  BY Zenon DEF RecoveryInv, RecoveryTypeOK, Typed, DestinationTyped
<1>2. succeeded + 1 \in Nat /\ failed + 1 \in Nat
  BY <1>1 DEF DestinationTyped
<1>3. CASE PutRow \/ RowFails
  <2>1. HasRow
    BY <1>3 DEF PutRow, RowFails, HasStatement
  <2>2. stmt # "none" => stmt = Here
    BY Zenon DEF RecoveryInv, Phased
  <2>3. /\ Prepared # "none" /\ Bound(Before, Cell) \in Bindings
        /\ Bound(Before, Cell) # <<>> /\ Written \in Writes
    BY <1>1, <2>1, <2>2, RowTyped DEF DestinationTyped
  <2>4. (stmt' = "none") = (bound' = <<>>) /\ bound' \in {<<>>} \cup Bindings
        /\ inTransaction' \in BOOLEAN
    BY <1>3, <2>3 DEF PutRow, RowFails
  <2>5. {succeeded', failed'} \subseteq Nat /\ slipped' \in BOOLEAN
    BY <1>1, <1>2, <1>3 DEF PutRow, RowFails, DestinationTyped
  <2>6. Append(pending, Written) \in Seq(Writes) /\ kept \o Append(pending, Written) \in Seq(Writes)
        /\ <<>> \in Seq(Writes)
    BY <1>1, <2>3 DEF DestinationTyped
  <2>7. kept' \in Seq(Writes) /\ pending' \in Seq(Writes)
    BY <1>1, <1>3, <2>6 DEF PutRow, RowFails, DestinationTyped
  <2> QED
    BY <2>4, <2>5, <2>7 DEF DestinationTyped
<1>4. CASE EndTable
  <2>1. kept \o pending \in Seq(Writes) /\ <<>> \in Seq(Writes)
    BY <1>1 DEF DestinationTyped
  <2>2. kept' \in Seq(Writes) /\ pending' \in Seq(Writes) /\ inTransaction' \in BOOLEAN
        /\ slipped' \in BOOLEAN
    BY <1>1, <1>4, <2>1 DEF EndTable, EndTransaction, DestinationTyped
  <2>3. stmt' = "none" /\ bound' = <<>> /\ UNCHANGED <<succeeded, failed>>
    BY <1>4 DEF EndTable, Finalize, counts
  <2> QED
    BY <1>1, <2>2, <2>3 DEF DestinationTyped
<1>5. CASE RefuseRow \/ CreateTable \/ CreateIndex
  BY <1>1, <1>2, <1>5 DEF RefuseRow, CreateTable, CreateIndex, Creates, destination, DestinationTyped
<1>6. CASE RecoveryNext /\ ~(PutRow \/ RowFails \/ EndTable \/ RefuseRow \/ CreateTable \/ CreateIndex)
  <2>1. UNCHANGED <<destination, counts, slipped>>
    BY <1>6 DEF RecoveryNext, Work, RefuseToRecover, PassEntry, EndMaster, EnterChild,
       FinishPage, ReadOverflow, TornCell, RefuseColumn, StopAtName, PassName, RecoverFromPath,
       TakeEntity, ToIndices, Finish, Cancel
  <2> QED
    BY <1>1, <2>1 DEF destination, counts, DestinationTyped
<1> QED
  BY <1>3, <1>4, <1>5, <1>6

LEMMA TypesStep ==
    ASSUME RecoveryInv, RecoveryNext
    PROVE  RecoveryTypeOK' /\ Typed'
  BY TablesTyped, ControlTyped, DestinationStep, WalkStep, TypesOfWalk
     DEF RecoveryTypeOK, Typed, DestinationTyped, StepMoves, WalkKept
-----------------------------------------------------------------------------
(* The phases. *)

LEMMA PhaseFacts ==
    ASSUME RecoveryInv
    PROVE  Phased
  BY Zenon DEF RecoveryInv

\* A step of the walk goes on with the tree, or has just ended it.
WalksOn ==
    /\ Parsing /\ Parsing' /\ ~(Inside' /\ returned' # "nothing")
    /\ returned' = "cancelled" => cancelled'
    /\ UNCHANGED <<phase, cursor, result>>

LEMMA LeaveWalksOn ==
    ASSUME RecoveryInv, Inside, UNCHANGED <<file, tables, phase, cursor, result, cancelled>>,
           NEW rc \in {"ok", "damaged", "cancelled"}, Leave(rc), rc = "cancelled" => cancelled
    PROVE  WalksOn
<1>0. stack \in Seq(Frames) /\ returned = "nothing"
  BY TypesOfWalk, ParsingFacts
<1>1. Popped
  BY TypesOfWalk, LeavePops
<1>2. CASE Len(stack) = 1
  BY <1>0, <1>2 DEF Leave, WalksOn, Parsing, Inside
<1>3. CASE Len(stack) # 1
  <2>1. returned' = "nothing"
    BY <1>0, <1>3 DEF Leave
  <2>2. Len(stack') # 0
    BY <1>0, <1>1, <1>3 DEF Popped
  <2>3. stack' # <<>>
    BY <1>1, <2>2 DEF Popped
  <2> QED
    BY <2>1, <2>3 DEF WalksOn, Parsing, Inside
<1> QED
  BY <1>2, <1>3

LEMMA AdvanceWalksOn ==
    ASSUME RecoveryInv, Advances, UNCHANGED <<phase, cursor, returned, result, cancelled>>
    PROVE  WalksOn
<1>0. stack \in Seq(Frames) /\ Inside /\ returned = "nothing"
  BY TypesOfWalk, ParsingFacts DEF Advances, HasColumn, HasPayload
<1>1. Replaced(Frame(Top.page, Top.at + 1))
  BY <1>0, AdvancedReplaces, TopIsFramed, TypesOfWalk DEF Advances
<1>2. Len(stack') # 0 /\ stack' \in Seq(Frames)
  BY <1>0, <1>1, TopFacts DEF Replaced
<1>3. stack' # <<>>
  BY <1>2
<1> QED
  BY <1>0, <1>3 DEF WalksOn, Parsing, Inside

LEMMA WalkWalksOn ==
    ASSUME RecoveryInv, EnterChild \/ FinishPage \/ ReadOverflow \/ TornCell \/ RefuseColumn
    PROVE  WalksOn
<1>0. stack \in Seq(Frames) /\ (Inside => returned = "nothing")
  BY TypesOfWalk, ParsingFacts
<1>1. CASE EnterChild
  <2>1. Inside /\ Len(stack) \in Nat /\ Len(stack) # 0
    BY <1>0, <1>1, TopFacts DEF EnterChild
  <2>2. PICK child : child = Children[Top.at]
    OBVIOUS
  <2>3. \/ stack' = Append(stack, Frame(child, 1))
        \/ stack' = [stack EXCEPT ![Len(stack)].at = @ + 1]
    BY <1>1, <2>2 DEF EnterChild
  <2>4. stack' # <<>>
    <3>1. CASE stack' = Append(stack, Frame(child, 1))
      <4>1. Len(stack) + 1 \in DOMAIN stack'
        BY <1>0, <2>1, <3>1
      <4> QED
        BY <4>1
    <3>2. CASE stack' = [stack EXCEPT ![Len(stack)].at = @ + 1]
      <4>1. Len(stack) \in DOMAIN stack'
        BY <1>0, <2>1, <3>2
      <4> QED
        BY <4>1
    <3> QED
      BY <2>3, <3>1, <3>2
  <2> QED
    BY <1>0, <1>1, <2>1, <2>4 DEF EnterChild, WalksOn, Parsing, Inside
<1>2. CASE FinishPage \/ TornCell \/ RefuseColumn
  <2>1. PICK rc \in {"ok", "damaged", "cancelled"} : Leave(rc) /\ (rc = "cancelled" => cancelled)
    BY <1>2 DEF FinishPage, TornCell, RefuseColumn
  <2>2. Inside /\ UNCHANGED <<file, tables, phase, cursor, result, cancelled>>
    BY <1>2 DEF FinishPage, TornCell, RefuseColumn, HasColumn, HasPayload
  <2> QED
    BY <2>1, <2>2, LeaveWalksOn
<1>3. CASE ReadOverflow
  <2>1. Inside /\ Len(stack) \in DOMAIN stack
    BY <1>0, <1>3, TopFacts DEF ReadOverflow
  <2>2. Len(stack) \in DOMAIN stack'
    BY <1>3, <2>1 DEF ReadOverflow
  <2>3. stack' # <<>>
    BY <2>2
  <2> QED
    BY <1>0, <1>3, <2>1, <2>3 DEF ReadOverflow, WalksOn, Parsing, Inside
<1> QED
  BY <1>1, <1>2, <1>3

LEMMA TableIsKept ==
    ASSUME UNCHANGED <<tables, cursor>>
    PROVE  Here' = Here /\ (IsTable(Here)' <=> IsTable(Here))
  BY DEF Here, IsTable

LEMMA PhasedWalk ==
    ASSUME RecoveryInv, WalksOn, UNCHANGED tables, UNCHANGED <<stmt, kept, pending, slipped>>
    PROVE  Phased'
<1>1. Phased
  BY PhaseFacts
<1>2. Here' = Here /\ (IsTable(Here)' <=> IsTable(Here))
  BY TableIsKept DEF WalksOn
<1> QED
  BY <1>1, <1>2 DEF Phased, WalksOn

LEMMA PhasedOutput ==
    ASSUME RecoveryInv, PutRow \/ RowFails
    PROVE  Phased'
<1>1. Phased /\ Advances /\ phase = "tables"
  BY PhaseFacts DEF PutRow, RowFails, HasStatement, HasRow, Advances
<1>2. WalksOn /\ UNCHANGED <<tables, cursor>>
  BY <1>1, AdvanceWalksOn DEF PutRow, RowFails
<1>3. Here' = Here /\ (IsTable(Here)' <=> IsTable(Here))
  BY <1>2, TableIsKept
<1>4. cursor \in DOMAIN Names
  BY <1>1, <1>2 DEF Phased, WalksOn
<1>5. Here # "none"
  BY <1>4, NamesFacts, RecoveryAssumption DEF Here
<1>6. stmt' = Here /\ stmt' # "none"
  BY <1>1, <1>5 DEF PutRow, RowFails, Prepared, Phased
<1> QED
  BY <1>1, <1>2, <1>3, <1>6 DEF Phased, WalksOn

LEMMA PhasedMaster ==
    ASSUME RecoveryInv, RecoverFromPath \/ RefuseToRecover \/ TakeEntity \/ EndMaster \/ Cancel
    PROVE  Phased'
<1>1. Phased
  BY PhaseFacts
<1>2. CASE RecoverFromPath
  <2>1. phase = "idle" /\ phase' = "master" /\ ~Parsing
    BY <1>1, <1>2 DEF RecoverFromPath, Phased
  <2>2. UNCHANGED <<stmt, kept, pending, slipped, cursor, result, cancelled>>
    BY <1>2 DEF RecoverFromPath, destination
  <2>3. returned' # "cancelled" /\ ~(Inside' /\ returned' # "nothing")
    BY <1>2, <2>1 DEF RecoverFromPath, BeginTree, Parsing, Inside
  <2> QED
    BY <1>1, <2>1, <2>2, <2>3 DEF Phased
<1>3. CASE RefuseToRecover
  <2>1. phase = "idle" /\ ~Parsing /\ phase' = "ended" /\ result' = "refused"
    BY <1>1, <1>3 DEF RefuseToRecover, Phased
  <2>2. UNCHANGED <<stmt, kept, pending, slipped, cancelled, stack, returned>>
    BY <1>3 DEF RefuseToRecover, destination, position
  <2>3. Parsing' <=> Parsing
    BY <2>2 DEF Parsing, Inside
  <2> QED
    BY <1>1, <2>1, <2>2, <2>3 DEF Phased, Parsing
<1>4. CASE TakeEntity
  <2>1. Advances /\ phase = "master" /\ UNCHANGED <<phase, cursor, returned, result, cancelled>>
    BY <1>4 DEF TakeEntity, Advances
  <2>2. WalksOn
    BY <2>1, AdvanceWalksOn
  <2>3. UNCHANGED <<stmt, kept, pending, slipped>>
    BY <1>4 DEF TakeEntity, destination
  <2> QED
    BY <1>1, <2>1, <2>2, <2>3 DEF Phased, WalksOn
<1>5. CASE EndMaster
  <2>1. /\ phase = "master" /\ ~Inside /\ returned' = "nothing" /\ UNCHANGED stack
        /\ phase' = "tables" \/ (phase' = "ended" /\ result' = "cancelled")
        /\ phase' = "tables" => result' = result
    BY <1>5 DEF EndMaster, Ends
  <2>2. UNCHANGED <<stmt, kept, pending, slipped>>
    BY <1>5 DEF EndMaster, destination
  <2>3. ~Parsing'
    BY <2>1 DEF Parsing, Inside
  <2>4. stmt = "none" /\ result # "ok"
    BY <1>1, <2>1 DEF Phased
  <2> QED
    BY <1>1, <2>1, <2>2, <2>3, <2>4 DEF Phased, Parsing
<1>6. CASE Cancel
  <2>1. UNCHANGED <<stmt, kept, pending, slipped, stack, returned, phase, cursor, tables, result>>
        /\ cancelled' = TRUE
    BY <1>6 DEF Cancel, destination, position
  <2>2. (Inside' <=> Inside) /\ (Parsing' <=> Parsing)
    BY <2>1 DEF Parsing, Inside
  <2>3. Here' = Here /\ (IsTable(Here)' <=> IsTable(Here))
    BY <2>1, TableIsKept
  <2> QED
    BY <1>1, <2>1, <2>2, <2>3 DEF Phased
<1> QED
  BY <1>2, <1>3, <1>4, <1>5, <1>6

LEMMA PhasedBetween ==
    ASSUME RecoveryInv, StopAtName \/ PassName \/ CreateIndex \/ ToIndices \/ Finish
    PROVE  Phased'
<1>1. Phased
  BY PhaseFacts
<1>2. /\ ~Inside /\ returned = "nothing" /\ phase \in {"tables", "indices"}
      /\ UNCHANGED <<stmt, kept, pending, slipped, stack, returned, cancelled>>
      /\ phase' \in {"tables", "indices", "ended"}
      /\ phase' = "ended" \/ result' = result
  BY DEF StopAtName, PassName, CreateIndex, ToIndices, Finish, AtName, LastName, destination,
     position, Ends
<1>3. ~Parsing /\ ~Parsing' /\ ~Inside'
  BY <1>2 DEF Parsing, Inside
<1>4. stmt = "none" /\ result # "ok"
  BY <1>1, <1>2, <1>3 DEF Phased
<1> QED
  BY <1>1, <1>2, <1>3, <1>4 DEF Phased

LEMMA PhasedTable ==
    ASSUME RecoveryInv, CreateTable \/ EndTable
    PROVE  Phased'
<1>1. Phased
  BY PhaseFacts
<1>2. CASE CreateTable
  <2>1. /\ ~Inside /\ returned = "nothing" /\ phase = "tables" /\ cursor <= Len(Names)
        /\ IsTable(Here) /\ BeginTree(tables[Here].root)
        /\ UNCHANGED <<tables, phase, cursor, stmt, kept, pending, slipped, cancelled, result>>
    BY <1>2 DEF CreateTable, AtName
  <2>2. Here' = Here /\ (IsTable(Here)' <=> IsTable(Here))
    BY <2>1, TableIsKept
  <2>3. returned' # "cancelled" /\ ~(Inside' /\ returned' # "nothing") /\ ~Parsing
    BY <2>1 DEF BeginTree, Inside, Parsing
  <2>4. cursor \in DOMAIN Names
    BY <2>1, NamesFacts DEF RecoveryInv, RecoveryTypeOK
  <2> QED
    BY <1>1, <2>1, <2>2, <2>3, <2>4 DEF Phased
<1>3. CASE EndTable
  <2>1. /\ phase = "tables" /\ ~Inside /\ returned' = "nothing" /\ stmt' = "none"
        /\ UNCHANGED <<stack, cancelled>>
        /\ phase' = "tables" \/ phase' = "ended"
        /\ phase' = "tables" => result' = result
        /\ phase' = "ended" => result' = "cancelled"
    BY <1>3 DEF EndTable, TreeEnded, Ends, Finalize
  <2>2. ~Parsing' /\ ~Inside'
    BY <2>1 DEF Parsing, Inside
  <2>3. ~slipped' => pending' = <<>>
    BY <1>1, <1>3 DEF EndTable, EndTransaction, Phased
  <2>4. result # "ok"
    BY <1>1, <2>1 DEF Phased
  <2> QED
    BY <1>1, <2>1, <2>2, <2>3, <2>4 DEF Phased
<1> QED
  BY <1>2, <1>3

LEMMA PhasedStep ==
    ASSUME RecoveryInv, RecoveryNext
    PROVE  Phased'
<1>1. CASE EnterChild \/ FinishPage \/ ReadOverflow \/ TornCell \/ RefuseColumn
  <2>1. UNCHANGED <<tables, stmt, kept, pending, slipped>>
    BY <1>1 DEF EnterChild, FinishPage, ReadOverflow, TornCell, RefuseColumn, destination
  <2> QED
    BY <1>1, <2>1, WalkWalksOn, PhasedWalk
<1>2. CASE PassEntry \/ RefuseRow
  <2>1. /\ Advances /\ UNCHANGED <<tables, stmt, kept, pending, slipped>>
        /\ UNCHANGED <<phase, cursor, returned, result, cancelled>>
    BY <1>2 DEF PassEntry, RefuseRow, HasRow, Advances, destination
  <2> QED
    BY <2>1, AdvanceWalksOn, PhasedWalk
<1> QED
  BY <1>1, <1>2, PhasedOutput, PhasedMaster, PhasedBetween, PhasedTable DEF RecoveryNext, Work
-----------------------------------------------------------------------------
(* The rows of the destination. *)

Elements(s) == {s[i] : i \in DOMAIN s}

LEMMA ElementsOfAppend ==
    ASSUME NEW S, NEW s \in Seq(S), NEW w \in S
    PROVE  Elements(Append(s, w)) = Elements(s) \cup {w}
<1>1. /\ DOMAIN s = 1 .. Len(s) /\ Len(s) \in Nat
      /\ DOMAIN Append(s, w) = 1 .. (Len(s) + 1)
      /\ \A i \in DOMAIN s : Append(s, w)[i] = s[i]
      /\ Append(s, w)[Len(s) + 1] = w
  OBVIOUS
<1> QED
  BY <1>1 DEF Elements

LEMMA ElementsOfConcat ==
    ASSUME NEW S, NEW s \in Seq(S), NEW t \in Seq(S)
    PROVE  Elements(s \o t) = Elements(s) \cup Elements(t)
<1>1. /\ DOMAIN s = 1 .. Len(s) /\ Len(s) \in Nat /\ DOMAIN t = 1 .. Len(t) /\ Len(t) \in Nat
      /\ DOMAIN (s \o t) = 1 .. (Len(s) + Len(t))
      /\ \A i \in DOMAIN s : (s \o t)[i] = s[i]
      /\ \A i \in DOMAIN t : (s \o t)[Len(s) + i] = t[i]
  OBVIOUS
<1>2. ASSUME NEW x \in Elements(s \o t)
      PROVE  x \in Elements(s) \cup Elements(t)
  <2>1. PICK i \in DOMAIN (s \o t) : x = (s \o t)[i]
    BY DEF Elements
  <2>2. CASE i \in DOMAIN s
    BY <1>1, <2>1, <2>2 DEF Elements
  <2>3. CASE i \notin DOMAIN s
    <3>1. i - Len(s) \in DOMAIN t /\ i = Len(s) + (i - Len(s))
      BY <1>1, <2>1, <2>3
    <3> QED
      BY <1>1, <2>1, <3>1 DEF Elements
  <2> QED
    BY <2>2, <2>3
<1>3. ASSUME NEW x \in Elements(s) PROVE x \in Elements(s \o t)
  BY <1>1 DEF Elements
<1>4. ASSUME NEW x \in Elements(t) PROVE x \in Elements(s \o t)
  <2>1. PICK i \in DOMAIN t : x = t[i]
    BY DEF Elements
  <2>2. Len(s) + i \in DOMAIN (s \o t)
    BY <1>1
  <2> QED
    BY <1>1, <2>1, <2>2 DEF Elements
<1> QED
  BY <1>2, <1>3, <1>4

LEMMA WrittenElements == WrittenRows = Elements(kept) \cup Elements(pending)
  BY DEF WrittenRows, Elements

LEMMA WrittenByPut ==
    ASSUME RecoveryInv, PutRow
    PROVE  WrittenRows' = WrittenRows \cup {Written}
<1>1. kept \in Seq(Writes) /\ pending \in Seq(Writes)
  BY DEF RecoveryInv, Typed
<1>2. Written \in Writes
  BY RowTyped DEF PutRow, HasStatement, RecoveryInv, RecoveryTypeOK, Typed, Phased
<1>3. PICK s : s = Append(pending, Written)
  OBVIOUS
<1>4. s \in Seq(Writes) /\ Elements(s) = Elements(pending) \cup {Written}
  BY <1>1, <1>2, <1>3, ElementsOfAppend
<1>5. Elements(kept \o s) = Elements(kept) \cup Elements(s)
  BY <1>1, <1>4, ElementsOfConcat
<1>6. \/ pending' = s /\ kept' = kept
      \/ kept' = kept \o s /\ pending' = <<>>
  BY <1>3 DEF PutRow
<1>7. WrittenRows' = Elements(kept') \cup Elements(pending') /\ Elements(<<>>) = {}
  BY DEF WrittenRows, Elements
<1>8. CASE pending' = s /\ kept' = kept
  BY <1>4, <1>7, <1>8, WrittenElements
<1>9. CASE kept' = kept \o s /\ pending' = <<>>
  BY <1>4, <1>5, <1>7, <1>9, WrittenElements
<1> QED
  BY <1>6, <1>8, <1>9

LEMMA WrittenByEnd ==
    ASSUME RecoveryInv, EndTable
    PROVE  /\ WrittenRows' \subseteq WrittenRows
           /\ ~cancelled => WrittenRows' = WrittenRows
<1>1. kept \in Seq(Writes) /\ pending \in Seq(Writes)
  BY DEF RecoveryInv, Typed
<1>2. Elements(kept \o pending) = Elements(kept) \cup Elements(pending)
  BY <1>1, ElementsOfConcat
<1>3. Elements(<<>>) = {}
  BY DEF Elements
<1>4. \/ UNCHANGED <<kept, pending>>
      \/ returned = "cancelled" /\ pending' = <<>> /\ kept' = kept
      \/ kept' = kept \o pending /\ pending' = <<>>
  BY DEF EndTable, EndTransaction
<1>5. WrittenRows' = Elements(kept') \cup Elements(pending')
  BY DEF WrittenRows, Elements
<1>6. returned = "cancelled" => cancelled
  BY PhaseFacts DEF Phased
<1> QED
  BY <1>2, <1>3, <1>4, <1>5, <1>6, WrittenElements

LEMMA WrittenByOthers ==
    ASSUME RecoveryNext, ~PutRow, ~EndTable
    PROVE  WrittenRows' = WrittenRows
<1>1. UNCHANGED <<kept, pending>>
  BY DEF RecoveryNext, Work, RecoverFromPath, RefuseToRecover, TakeEntity, PassEntry, EndMaster,
     EnterChild, FinishPage, ReadOverflow, TornCell, RefuseColumn, StopAtName, PassName,
     CreateTable, CreateIndex, RefuseRow, RowFails, ToIndices, Finish, Cancel, destination
<1> QED
  BY <1>1 DEF WrittenRows

LEMMA WrittenStep ==
    ASSUME RecoveryInv, RecoveryNext
    PROVE  /\ ~cancelled => WrittenRows \subseteq WrittenRows'
           /\ \A w \in WrittenRows' : w \in WrittenRows \/ (PutRow /\ w = Written)
<1>1. CASE PutRow
  BY <1>1, WrittenByPut
<1>2. CASE EndTable
  BY <1>2, WrittenByEnd
<1>3. CASE ~PutRow /\ ~EndTable
  BY <1>3, WrittenByOthers
<1> QED
  BY <1>1, <1>2, <1>3

\* The row at hand is one of the page.
LEMMA RowIsOfPage ==
    ASSUME RecoveryInv, HasColumn
    PROVE  Cell.row \in RowsOf(Top.page)
<1>1. Inside /\ Top.at \in DOMAIN Cells /\ Cell.kind # "torn"
  BY DEF HasColumn, HasPayload
<1>2. Framed(Top) /\ Top.at \in Nat \ {0}
  BY <1>1, TopIsFramed
<1>3. Cells \in Seq(CellSorts)
  BY <1>1, TopIsFramed, TypesOfWalk, PageFacts DEF Cells
<1>4. \A h \in 1 .. Top.at : Cells[h].kind # "torn"
  <2>1. \A h \in 1 .. Top.at : h \in DOMAIN Cells /\ (h < Top.at \/ h = Top.at)
    BY <1>1, <1>2, <1>3
  <2>2. \A j \in DOMAIN Cells : j < Top.at => Cells[j].kind # "torn"
    BY <1>2 DEF Framed, Cells
  <2> QED
    BY <1>1, <2>1, <2>2 DEF Cell
<1> QED
  BY <1>1, <1>4 DEF RowsOf, Cell, Cells

LEMMA WrittenIsWell ==
    ASSUME RecoveryInv, PutRow
    PROVE  WrittenWell(Written)
<1>1. HasRow /\ phase = "tables" /\ HasColumn /\ Inside
  BY DEF PutRow, HasStatement, HasRow, HasColumn, HasPayload
<1>2. IsTable(Here) /\ (stmt # "none" => stmt = Here)
  BY <1>1, PhaseFacts DEF Phased, Parsing
<1>3. Prepared = Here /\ Cell.stored \in Nat
  BY <1>1, <1>2, RowTyped DEF RecoveryInv, RecoveryTypeOK, Typed
<1>4. /\ Written.into = Here /\ Written.row = Cell.row /\ Written.stored = Cell.stored
      /\ Written.values = Bound(Before, Cell)
  BY <1>3 DEF Written
<1>5. Top.page \in Reached(tables[Here].root)
  BY <1>1, TopIsFramed DEF Tree
<1>6. Cell.row \in RowsOf(Top.page)
  BY <1>1, RowIsOfPage
<1>7. ASSUME Cell.stored = Columns
      PROVE  Bound(Before, Cell) = [c \in 1 .. Columns |->
                 IF file.key[Here] = c THEN Rowid(Cell.row) ELSE Stored(Cell.row, c)]
  <2>1. \A c \in 1 .. Columns : c \notin Cell.stored .. Columns - 1 /\ c <= Cell.stored
    BY <1>7, NamesFacts
  <2> QED
    BY <2>1, Zenon DEF Bound, ValueOf
<1> QED
  BY <1>2, <1>4, <1>5, <1>6, <1>7 DEF WrittenWell

LEMMA AllWellStep ==
    ASSUME RecoveryInv, RecoveryNext
    PROVE  AllWell'
<1>1. AllWell
  BY Zenon DEF RecoveryInv
<1>2. CASE RecoverFromPath \/ TakeEntity
  <2>1. phase' = "master"
    BY <1>2 DEF RecoverFromPath, TakeEntity
  <2>2. kept' = <<>> /\ pending' = <<>>
    BY <2>1, PhasedStep DEF Phased
  <2>3. WrittenRows' = {}
    BY <2>2 DEF WrittenRows
  <2> QED
    BY <2>3 DEF AllWell
<1>3. CASE ~(RecoverFromPath \/ TakeEntity)
  <2>1. UNCHANGED <<file, tables>>
    BY <1>3 DEF RecoveryNext, Work, RefuseToRecover, PassEntry, EndMaster, EnterChild,
       FinishPage, ReadOverflow, TornCell, RefuseColumn, StopAtName, PassName, CreateTable,
       CreateIndex, RefuseRow, PutRow, RowFails, EndTable, ToIndices, Finish, Cancel
  <2>2. ASSUME NEW w, WrittenWell(w) PROVE WrittenWell(w)'
    <3>1. \A t : IsTable(t)' <=> IsTable(t)
      BY <2>1 DEF IsTable
    <3> QED
      BY <2>1, <2>2, <3>1, FileIsKept DEF WrittenWell
  <2>3. ASSUME NEW w \in WrittenRows' PROVE WrittenWell(w)'
    BY <1>1, <2>2, WrittenStep, WrittenIsWell DEF AllWell
  <2> QED
    BY <2>3 DEF AllWell
<1> QED
  BY <1>2, <1>3
-----------------------------------------------------------------------------
(* Nothing is lost. *)

LEMMA CancelledIsKept ==
    ASSUME RecoveryNext, cancelled
    PROVE  cancelled'
  BY DEF RecoveryNext, Work, RecoverFromPath, RefuseToRecover, TakeEntity, PassEntry, EndMaster,
     EnterChild, FinishPage, ReadOverflow, TornCell, RefuseColumn, StopAtName, PassName,
     CreateTable, CreateIndex, RefuseRow, PutRow, RowFails, EndTable, ToIndices, Finish, Cancel

LEMMA SlipIsKept ==
    ASSUME RecoveryNext, slipped
    PROVE  slipped'
<1>1. CASE PutRow
  BY <1>1 DEF PutRow
<1>2. CASE EndTable
  BY <1>2 DEF EndTable, EndTransaction
<1>3. CASE ~PutRow /\ ~EndTable
  <2>1. UNCHANGED slipped
    BY <1>3 DEF RecoveryNext, Work, RecoverFromPath, RefuseToRecover, TakeEntity, PassEntry,
       EndMaster, EnterChild, FinishPage, ReadOverflow, TornCell, RefuseColumn, StopAtName,
       PassName, CreateTable, CreateIndex, RefuseRow, RowFails, ToIndices, Finish, Cancel
  <2> QED
    BY <2>1
<1> QED
  BY <1>1, <1>2, <1>3

LEMMA FailureIsKept ==
    ASSUME RecoveryInv, RecoveryNext
    PROVE  failed' = 0 => failed = 0
<1>1. failed \in Nat
  BY DEF RecoveryInv, RecoveryTypeOK
<1>2. CASE CreateTable \/ CreateIndex \/ RefuseRow \/ RowFails
  BY <1>1, <1>2 DEF CreateTable, CreateIndex, RefuseRow, RowFails, Creates
<1>3. CASE ~(CreateTable \/ CreateIndex \/ RefuseRow \/ RowFails)
  <2>1. UNCHANGED failed
    BY <1>3 DEF RecoveryNext, Work, RecoverFromPath, RefuseToRecover, TakeEntity, PassEntry,
       EndMaster, EnterChild, FinishPage, ReadOverflow, TornCell, RefuseColumn, StopAtName,
       PassName, PutRow, EndTable, ToIndices, Finish, Cancel, counts
  <2> QED
    BY <2>1
<1> QED
  BY <1>2, <1>3

LEMMA SuccessIsOld ==
    ASSUME RecoveryInv, RecoveryNext, NothingFailed'
    PROVE  NothingFailed
<1>1. OverflowsApart' = OverflowsApart
  BY TablesTyped, FileIsKept
<1>2. failed = 0 /\ ~cancelled /\ ~slipped
  BY CancelledIsKept, SlipIsKept, FailureIsKept, Zenon DEF NothingFailed
<1> QED
  BY <1>1, <1>2, Zenon DEF NothingFailed

\* The row that is left behind has been written, or is one of sqlite_master.
LEMMA AdvanceWrites ==
    ASSUME RecoveryInv, RecoveryNext, NothingFailed', Advances
    PROVE  Top.page \in Reached(1) \/ \A r : r = Cell.row => RowWritten(r)'
<1>0. /\ Inside /\ Top.at \in DOMAIN Cells /\ Top.overflow \notin Pages /\ Cell.kind # "torn"
      /\ stack' = Advanced
  BY DEF Advances, HasColumn, HasPayload
<1>1. ~cancelled' /\ failed' = 0
  BY Zenon DEF NothingFailed
<1>2. Top.at \notin DOMAIN Children
  BY <1>0, TopIsFramed, TypesOfWalk, LeafHasNoChildren DEF Cells, Children
<1>3. CASE TakeEntity \/ PassEntry
  <2>1. phase = "master"
    BY <1>3 DEF TakeEntity, PassEntry
  <2> QED
    BY <1>0, <2>1, TopIsFramed DEF Tree
<1>4. CASE RefuseRow \/ RowFails
  <2>1. failed \in Nat /\ failed' = failed + 1
    BY <1>4 DEF RefuseRow, RowFails, RecoveryInv, RecoveryTypeOK
  <2> QED
    BY <1>1, <2>1
<1>5. CASE PutRow
  <2>1. Written \in WrittenRows'
    BY <1>5, WrittenByPut
  <2>2. Written.row = Cell.row
    BY DEF Written
  <2>3. ASSUME NEW r, r = Cell.row PROVE RowWritten(r)'
    BY <2>1, <2>2, <2>3 DEF RowWritten
  <2>4. \A r : r = Cell.row => RowWritten(r)'
    BY <2>3
  <2> QED
    BY <2>4
<1>6. ~EnterChild /\ ~FinishPage /\ ~ReadOverflow /\ ~TornCell /\ ~RefuseColumn /\ ~Cancel
  BY <1>0, <1>1, <1>2 DEF EnterChild, FinishPage, ReadOverflow, TornCell, RefuseColumn, Cancel
<1>7. /\ ~RecoverFromPath /\ ~RefuseToRecover /\ ~EndMaster /\ ~StopAtName /\ ~PassName
      /\ ~CreateTable /\ ~CreateIndex /\ ~EndTable /\ ~ToIndices /\ ~Finish
  BY <1>0, ParsingFacts DEF RecoverFromPath, RefuseToRecover, EndMaster, StopAtName, PassName,
     CreateTable, CreateIndex, EndTable, ToIndices, Finish, AtName, LastName, TreeEnded
<1> QED
  BY <1>3, <1>4, <1>5, <1>6, <1>7 DEF RecoveryNext, Work

LEMMA ChildrenStep ==
    ASSUME RecoveryInv, RecoveryNext
    PROVE  ChildrenVisited'
<1>1. StepMoves /\ file' = file /\ ChildrenVisited /\ (cancelled => cancelled')
  BY WalkStep, TablesTyped, CancelledIsKept DEF RecoveryInv
<1>2. ASSUME OverflowsApart, ~cancelled, NEW p \in Pages,
             NEW i \in DOMAIN file.pages[p].children, NewlyBehind(p, i)
      PROVE  ChildVisited(p, i)'
  <2>1. i \in Nat \ {0}
    BY TypesOfWalk, ChildrenAreNumbered
  <2> QED
    BY <1>1, <1>2, <2>1, Zenon DEF StepMoves, NothingLost
<1> QED
  BY <1>1, <1>2, ChildrenAreVisited DEF StepMoves, WalkKept

LEMMA RowsStep ==
    ASSUME RecoveryInv, RecoveryNext
    PROVE  RowsWritten'
<1>1. StepMoves /\ file' = file /\ RowsWritten
  BY WalkStep, TablesTyped DEF RecoveryInv
<1>2. NothingFailed' => NothingFailed
  BY SuccessIsOld
<1>3. NothingFailed' => \A r : RowWritten(r) => RowWritten(r)'
  <2>1. NothingFailed' => WrittenRows \subseteq WrittenRows'
    BY <1>2, WrittenStep DEF NothingFailed
  <2> QED
    BY <2>1 DEF RowWritten
<1>4. ASSUME NothingFailed', NEW p \in Pages, NEW i \in DOMAIN file.pages[p].cells,
             NewlyBehind(p, i), NoTorn(p, i), p \notin Reached(1)
      PROVE  RowWritten(file.pages[p].cells[i].row)'
  <2>1. i \in Nat \ {0}
    BY TypesOfWalk, CellsAreNumbered
  <2>2. OverflowsApart /\ ~cancelled
    BY <1>2, <1>4 DEF NothingFailed
  <2>3. Advances /\ p = Top.page /\ i = Top.at
    BY <1>1, <1>4, <2>1, <2>2, Zenon DEF StepMoves, NothingLost
  <2>4. file.pages[p].cells[i] = Cell
    BY <2>3 DEF Cell, Cells
  <2>5. \A r : r = file.pages[p].cells[i].row => RowWritten(r)'
    BY <1>4, <2>3, <2>4, AdvanceWrites
  <2> QED
    BY <1>1, <2>5 DEF RowWritten
<1> QED
  BY <1>1, <1>2, <1>3, <1>4, RowsAreWritten

LEMMA RootsKept ==
    ASSUME RecoveryInv, file' = file, UNCHANGED tables, StatusGrows,
           ASSUME NEW i \in DOMAIN Names, IsTable(Names[i]), Passed(i)', ~Passed(i)
           PROVE  Readable(tables[Names[i]].root) => Visited(tables[Names[i]].root)'
    PROVE  RootsVisited'
<1>1. ASSUME NEW i \in DOMAIN Names, IsTable(Names[i]), Passed(i)',
             Readable(tables[Names[i]].root)
      PROVE  Visited(tables[Names[i]].root)'
  <2>1. CASE Passed(i)
    <3>1. Visited(tables[Names[i]].root)
      BY <1>1, <2>1 DEF RecoveryInv, RootsVisited
    <3>2. ASSUME NEW p, p = tables[Names[i]].root PROVE Visited(p)'
      BY <3>1, <3>2, VisitedGrows
    <3> QED
      BY <3>2
  <2>2. CASE ~Passed(i)
    BY <1>1, <2>2
  <2> QED
    BY <2>1, <2>2
<1>2. \A t : IsTable(t)' <=> IsTable(t)
  BY DEF IsTable
<1> QED
  BY <1>1, <1>2, FileIsKept DEF RootsVisited

LEMMA NothingPassed ==
    ASSUME RecoveryInv, RecoveryNext, \A i \in DOMAIN Names : ~Passed(i)'
    PROVE  RootsVisited'
  BY DEF RootsVisited

LEMMA RootsStep ==
    ASSUME RecoveryInv, RecoveryNext
    PROVE  RootsVisited'
<1>0. Phased /\ Phased' /\ file' = file /\ StatusGrows
  BY PhaseFacts, PhasedStep, TablesTyped, WalkStep DEF StepMoves, WalkKept
<1>1. CASE RecoverFromPath \/ TakeEntity \/ RefuseToRecover \/ StopAtName
  <2>1. phase' = "master" \/ (phase' = "ended" /\ result' # "ok")
    BY <1>1 DEF RecoverFromPath, TakeEntity, RefuseToRecover, StopAtName, Ends
  <2>2. result' # "ok"
    BY <1>0, <2>1 DEF Phased
  <2> QED
    BY <2>1, <2>2, NothingPassed DEF Passed
<1>2. CASE EndMaster
  <2>1. /\ ~Inside' /\ returned' = "nothing" /\ cursor' = 1 /\ phase' \in {"tables", "ended"}
        /\ result' # "ok"
    BY <1>0, <1>2, Zenon DEF EndMaster, Ends, Phased, Inside
  <2>2. \A i \in DOMAIN Names : ~(i < cursor')
    BY <2>1, NamesFacts
  <2> QED
    BY <2>1, <2>2, NothingPassed DEF Passed, Parsing
<1>3. CASE \/ EnterChild \/ FinishPage \/ ReadOverflow \/ TornCell \/ RefuseColumn \/ PassEntry
           \/ RefuseRow \/ PutRow \/ RowFails
  <2>1. ASSUME PassEntry \/ RefuseRow \/ PutRow \/ RowFails
        PROVE  WalksOn
    <3>1. Advances /\ UNCHANGED <<tables, phase, cursor, returned, result, cancelled>>
      BY <2>1 DEF PassEntry, RefuseRow, PutRow, RowFails, HasStatement, HasRow, Advances
    <3> QED
      BY <3>1, AdvanceWalksOn
  <2>2. WalksOn /\ UNCHANGED tables
    BY <1>3, <2>1, WalkWalksOn DEF EnterChild, FinishPage, ReadOverflow, TornCell, RefuseColumn,
       PassEntry, RefuseRow, PutRow, RowFails
  <2>3. \A i : Passed(i)' => Passed(i)
    BY <2>2 DEF WalksOn, Passed
  <2> QED
    BY <1>0, <2>2, <2>3, RootsKept
<1>4. CASE Cancel
  <2>1. UNCHANGED <<tables, stack, returned, phase, cursor, result>>
    BY <1>4 DEF Cancel, position
  <2>2. \A i : Passed(i)' => Passed(i)
    BY <2>1 DEF Passed, Parsing, Inside
  <2> QED
    BY <1>0, <2>1, <2>2, RootsKept
<1>5. CASE PassName
  <2>1. /\ UNCHANGED <<tables, stack, returned, phase, result>> /\ cursor' = cursor + 1
        /\ ~Inside /\ returned = "nothing"
        /\ phase = "tables" => ~IsTable(Here)
        /\ phase \in {"tables", "indices"}
    BY <1>5 DEF PassName, AtName
  <2>2. ASSUME NEW i \in DOMAIN Names, IsTable(Names[i]), Passed(i)' PROVE Passed(i)
    <3>1. CASE phase = "tables"
      <4>1. i < cursor + 1 /\ i # cursor
        <5>1. ~Parsing' /\ result' # "ok"
          BY <1>0, <2>1, <3>1 DEF Parsing, Inside, Phased
        <5>2. i < cursor'
          BY <2>1, <2>2, <3>1, <5>1 DEF Passed
        <5> QED
          BY <2>1, <2>2, <3>1, <5>2 DEF Here
      <4>2. i < cursor
        BY <4>1, NamesFacts DEF RecoveryInv, RecoveryTypeOK
      <4> QED
        BY <3>1, <4>2 DEF Passed
    <3>2. CASE phase = "indices"
      BY <3>2 DEF Passed
    <3> QED
      BY <2>1, <3>1, <3>2
  <2> QED
    BY <1>0, <2>1, <2>2, RootsKept
<1>6. CASE CreateTable
  <2>1. /\ UNCHANGED <<tables, phase, cursor, result>> /\ ~Inside /\ phase = "tables"
        /\ BeginTree(tables[Here].root)
    BY <1>6 DEF CreateTable, AtName
  <2>2. Tree' = tables[Here].root
    BY <2>1 DEF Tree, Here
  <2>3. Readable(tables[Here].root) => Visited(tables[Here].root)'
    <3>1. PICK root : root = tables[Here].root
      OBVIOUS
    <3>2. Readable(root) => Visited(root)'
      BY <1>0, <2>1, <2>2, <3>1, BeginSteps
    <3>3. Here' = Here
      BY <2>1 DEF Here
    <3> QED
      BY <2>1, <3>1, <3>2, <3>3
  <2>4. ASSUME NEW i \in DOMAIN Names, Passed(i)', ~Passed(i) PROVE Names[i] = Here
    BY <2>1, <2>4 DEF Passed, Here
  <2>5. Here' = Here
    BY <2>1 DEF Here
  <2> QED
    BY <1>0, <2>1, <2>3, <2>4, <2>5, RootsKept
<1>7. CASE EndTable
  <2>1. /\ UNCHANGED tables /\ phase = "tables" /\ Parsing
        /\ \/ phase' = "ended" /\ result' = "cancelled"
           \/ phase' = "tables" /\ cursor' = cursor + 1 /\ result' = result
        /\ ~Parsing'
    BY <1>7 DEF EndTable, TreeEnded, Ends, Parsing, Inside
  <2>2. ASSUME NEW i \in DOMAIN Names, Passed(i)' PROVE Passed(i)
    <3>1. phase' = "tables" /\ cursor' = cursor + 1 /\ result' # "ok"
      BY <1>0, <2>1, <2>2 DEF Passed, Phased
    <3>2. i < cursor + 1
      BY <2>1, <2>2, <3>1 DEF Passed
    <3>3. i < cursor \/ i = cursor
      BY <3>2, NamesFacts DEF RecoveryInv, RecoveryTypeOK
    <3> QED
      BY <2>1, <3>3 DEF Passed
  <2> QED
    BY <1>0, <2>1, <2>2, RootsKept
<1>8. CASE CreateIndex \/ ToIndices \/ Finish
  <2>1. /\ UNCHANGED tables
        /\ phase = "indices" \/ (phase = "tables" /\ cursor > Len(Names))
    BY <1>8 DEF CreateIndex, ToIndices, Finish, AtName, LastName
  <2>2. \A i \in DOMAIN Names : Passed(i)
    BY <2>1, NamesFacts DEF Passed, RecoveryInv, RecoveryTypeOK
  <2> QED
    BY <1>0, <2>1, <2>2, RootsKept
<1> QED
  BY <1>1, <1>2, <1>3, <1>4, <1>5, <1>6, <1>7, <1>8 DEF RecoveryNext, Work

LEMMA RecoveryInvStep ==
    ASSUME RecoveryInv, [RecoveryNext]_recoveryVars
    PROVE  RecoveryInv'
<1>1. CASE RecoveryNext
  BY <1>1, TypesStep, PhasedStep, WalkStep, AllWellStep, ChildrenStep, RowsStep, RootsStep
     DEF RecoveryInv, StepMoves, WalkKept
<1>2. CASE UNCHANGED recoveryVars
  <2>1. UNCHANGED <<file, tables, phase, cursor, stack, returned, status, stmt, bound, pending,
                    inTransaction, kept, created, succeeded, failed, cancelled, result, slipped>>
    BY <1>2 DEF recoveryVars, position, destination, counts
  <2>2. RecoveryTypeOK' /\ Typed'
    <3>1. Pages' = Pages
      BY <2>1 DEF Pages
    <3>2. RecoveryTypeOK'
      BY <2>1, <3>1 DEF RecoveryInv, RecoveryTypeOK
    <3> QED
      BY <2>1, <3>2 DEF RecoveryInv, Typed
  <2>3. Phased'
    BY <2>1 DEF RecoveryInv, Phased, Parsing, Inside, Here, IsTable
  <2>4. Tree' = Tree
    BY <2>1, TreeIsKept
  <2>5. WalkKept /\ \A p, i : ~NewlyBehind(p, i)
    BY <2>1, <2>4, RestMoves
  <2>6. AllWell'
    <3>1. \A t : IsTable(t)' <=> IsTable(t)
      BY <2>1 DEF IsTable
    <3>2. ASSUME NEW w, WrittenWell(w) PROVE WrittenWell(w)'
      BY <2>1, <3>1, <3>2, FileIsKept DEF WrittenWell
    <3>3. WrittenRows' = WrittenRows
      BY <2>1 DEF WrittenRows
    <3> QED
      BY <3>2, <3>3 DEF RecoveryInv, AllWell
  <2>7. ChildrenVisited'
    BY <2>1, <2>5, ChildrenAreVisited DEF WalkKept, RecoveryInv
  <2>8. \A r : RowWritten(r) => RowWritten(r)'
    BY <2>1 DEF RowWritten, WrittenRows
  <2>9. NothingFailed' => NothingFailed
    BY <2>1, FileIsKept DEF NothingFailed
  <2>10. RowsWritten'
    BY <2>1, <2>5, <2>8, <2>9, RowsAreWritten DEF RecoveryInv
  <2>11. \A i : Passed(i)' => Passed(i)
    BY <2>1 DEF Passed, Parsing, Inside
  <2>12. RootsVisited'
    BY <2>1, <2>5, <2>11, RootsKept DEF WalkKept
  <2> QED
    BY <2>2, <2>3, <2>5, <2>6, <2>7, <2>10, <2>12 DEF RecoveryInv, WalkKept
<1> QED
  BY <1>1, <1>2

LEMMA RecoveryInvInit ==
    ASSUME RecoveryInit
    PROVE  RecoveryInv
<1>1. RecoveryTypeOK
  <2>1. DOMAIN tables = {} /\ stack \in Seq(Frames) /\ status \in [Pages -> Statuses]
    BY DEF RecoveryInit, Statuses
  <2>2. cursor \in 1 .. Len(Names) + 1 /\ {succeeded, failed} \subseteq Nat
    BY NamesFacts DEF RecoveryInit
  <2> QED
    BY <2>1, <2>2 DEF RecoveryInit, RecoveryTypeOK
<1>2. Typed
  <2>1. tables \in [{} -> Entities]
    BY DEF RecoveryInit
  <2> QED
    BY <2>1 DEF RecoveryInit, Typed
<1>3. Phased
  BY DEF RecoveryInit, Phased, Parsing, Inside
<1>4. Walked /\ Linked
  BY DEF RecoveryInit, Walked, Linked
<1>5. AllWell
  BY DEF RecoveryInit, AllWell, WrittenRows
<1>6. \A p : ~Visited(p)
  BY DEF RecoveryInit, Visited, Readable
<1>7. ChildrenVisited /\ RowsWritten
  BY <1>6, Zenon DEF ChildrenVisited, RowsWritten
<1>8. RootsVisited
  BY DEF RecoveryInit, RootsVisited, IsTable
<1> QED
  BY <1>1, <1>2, <1>3, <1>4, <1>5, <1>7, <1>8 DEF RecoveryInv

LEMMA RecoveryHoldsInv == RecoverySpec => []RecoveryInv
  BY RecoveryInvInit, RecoveryInvStep, PTL DEF RecoverySpec
-----------------------------------------------------------------------------
(* What the recovery promises. *)

LEMMA TheirsFollows ==
    ASSUME RecoveryInv
    PROVE  RowsAreTheirs
<1>1. SUFFICES ASSUME NEW k \in WrittenRows, TreesAreOwn
               PROVE  k.into = k.row.of /\ (k.stored = Columns => k.values = Expected(k))
  BY DEF RowsAreTheirs
<1>2. WrittenWell(k)
  BY DEF RecoveryInv, AllWell
<1>3. k.row.of = k.into
  BY <1>1, <1>2 DEF WrittenWell, TreesAreOwn, Own, IsTable
<1>4. k.stored = Columns => k.values = Expected(k)
  <2>1. SUFFICES ASSUME k.stored = Columns PROVE k.values = Expected(k)
    OBVIOUS
  <2>2. \A c \in 1 .. Columns : ~(c > k.stored)
    BY <2>1, NamesFacts
  <2> QED
    BY <1>2, <1>3, <2>1, <2>2, Zenon DEF WrittenWell, Expected
<1> QED
  BY <1>3, <1>4

LEMMA WholeFollows ==
    ASSUME RecoveryInv
    PROVE  RecoveredWhole
<1>1. SUFFICES ASSUME result = "ok", ~cancelled, failed = 0, ~slipped, TreesAreOwn,
                      Own("sqlite_master", 1), OverflowsApart,
                      NEW t \in DOMAIN tables, IsTable(t)
               PROVE  {kept[i].row : i \in {j \in DOMAIN kept : kept[j].into = t}}
                          = UNION {RowsOf(p) : p \in Reached(tables[t].root)}
  BY DEF RecoveredWhole
<1> DEFINE root == tables[t].root
<1>2. stack = <<>> /\ pending = <<>>
  BY <1>1, PhaseFacts DEF Phased, Parsing, Inside
<1>3. \A p, i : Behind(p, i)
  BY <1>2 DEF Behind
<1>4. WrittenRows = Elements(kept)
  BY <1>2 DEF WrittenRows, Elements
<1>5. Readable(root) => Visited(root)
  <2>1. t \in Named
    BY DEF RecoveryInv, RecoveryTypeOK
  <2>2. PICK i \in DOMAIN Names : Names[i] = t
    BY <2>1 DEF Named
  <2>3. Passed(i)
    BY <1>1 DEF Passed
  <2> QED
    BY <1>1, <2>2, <2>3 DEF RecoveryInv, RootsVisited
<1>6. \A p \in Reached(root) : Visited(p)
  <2> DEFINE S == {p \in Pages : Visited(p)}
  <2>1. ClosedUnder(S)
    <3>1. ASSUME NEW p \in S, NEW i \in DOMAIN file.pages[p].children,
                 Readable(file.pages[p].children[i])
          PROVE  file.pages[p].children[i] \in S
      <4>1. ChildVisited(p, i)
        BY <1>1, <1>3 DEF RecoveryInv, ChildrenVisited
      <4> QED
        BY <3>1, <4>1 DEF ChildVisited, Readable
    <3> QED
      BY <3>1 DEF ClosedUnder
  <2>2. Readable(root) => root \in S
    BY <1>5 DEF Readable
  <2>3. Reached(root) \subseteq S
    BY <2>1, <2>2, ReachedIsLeast
  <2> QED
    BY <2>3
<1>7. ASSUME NEW w \in Elements(kept) PROVE w.row.of = w.into /\ WrittenWell(w)
  <2>1. WrittenWell(w)
    BY <1>4 DEF RecoveryInv, AllWell
  <2> QED
    BY <1>1, <2>1 DEF WrittenWell, TreesAreOwn, Own, IsTable
<1>8. ASSUME NEW j \in DOMAIN kept, kept[j].into = t
      PROVE  kept[j].row \in UNION {RowsOf(p) : p \in Reached(root)}
  <2>1. kept[j] \in Elements(kept)
    BY DEF Elements
  <2>2. WrittenWell(kept[j])
    BY <2>1, <1>7
  <2> QED
    BY <1>8, <2>2 DEF WrittenWell
<1>9. ASSUME NEW p \in Reached(root), NEW r \in RowsOf(p)
      PROVE  \E j \in DOMAIN kept : kept[j].into = t /\ kept[j].row = r
  <2>1. Visited(p) /\ p \in Pages
    BY <1>6 DEF Visited, Readable
  <2>2. r.of = t
    BY <1>1 DEF TreesAreOwn, Own
  <2>3. p \notin Reached(1)
    <3>1. t \in Named /\ "sqlite_master" \notin Named
      BY RecoveryAssumption DEF RecoveryInv, RecoveryTypeOK
    <3> QED
      BY <1>1, <2>2, <3>1 DEF Own
  <2>4. PICK i \in DOMAIN file.pages[p].cells : r = file.pages[p].cells[i].row /\ NoTorn(p, i)
    BY DEF RowsOf, NoTorn
  <2>5. RowWritten(r)
    BY <1>1, <1>3, <2>1, <2>3, <2>4 DEF RecoveryInv, RowsWritten, NothingFailed
  <2>6. PICK w \in Elements(kept) : w.row = r
    BY <1>4, <2>5 DEF RowWritten
  <2>7. w.into = t
    BY <1>7, <2>2, <2>6
  <2> QED
    BY <2>6, <2>7 DEF Elements
<1> QED
  BY <1>8, <1>9

\* Every variable keeps its type.
THEOREM RecoveryTypeCorrect == RecoverySpec => []RecoveryTypeOK
<1>1. RecoveryInv => RecoveryTypeOK
  BY DEF RecoveryInv
<1> QED
  BY <1>1, RecoveryHoldsInv, PTL

\* For every corrupted file and backup: a row is written to the table it belongs to,
\* with its values, unless a tree leads to rows of another (table_onParseColumn,
\* init_insert, sqlite3_bind).
THEOREM RecoveredRowsAreTheirs == RecoverySpec => []RowsAreTheirs
  BY TheirsFollows, RecoveryHoldsInv, PTL

\* For every corrupted file and backup: a recovery that ends well has every row that
\* can be read, and no other (sqliterk_output, sqliterkBtreeParsePage).
THEOREM RecoveryIsWhole == RecoverySpec => []RecoveredWhole
  BY WholeFollows, RecoveryHoldsInv, PTL
=============================================================================
