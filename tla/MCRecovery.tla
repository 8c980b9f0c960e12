---------------------------- MODULE MCRecovery ----------------------------
(* Files of eight pages at most with two tables, a and b, and an index i of a. *)
EXTENDS Recovery

MCNames == <<"a", "b", "i">>

Entity(name, type, root) ==
    [kind |-> "entity", row |-> [of |-> "sqlite_master", n |-> root], stored |-> 5,
     name |-> name, overflow |-> 0,
     entity |-> [type |-> type, root |-> root, of |-> "a"]]
ARow(t, n, stored, overflow) ==
    [kind |-> "row", row |-> [of |-> t, n |-> n], stored |-> stored, overflow |-> overflow]
Torn == [kind |-> "torn", overflow |-> 0]

Leaf(cells) == [kind |-> "leaf", children |-> <<>>, cells |-> cells, next |-> 0]
Interior(children) == [kind |-> "interior", children |-> children, cells |-> <<>>, next |-> 0]
Bad(next) == [kind |-> "bad", children |-> <<>>, cells |-> <<>>, next |-> next]

Key == [t \in {"a", "b", "i"} |-> IF t = "a" THEN 1 ELSE 0]

AFile(pages, backup) == [pages |-> pages, backup |-> backup, key |-> Key, usable |-> TRUE]

TheTable(root) == [type |-> "table", root |-> root, of |-> "a"]
TheIndex(root) == [type |-> "index", root |-> root, of |-> "a"]

A(n) == ARow("a", n, 2, 0)
B(n) == ARow("b", n, 2, 0)

\* A tree with a torn leaf, a bad one and a page number past the end; a row on an
\* overflow page; a row of before a column was added.
Damaged ==
    AFile(<<Leaf(<<Entity("a", "table", 2), Entity("b", "table", 6), Entity("i", "index", 7)>>),
            Interior(<<3, 4, 9, 5>>), Leaf(<<A(1), Torn, A(2)>>), Bad(0), Leaf(<<A(3), A(4)>>),
            Leaf(<<B(1), ARow("b", 2, 1, 8)>>), Leaf(<<Torn>>), Bad(0)>>,
          [a |-> TheTable(2)])

\* Children that point back, a leaf under two parents; sqlite_master is torn and the
\* backup has what is behind.
Cyclic ==
    AFile(<<Leaf(<<Entity("a", "table", 2), Torn>>),
            Interior(<<3, 2>>), Interior(<<2, 4, 3>>), Leaf(<<A(1), A(2), A(3)>>),
            Interior(<<5, 6>>), Leaf(<<B(1)>>)>>,
          [a |-> TheTable(2), b |-> TheTable(5), i |-> TheIndex(7)])

\* Only the backup knows the tables; the root of a is gone.
Headless ==
    AFile(<<Bad(0), Bad(0), Leaf(<<B(1), B(2), B(3)>>)>>,
          [a |-> TheTable(2), b |-> TheTable(3), i |-> TheIndex(7)])

\* A view beside the tables; a child that leads into the tree of b, and one that
\* leads into that of sqlite_master.
Crossed ==
    AFile(<<Interior(<<2, 4>>), Leaf(<<ARow("sqlite_master", 1, 5, 0), Entity("a", "table", 3)>>),
            Interior(<<5, 6, 2>>), Leaf(<<Entity("b", "table", 5)>>), Leaf(<<B(1)>>),
            Leaf(<<A(1)>>)>>, <<>>)

\* Nothing is left to know.
Empty == AFile(<<Bad(0)>>, <<>>)

NoBackup == [Empty EXCEPT !.usable = FALSE]

\* Since the backup, a was dropped and b got its root page.
Stale == AFile(<<Leaf(<<Entity("b", "table", 2)>>), Leaf(<<B(1)>>)>>, [a |-> TheTable(2)])

\* Nothing is left of the only table.
Rootless == AFile(<<Bad(0), Bad(0)>>, [a |-> TheTable(2)])

\* Overflow pages that form a cycle.
Endless ==
    AFile(<<Leaf(<<Entity("a", "table", 2)>>), Leaf(<<ARow("a", 1, 2, 3)>>), Bad(4), Bad(3)>>, <<>>)

\* An overflow page that is the root of the table: it is entered for ever.
Straying ==
    AFile(<<Leaf(<<Entity("a", "table", 2)>>), Interior(<<3, 2>>), Leaf(<<ARow("a", 1, 2, 2)>>)>>,
          <<>>)

MCFiles == {Damaged, Cyclic, Headless, Crossed, Empty, NoBackup, Stale, Rootless, Endless,
            Straying}

MCFails == {"create", "insert", "commit"}
=============================================================================
