----------------------------- MODULE TableTree -----------------------------
(***************************************************************************)
(* A table's B+ tree as the executor uses it. Every statement opens the    *)
(* tree anew with NewBTree at the RootPageID of the table's definition     *)
(* (executor/insert.go, update.go, delete.go, fk.go, executor.go); the     *)
(* root that a split has moved stays in that BTree value and is not        *)
(* written back, so the definition names the table's first page for ever.  *)
(* Each statement here writes one row.                                     *)
(***************************************************************************)
EXTENDS BTree

CONSTANT MaxPages  \* bound on the pages of the file

VARIABLE rows      \* history: the keys inserted and not deleted since

tableVars == <<vars, rows>>

\* AllocateNewRoot, called by CreateTable, made this page.
RootPageID == 1

\* The tree that storage.NewBTree(e.pool, definition.RootPageID) opens.
Opened(T) == [T EXCEPT !.root = RootPageID]

TableInit == Init /\ rows = {}

Statement(o, args) ==
  /\ Len(tree.node) < MaxPages
  /\ tree' = Opened(o.tree)
  /\ result' = <<o.result>> \o args
  /\ pinned' = pinned \cup o.pinned
  /\ contents' = Contents(tree')

InsertRow(k, v) ==
  /\ Statement(InsertOp(Opened(tree), k, v), <<k, v>>)
  /\ rows' = IF result'[1] = "ok" THEN rows \cup {k} ELSE rows

DeleteRow(k) ==
  /\ Statement(DeleteOp(Opened(tree), k), <<k>>)
  /\ rows' = IF result'[1] = "ok" THEN rows \ {k} ELSE rows

TableNext ==
  \/ \E k \in Keys : \E v \in ValsOf[k] : InsertRow(k, v)
  \/ \E k \in Keys : DeleteRow(k)

TableSpec == TableInit /\ [][TableNext]_tableVars

\* catalog.go: RootPageID is the "root of this table's B+ tree in the storage
\* layer". To the statements of a session the table is a map: a primary key is
\* accepted once, and found and deleted after that.
TableIsMap == Map!Spec

\* A TableScan, which starts at the RootPageID and goes along the chain of leaves,
\* meets every row that was inserted and not deleted: the first page stays the
\* first leaf whatever was split off from it.
ScansMeetRows == rows \subseteq ToSet(Scan(Opened(tree), 0, 0))
=============================================================================
