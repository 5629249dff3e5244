------------------------------ MODULE Catalog -------------------------------
(***************************************************************************)
(* The system catalog of catalog/catalog.go: its in-memory maps, the B+    *)
(* tree they are persisted in, and the statements that change both         *)
(* (executor/executor.go), inside transactions and outside them.           *)
(*                                                                         *)
(* A name is a natural number, in the byte order of the names. The tree    *)
(* is one leaf. The buffer pool holds it dirty, for the transaction that   *)
(* dirtied it first, or clean; its before-image is what the disk holds     *)
(* (ImagesTrackDisk of BufferPool). A session ends its transaction before  *)
(* it closes the database: module Database has the other cases. A          *)
(* definition is abstracted to its kind, its table and its root page.      *)
(***************************************************************************)
EXTENDS Integers, Sequences, FiniteSets

CONSTANTS
  Names,     \* names of tables and of indexes
  MaxPages   \* bound on the root pages allocated

ASSUME CatalogAssumption ==
  /\ Names \subseteq Nat
  /\ MaxPages \in Nat

VARIABLES
  tables,        \* the root page of each table, by name
  indexes,       \* the table and the root page of each index, by name
  tableIndexes,  \* the names of a table's indexes
  tree,          \* the entries of the catalog tree, by name
  disk,          \* the same on disk
  owner,         \* for whom the leaf is dirty: 1 this transaction, 0 another, or Clean
  txn,           \* 1 in a transaction, 0 outside
  pages,         \* the number of root pages allocated
  pinned,        \* whether a failed Insert has left the leaf pinned
  result,        \* the last statement and how it ended
  diverged       \* history: see Diverges

vars == <<tables, indexes, tableIndexes, tree, disk, owner, txn, pages, pinned, result,
          diverged>>
maps == <<tables, indexes, tableIndexes>>

Clean == -1

(* The two kinds of entry that encoding.go tells apart by their first byte. *)
TableEntry(root) == [kind |-> 1, table |-> 0, root |-> root]
IndexEntry(t, root) == [kind |-> 2, table |-> t, root |-> root]

Without(f, S) == [x \in DOMAIN f \ S |-> f[x]]
With(f, k, v) == [x \in DOMAIN f \cup {k} |-> IF x = k THEN v ELSE f[x]]

Ascending(S) == [i \in 1..Cardinality(S) |-> CHOOSE n \in S : Cardinality({m \in S : m < n}) = i - 1]
Elements(s) == {s[i] : i \in DOMAIN s}

(***************************************************************************)
(* Open: the maps that the entries of a tree load into                     *)
(***************************************************************************)
Tabled(T) == {n \in DOMAIN T : T[n].kind = 1}
Indexed(T) == {n \in DOMAIN T : T[n].kind = 2}

LoadTables(T) == [n \in Tabled(T) |-> T[n].root]
LoadIndexes(T) == [n \in Indexed(T) |-> [table |-> T[n].table, root |-> T[n].root]]
LoadTableIndexes(T) ==
  [t \in Tabled(T) \cup {T[n].table : n \in Indexed(T)} |->
     Ascending({n \in Indexed(T) : T[n].table = t})]

Load(T) ==
  /\ tables' = LoadTables(T)
  /\ indexes' = LoadIndexes(T)
  /\ tableIndexes' = LoadTableIndexes(T)

(* The tree changes to T: the leaf is dirty from its first change on. *)
Write(T) ==
  /\ tree' = T
  /\ owner' = IF owner = Clean THEN txn ELSE owner

Fails(op, n, error) ==
  /\ result' = <<op, n, error>>
  /\ pinned' = (pinned \/ error = "duplicate key")
  /\ UNCHANGED <<maps, tree, owner>>

(* Two things set the maps and the tree apart until the next Open: CREATE  *)
(* TABLE clears the list of the indexes that were created before their     *)
(* table, and ROLLBACK restores the tree and not the maps.                 *)
Diverges(event) == diverged' = (diverged \/ event)

ListOf(t) == IF t \in DOMAIN tableIndexes THEN tableIndexes[t] ELSE << >>

(***************************************************************************)
(* The statements                                                          *)
(***************************************************************************)
CreateTable(n) ==
  /\ pages < MaxPages
  /\ UNCHANGED <<disk, txn>>
  /\ \/ /\ n \in DOMAIN tables
        /\ Fails("create table", n, "exists")
        /\ UNCHANGED pages
     \/ /\ n \notin DOMAIN tables
        /\ pages' = pages + 1
        /\ \/ n \in DOMAIN tree /\ Fails("create table", n, "duplicate key")
           \/ /\ n \notin DOMAIN tree
              /\ Write(With(tree, n, TableEntry(pages')))
              /\ tables' = With(tables, n, pages')
              /\ tableIndexes' = With(tableIndexes, n, << >>)
              /\ result' = <<"create table", n, "ok">>
              /\ UNCHANGED <<indexes, pinned>>
  /\ Diverges(result'[3] = "ok" /\ ListOf(n) # << >>)

(* Mutant: the table's list is not extended. *)
CreateIndexUnlisted(n, t) ==
  /\ pages < MaxPages
  /\ n \notin DOMAIN indexes \cup DOMAIN tree
  /\ pages' = pages + 1
  /\ Write(With(tree, n, IndexEntry(t, pages')))
  /\ indexes' = With(indexes, n, [table |-> t, root |-> pages'])
  /\ result' = <<"create index", n, "ok">>
  /\ UNCHANGED <<tables, tableIndexes, disk, txn, pinned, diverged>>

CreateIndex(n, t) ==
  /\ pages < MaxPages
  /\ UNCHANGED <<disk, txn, diverged>>
  /\ \/ /\ n \in DOMAIN indexes
        /\ Fails("create index", n, "exists")
        /\ UNCHANGED pages
     \/ /\ n \notin DOMAIN indexes
        /\ pages' = pages + 1
        /\ \/ n \in DOMAIN tree /\ Fails("create index", n, "duplicate key")
           \/ /\ n \notin DOMAIN tree
              /\ Write(With(tree, n, IndexEntry(t, pages')))
              /\ indexes' = With(indexes, n, [table |-> t, root |-> pages'])
              /\ tableIndexes' = With(tableIndexes, t, Append(ListOf(t), n))
              /\ result' = <<"create index", n, "ok">>
              /\ UNCHANGED <<tables, pinned>>

(* Mutant: a table with indexes leaves them behind. *)
DropTableKeepsIndexes(n) ==
  /\ n \in DOMAIN tables \cap DOMAIN tree
  /\ tableIndexes' = IF ListOf(n) = << >> THEN Without(tableIndexes, {n}) ELSE tableIndexes
  /\ Write(Without(tree, {n}))
  /\ tables' = Without(tables, {n})
  /\ result' = <<"drop table", n, "ok">>
  /\ UNCHANGED <<indexes, disk, txn, pages, pinned, diverged>>

(* The indexes of n are deleted one after the other, up to the first that  *)
(* the tree does not have; then the table itself.                          *)
DropTable(n) ==
  LET list == ListOf(n)
      missing == {i \in DOMAIN list : list[i] \notin DOMAIN tree \/ \E j \in 1..i-1 : list[j] = list[i]}
      upto == IF missing = {} THEN Len(list) ELSE (CHOOSE i \in missing : \A j \in missing : i <= j) - 1
      gone == {list[i] : i \in 1..upto}
      rest == Without(tree, gone)
  IN  /\ UNCHANGED <<disk, txn, pages, diverged>>
      /\ \/ n \notin DOMAIN tables /\ Fails("drop table", n, "not found")
         \/ /\ n \in DOMAIN tables
            /\ indexes' = Without(indexes, gone)
            /\ UNCHANGED pinned
            /\ \/ /\ missing # {}
                  /\ IF gone = {} THEN UNCHANGED <<tree, owner>> ELSE Write(rest)
                  /\ result' = <<"drop table", n, "index entry missing">>
                  /\ UNCHANGED <<tables, tableIndexes>>
               \/ /\ missing = {}
                  /\ tableIndexes' = Without(tableIndexes, {n})
                  /\ \/ /\ n \notin DOMAIN rest
                        /\ IF gone = {} THEN UNCHANGED <<tree, owner>> ELSE Write(rest)
                        /\ result' = <<"drop table", n, "table entry missing">>
                        /\ UNCHANGED <<tables, pinned>>
                     \/ /\ n \in DOMAIN rest
                        /\ Write(Without(rest, {n}))
                        /\ tables' = Without(tables, {n})
                        /\ result' = <<"drop table", n, "ok">>

DropIndex(n) ==
  /\ UNCHANGED <<disk, txn, pages, diverged>>
  /\ \/ n \notin DOMAIN indexes /\ Fails("drop index", n, "not found")
     \/ n \in DOMAIN indexes \ DOMAIN tree /\ Fails("drop index", n, "index entry missing")
     \/ /\ n \in DOMAIN indexes \cap DOMAIN tree
        /\ Write(Without(tree, {n}))
        /\ indexes' = Without(indexes, {n})
        /\ LET t == indexes[n].table
               at == {i \in DOMAIN ListOf(t) : ListOf(t)[i] = n}
               first == CHOOSE i \in at : \A j \in at : i <= j
           IN  tableIndexes' =
                 IF at = {} THEN tableIndexes
                 ELSE With(tableIndexes, t, [i \in 1..Len(ListOf(t)) - 1 |->
                             ListOf(t)[IF i < first THEN i ELSE i + 1]])
        /\ result' = <<"drop index", n, "ok">>
        /\ UNCHANGED <<tables, pinned>>

Begin ==
  /\ txn = 0
  /\ txn' = 1
  /\ result' = <<"begin", 0, "ok">>
  /\ UNCHANGED <<maps, tree, disk, owner, pages, pinned, diverged>>

Commit ==
  /\ txn = 1
  /\ txn' = 0
  /\ owner' = IF owner = 1 THEN 0 ELSE owner
  /\ result' = <<"commit", 0, "ok">>
  /\ UNCHANGED <<maps, tree, disk, pages, pinned, diverged>>

(* RollbackTxn restores the leaf; nothing restores the maps. *)
Rollback ==
  /\ txn = 1
  /\ txn' = 0
  /\ IF owner = 1 THEN tree' = disk /\ owner' = Clean ELSE UNCHANGED <<tree, owner>>
  /\ Diverges(tree' # tree)
  /\ result' = <<"rollback", 0, "ok">>
  /\ UNCHANGED <<maps, disk, pages, pinned>>

(* FetchPage of another page takes the frame of the leaf. *)
Evict ==
  /\ owner # Clean
  /\ ~pinned
  /\ disk' = tree
  /\ owner' = Clean
  /\ UNCHANGED <<maps, tree, txn, pages, pinned, result, diverged>>

(* Close, and Open again. *)
Reopen ==
  /\ txn = 0
  /\ disk' = tree
  /\ owner' = Clean
  /\ pinned' = FALSE
  /\ Load(tree)
  /\ diverged' = FALSE
  /\ result' = <<"open", 0, "ok">>
  /\ UNCHANGED <<tree, txn, pages>>

Init ==
  /\ tables = << >> /\ indexes = << >> /\ tableIndexes = << >>
  /\ tree = << >> /\ disk = << >>
  /\ owner = Clean
  /\ txn = 0
  /\ pages = 0
  /\ pinned = FALSE
  /\ result = <<"open", 0, "ok">>
  /\ diverged = FALSE

Next ==
  \/ \E n \in Names : CreateTable(n) \/ DropTable(n) \/ DropIndex(n)
  \/ \E n, t \in Names : CreateIndex(n, t)
  \/ Begin \/ Commit \/ Rollback \/ Evict \/ Reopen

Spec == Init /\ [][Next]_vars

(***************************************************************************)
(* Properties                                                              *)
(***************************************************************************)
(* The maps are what Open would load from the tree. *)
MapsMatchTree ==
  /\ tables = LoadTables(tree)
  /\ indexes = LoadIndexes(tree)
  /\ \A t \in Names :
       /\ Elements(ListOf(t)) = {n \in Indexed(tree) : tree[n].table = t}
       /\ \A i, j \in DOMAIN ListOf(t) : ListOf(t)[i] = ListOf(t)[j] => i = j

(* No two definitions in use have the same root page. *)
RootsDistinct ==
  /\ \A n, m \in DOMAIN tables : tables[n] = tables[m] => n = m
  /\ \A n, m \in DOMAIN indexes : indexes[n].root = indexes[m].root => n = m
  /\ \A n \in DOMAIN tables, m \in DOMAIN indexes : tables[n] # indexes[m].root

(* A session that goes on and one that closes the database and opens it    *)
(* again see the same tables, each with the same indexes, listed once (so  *)
(* IndexesForTable reports no integrity error): only the two events of     *)
(* Diverges spoil it, and Open mends it. Whatever was rolled back or       *)
(* failed half-way, no two trees share their root.                         *)
MapsSound == (~diverged => MapsMatchTree) /\ RootsDistinct

(* DropTable "removes a table and all its associated indexes" (catalog.go, *)
(* the comment of DropTable): no index of that table is left, as long as   *)
(* the maps and the tree agree.                                            *)
DropTakesIndexes ==
  [][ (~diverged /\ result'[1] = "drop table" /\ result'[3] = "ok") =>
        \A m \in DOMAIN indexes' : indexes'[m].table # result'[2] ]_vars
====
