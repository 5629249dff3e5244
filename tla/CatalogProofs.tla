---------------------------- MODULE CatalogProofs ----------------------------
(***************************************************************************)
(* What the catalog keeps true of its maps and its tree, for any set of    *)
(* names and any number of root pages.                                     *)
(*                                                                         *)
(* The invariant says of each of the two copies of the tree, in memory and *)
(* on disk, that its entries are well formed and have distinct roots among *)
(* the pages allocated so far: ROLLBACK makes the one on disk the current  *)
(* one, and Open loads the maps from it.                                   *)
(***************************************************************************)
EXTENDS Catalog, FiniteSetTheorems, TLAPS

Entry == [kind : {1, 2}, table : Names \cup {0}, root : Nat]

(* A tree whose roots are among the first k pages. *)
GoodTree(T, k) ==
  /\ IsFiniteSet(DOMAIN T) /\ DOMAIN T \subseteq Names
  /\ T \in [DOMAIN T -> Entry]
  /\ \A n \in DOMAIN T : T[n].root <= k
  /\ \A n \in DOMAIN T : T[n].kind = 2 => T[n].table \in Names
  /\ \A n, m \in DOMAIN T : T[n].root = T[m].root => n = m

(* The maps, likewise. *)
GoodMaps ==
  /\ tables \in [DOMAIN tables -> Nat]
  /\ indexes \in [DOMAIN indexes -> [table : Names, root : Nat]]
  /\ tableIndexes \in [DOMAIN tableIndexes -> Seq(Names)]
  /\ DOMAIN tables \subseteq Names /\ DOMAIN indexes \subseteq Names
  /\ \A n \in DOMAIN tables : tables[n] <= pages
  /\ \A n \in DOMAIN indexes : indexes[n].root <= pages
  /\ RootsDistinct

Distinct(s) == \A i, j \in DOMAIN s : s[i] = s[j] => i = j

(* MapsMatchTree, point by point. *)
Match ==
  /\ DOMAIN tables = Tabled(tree)
  /\ \A n \in Tabled(tree) : tables[n] = tree[n].root
  /\ DOMAIN indexes = Indexed(tree)
  /\ \A n \in Indexed(tree) : indexes[n].table = tree[n].table /\ indexes[n].root = tree[n].root
  /\ \A t \in Names : /\ Elements(ListOf(t)) = {n \in Indexed(tree) : tree[n].table = t}
                      /\ Distinct(ListOf(t))

CatalogInv ==
  /\ pages \in Nat
  /\ diverged \in BOOLEAN
  /\ GoodTree(tree, pages)
  /\ GoodTree(disk, pages)
  /\ GoodMaps
  /\ ~diverged => Match

-----------------------------------------------------------------------------
(* The helpers *)

(* The ascending list of a finite set of names has each of them once. *)
LEMMA AscendingFacts ==
  ASSUME NEW S \in SUBSET Nat, IsFiniteSet(S)
  PROVE  /\ Ascending(S) \in Seq(S)
         /\ Elements(Ascending(S)) = S
         /\ Distinct(Ascending(S))
<1> DEFINE Below(n) == {m \in S : m < n}
           c == Cardinality(S)
           rank == [n \in S |-> Cardinality(Below(n)) + 1]
<1>1. c \in Nat
  BY FS_CardinalityType
<1>2. ASSUME NEW n \in S
      PROVE  IsFiniteSet(Below(n)) /\ Cardinality(Below(n)) \in Nat /\ Cardinality(Below(n)) < c
  <2>1. Below(n) \in SUBSET S /\ n \notin Below(n)
    OBVIOUS
  <2>2. IsFiniteSet(Below(n)) /\ Cardinality(Below(n)) <= c /\ (c = Cardinality(Below(n)) => S = Below(n))
    BY <2>1, FS_Subset
  <2>3. Cardinality(Below(n)) \in Nat
    BY <2>2, FS_CardinalityType
  <2> QED
    BY <2>1, <2>2, <2>3, <1>1
<1>3. ASSUME NEW n \in S, NEW m \in S, n < m
      PROVE  Cardinality(Below(n)) < Cardinality(Below(m))
  <2>1. Below(n) \in SUBSET Below(m)
    <3> SUFFICES ASSUME NEW x \in Below(n) PROVE x \in Below(m)
      OBVIOUS
    <3>1. x \in S /\ x < n /\ x \in Nat /\ n \in Nat /\ m \in Nat
      OBVIOUS
    <3>2. x < m
      BY <1>3, <3>1
    <3> QED
      BY <3>1, <3>2
  <2>3. n \in Below(m) /\ n \notin Below(n)
    BY <1>3
  <2>2. /\ Cardinality(Below(n)) <= Cardinality(Below(m))
        /\ Cardinality(Below(m)) = Cardinality(Below(n)) => Below(m) = Below(n)
    BY <2>1, <1>2, FS_Subset
  <2> QED
    BY <2>3, <2>2, <1>2
<1> HIDE DEF Below
<1>4. rank \in [S -> 1..c]
  BY <1>1, <1>2
<1>5. \A n, m \in S : rank[n] = rank[m] => n = m
  BY <1>2, <1>3
<1>6. IsFiniteSet(1..c) /\ Cardinality(1..c) = c
  BY <1>1, FS_Interval
<1>7. rank \in Injection(S, 1..c)
  BY <1>4, <1>5 DEF Injection, IsInjective
<1>8. rank \in Surjection(S, 1..c)
  BY <1>6, <1>7, FS_Injection
<1>9. \A i \in 1..c : \E n \in S : rank[n] = i
  BY <1>8 DEF Surjection
<1> DEFINE a == Ascending(S)
<1>10. a = [i \in 1..c |-> CHOOSE n \in S : Cardinality(Below(n)) = i - 1]
  BY DEF Ascending, Below
<1>11. ASSUME NEW i \in 1..c PROVE a[i] \in S /\ rank[a[i]] = i
  <2>1. PICK n \in S : Cardinality(Below(n)) = i - 1
    BY <1>9, <1>2, <1>1
  <2>2. a[i] \in S /\ Cardinality(Below(a[i])) = i - 1
    BY <2>1, <1>10
  <2> QED
    BY <2>2, <1>1
<1>12. DOMAIN a = 1..c /\ a = [i \in 1..c |-> a[i]]
  BY <1>10
<1> HIDE DEF a, rank
<1>13. a \in Seq(S)
  <2>1. a \in [1..c -> S]
    BY <1>11, <1>12
  <2> QED
    BY <2>1, <1>1
<1>14. Distinct(a)
  BY <1>11, <1>12 DEF Distinct
<1>15. \A n \in S : rank[n] \in 1..c /\ a[rank[n]] = n
  BY <1>4, <1>5, <1>11
<1>16. Elements(a) = S
  BY <1>11, <1>12, <1>15 DEF Elements
<1> QED
  BY <1>13, <1>14, <1>16 DEF a

(* Deleting entries. *)
LEMMA GoodWithout ==
  ASSUME NEW T, NEW k, GoodTree(T, k), NEW S
  PROVE  GoodTree(Without(T, S), k)
<1>1. /\ DOMAIN Without(T, S) = DOMAIN T \ S
      /\ \A n \in DOMAIN T \ S : Without(T, S)[n] = T[n]
      /\ Without(T, S) \in [DOMAIN T \ S -> Entry]
  BY DEF Without, GoodTree
<1>2. IsFiniteSet(DOMAIN T \ S)
  BY FS_Subset DEF GoodTree
<1> QED
  BY <1>1, <1>2 DEF GoodTree

(* Inserting an entry with a new root page. *)
LEMMA GoodWith ==
  ASSUME NEW T, NEW k \in Nat, GoodTree(T, k), NEW n \in Names, n \notin DOMAIN T,
         NEW e \in Entry, e.root = k + 1, e.kind = 2 => e.table \in Names
  PROVE  GoodTree(With(T, n, e), k + 1)
<1>1. /\ DOMAIN With(T, n, e) = DOMAIN T \cup {n}
      /\ \A m \in DOMAIN T : With(T, n, e)[m] = T[m]
      /\ With(T, n, e)[n] = e
      /\ With(T, n, e) \in [DOMAIN T \cup {n} -> Entry]
  BY DEF With, GoodTree
<1>2. IsFiniteSet(DOMAIN T \cup {n})
  BY FS_AddElement DEF GoodTree
<1>3. \A m \in DOMAIN T : T[m].root \in Nat /\ T[m].root <= k
  BY DEF GoodTree, Entry
<1> DEFINE W == With(T, n, e)
<1> HIDE DEF W
<1>4. \A m \in DOMAIN W : W[m].root <= k + 1
  BY <1>1, <1>3 DEF W
<1>5. \A m \in DOMAIN W : W[m].kind = 2 => W[m].table \in Names
  BY <1>1 DEF W, GoodTree
<1>6. \A m, o \in DOMAIN W : W[m].root = W[o].root => m = o
  BY <1>1, <1>3 DEF W, GoodTree
<1> QED
  BY <1>1, <1>2, <1>4, <1>5, <1>6 DEF W, GoodTree

LEMMA GoodLater ==
  ASSUME NEW T, NEW k \in Nat, GoodTree(T, k)
  PROVE  GoodTree(T, k + 1)
BY DEF GoodTree, Entry

(* Functions with the same domain and the same values are equal. *)
LEMMA SameFunction ==
  ASSUME NEW f, NEW g, NEW D, f = [x \in D |-> f[x]], g = [x \in D |-> g[x]],
         \A x \in D : f[x] = g[x]
  PROVE  f = g
OBVIOUS

LEMMA MatchMeaning == GoodMaps /\ Match => MapsMatchTree
<1> SUFFICES ASSUME GoodMaps, Match PROVE MapsMatchTree
  OBVIOUS
<1>1. tables = LoadTables(tree)
  <2>1. tables = [n \in Tabled(tree) |-> tables[n]]
    BY DEF GoodMaps, Match
  <2> QED
    BY <2>1, SameFunction DEF Match, LoadTables
<1>2. indexes = LoadIndexes(tree)
  <2>1. indexes = [n \in Indexed(tree) |-> indexes[n]]
    BY DEF GoodMaps, Match
  <2>2. \A n \in Indexed(tree) : indexes[n] = [table |-> tree[n].table, root |-> tree[n].root]
    BY DEF GoodMaps, Match
  <2> QED
    BY <2>1, <2>2, SameFunction DEF LoadIndexes
<1> QED
  BY <1>1, <1>2 DEF MapsMatchTree, Match, Distinct

-----------------------------------------------------------------------------
(* The statements, one after the other *)

LEMMA InitInv == Init => CatalogInv
<1> SUFFICES ASSUME Init PROVE CatalogInv
  OBVIOUS
<1> USE DEF Init
<1>1. /\ DOMAIN tables = {} /\ DOMAIN indexes = {} /\ DOMAIN tableIndexes = {} /\ DOMAIN tree = {}
      /\ DOMAIN disk = {}
  OBVIOUS
<1>2. GoodTree(tree, pages) /\ GoodTree(disk, pages)
  <2>1. << >> \in [{} -> Entry] /\ DOMAIN << >> = {}
    OBVIOUS
  <2> QED
    BY <2>1, FS_EmptySet DEF GoodTree
<1>3. GoodMaps
  BY <1>1 DEF GoodMaps, RootsDistinct
<1>4. Match
  BY <1>1 DEF Match, Tabled, Indexed, ListOf, Elements, Distinct
<1> QED
  BY <1>2, <1>3, <1>4 DEF CatalogInv

(* A statement that fails changes neither the maps nor the tree. *)
LEMMA FailsInv ==
  ASSUME CatalogInv, UNCHANGED <<maps, tree, disk>>, pages' \in {pages, pages + 1},
         diverged' \in BOOLEAN, ~diverged' => ~diverged
  PROVE  CatalogInv'
<1>1. pages' \in Nat
  BY DEF CatalogInv
<1>2. GoodTree(tree, pages') /\ GoodTree(disk, pages')
  BY GoodLater DEF CatalogInv
<1>3. GoodTree(tree, pages)' /\ GoodTree(disk, pages)'
  BY <1>2 DEF GoodTree
<1>4. GoodMaps'
  <2>1. \A n \in DOMAIN tables : tables[n] <= pages'
    BY <1>1 DEF CatalogInv, GoodMaps
  <2>2. \A n \in DOMAIN indexes : indexes[n].root \in Nat /\ indexes[n].root <= pages'
    BY <1>1 DEF CatalogInv, GoodMaps
  <2> QED
    BY <2>1, <2>2 DEF CatalogInv, GoodMaps, RootsDistinct, maps
<1>5. ~diverged' => Match'
  BY DEF CatalogInv, Match, ListOf, maps
<1> QED
  BY <1>1, <1>3, <1>4, <1>5 DEF CatalogInv

(* CREATE TABLE and CREATE INDEX, when they succeed: n becomes a new entry *)
(* e of the tree, on a new root page.                                      *)
LEMMA NewEntry ==
  ASSUME CatalogInv, NEW n \in Names, n \notin DOMAIN tree, NEW e \in Entry,
         e.root = pages + 1, e.kind = 2 => e.table \in Names,
         pages' = pages + 1, tree' = With(tree, n, e), disk' = disk
  PROVE  /\ pages' \in Nat
         /\ GoodTree(tree, pages)' /\ GoodTree(disk, pages)'
         /\ DOMAIN tree' = DOMAIN tree \cup {n} /\ tree'[n] = e
         /\ \A m \in DOMAIN tree : tree'[m] = tree[m]
         /\ \A m \in DOMAIN tables : tables[m] \in Nat /\ tables[m] < pages'
         /\ \A m \in DOMAIN indexes : indexes[m].root \in Nat /\ indexes[m].root < pages'
<1>1. pages \in Nat
  BY DEF CatalogInv
<1>2. GoodTree(With(tree, n, e), pages + 1) /\ GoodTree(disk, pages + 1)
  BY <1>1, GoodWith, GoodLater DEF CatalogInv
<1>3. GoodTree(tree, pages)' /\ GoodTree(disk, pages)'
  BY <1>2 DEF GoodTree
<1>4. /\ DOMAIN tree' = DOMAIN tree \cup {n} /\ tree'[n] = e
      /\ \A m \in DOMAIN tree : tree'[m] = tree[m]
  BY DEF With
<1>5. \A m \in DOMAIN tables : tables[m] \in Nat /\ tables[m] < pages + 1
  BY <1>1 DEF CatalogInv, GoodMaps
<1>6. \A m \in DOMAIN indexes : indexes[m].root \in Nat /\ indexes[m].root < pages + 1
  BY <1>1 DEF CatalogInv, GoodMaps
<1> QED
  BY <1>1, <1>3, <1>4, <1>5, <1>6

LEMMA CreateTableDone ==
  ASSUME CatalogInv, NEW n \in Names, n \notin DOMAIN tables, n \notin DOMAIN tree,
         pages' = pages + 1, disk' = disk, indexes' = indexes,
         tree' = With(tree, n, TableEntry(pages + 1)),
         tables' = With(tables, n, pages + 1),
         tableIndexes' = With(tableIndexes, n, << >>),
         diverged' = (diverged \/ ListOf(n) # << >>)
  PROVE  CatalogInv'
<1> DEFINE e == TableEntry(pages + 1)
<1>1. pages \in Nat /\ diverged \in BOOLEAN
  BY DEF CatalogInv
<1>2. e \in Entry /\ e.root = pages + 1 /\ e.kind = 1 /\ tree' = With(tree, n, e)
  BY <1>1 DEF TableEntry, Entry
<1> HIDE DEF e
<1> e.kind = 2 => e.table \in Names
  BY <1>2
<1>3. /\ pages' \in Nat
      /\ GoodTree(tree, pages)' /\ GoodTree(disk, pages)'
      /\ DOMAIN tree' = DOMAIN tree \cup {n} /\ tree'[n] = e
      /\ \A m \in DOMAIN tree : tree'[m] = tree[m]
      /\ \A m \in DOMAIN tables : tables[m] \in Nat /\ tables[m] < pages'
      /\ \A m \in DOMAIN indexes : indexes[m].root \in Nat /\ indexes[m].root < pages'
  BY <1>2, NewEntry
<1>4. /\ DOMAIN tables' = DOMAIN tables \cup {n} /\ tables'[n] = pages'
      /\ \A m \in DOMAIN tables : tables'[m] = tables[m]
  BY DEF With
<1>5. GoodMaps'
  <2>1. tables' \in [DOMAIN tables' -> Nat]
    BY <1>1 DEF CatalogInv, GoodMaps, With
  <2>2. tableIndexes' \in [DOMAIN tableIndexes' -> Seq(Names)]
    <3>1. << >> \in Seq(Names)
      OBVIOUS
    <3> QED
      BY <3>1 DEF CatalogInv, GoodMaps, With
  <2>3. \A m \in DOMAIN tables' : tables'[m] <= pages'
    BY <1>3, <1>4
  <2>4. \A m \in DOMAIN indexes' : indexes'[m].root <= pages'
    BY <1>3
  <2>5. RootsDistinct'
    <3>1. RootsDistinct
      BY DEF CatalogInv, GoodMaps
    <3>2. \A m, o \in DOMAIN tables' : tables'[m] = tables'[o] => m = o
      BY <3>1, <1>3, <1>4 DEF RootsDistinct
    <3>3. \A m \in DOMAIN tables', o \in DOMAIN indexes : tables'[m] # indexes[o].root
      BY <3>1, <1>3, <1>4 DEF RootsDistinct
    <3> QED
      BY <3>1, <3>2, <3>3 DEF RootsDistinct
  <2> QED
    BY <2>1, <2>2, <2>3, <2>4, <2>5, <1>4 DEF CatalogInv, GoodMaps
<1>6. ASSUME ~diverged' PROVE Match'
  <2>1. Match /\ ListOf(n) = << >>
    BY <1>6 DEF CatalogInv
  <2>2. Tabled(tree') = Tabled(tree) \cup {n} /\ Indexed(tree') = Indexed(tree)
    BY <1>2, <1>3 DEF Tabled, Indexed
  <2>3. \A t \in Names : ListOf(t)' = ListOf(t)
    BY <2>1 DEF ListOf, With
  <2>4. /\ DOMAIN tables' = Tabled(tree')
        /\ \A m \in Tabled(tree') : tables'[m] = tree'[m].root
    BY <2>1, <2>2, <1>2, <1>3, <1>4 DEF Match, Tabled
  <2>5. \A m \in Indexed(tree') : m \in DOMAIN tree /\ tree'[m] = tree[m]
    BY <2>2, <1>3 DEF Indexed
  <2>6. \A t \in Names : {m \in Indexed(tree') : tree'[m].table = t} = {m \in Indexed(tree) : tree[m].table = t}
    BY <2>2, <2>5
  <2> QED
    BY <2>1, <2>2, <2>3, <2>4, <2>5, <2>6 DEF Match
<1> QED
  BY <1>1, <1>3, <1>5, <1>6 DEF CatalogInv

LEMMA CreateTableInv == ASSUME CatalogInv, NEW n \in Names, CreateTable(n) PROVE CatalogInv'
<1>1. pages \in Nat /\ diverged \in BOOLEAN /\ disk' = disk
  BY DEF CatalogInv, CreateTable
<1>2. diverged' \in BOOLEAN /\ (~diverged' => ~diverged)
  BY DEF CreateTable, Diverges
<1>3. CASE Fails("create table", n, "exists") /\ UNCHANGED pages
  BY <1>1, <1>2, <1>3, FailsInv DEF Fails
<1>4. CASE Fails("create table", n, "duplicate key") /\ pages' = pages + 1
  BY <1>1, <1>2, <1>4, FailsInv DEF Fails
<1>5. CASE /\ pages' = pages + 1 /\ n \notin DOMAIN tables /\ n \notin DOMAIN tree
           /\ Write(With(tree, n, TableEntry(pages')))
           /\ tables' = With(tables, n, pages')
           /\ tableIndexes' = With(tableIndexes, n, << >>)
           /\ result' = <<"create table", n, "ok">>
           /\ UNCHANGED <<indexes, pinned>>
  <2>1. result'[3] = "ok"
    BY <1>5
  <2>2. diverged' = (diverged \/ ListOf(n) # << >>)
    BY <2>1 DEF CreateTable, Diverges
  <2>3. tree' = With(tree, n, TableEntry(pages + 1)) /\ tables' = With(tables, n, pages + 1)
    BY <1>5 DEF Write
  <2> QED
    BY <2>2, <2>3, <1>1, <1>5, CreateTableDone
<1> QED
  BY <1>3, <1>4, <1>5 DEF CreateTable

LEMMA CreateIndexDone ==
  ASSUME CatalogInv, NEW n \in Names, NEW t \in Names, n \notin DOMAIN indexes, n \notin DOMAIN tree,
         pages' = pages + 1, disk' = disk, tables' = tables, diverged' = diverged,
         tree' = With(tree, n, IndexEntry(t, pages + 1)),
         indexes' = With(indexes, n, [table |-> t, root |-> pages + 1]),
         tableIndexes' = With(tableIndexes, t, Append(ListOf(t), n))
  PROVE  CatalogInv'
<1> DEFINE e == IndexEntry(t, pages + 1)
           r == [table |-> t, root |-> pages + 1]
<1>1. pages \in Nat /\ diverged \in BOOLEAN
  BY DEF CatalogInv
<1>2. /\ e \in Entry /\ e.root = pages + 1 /\ e.kind = 2 /\ e.table = t /\ tree' = With(tree, n, e)
      /\ r \in [table : Names, root : Nat] /\ r.table = t /\ r.root = pages + 1
      /\ indexes' = With(indexes, n, r)
  BY <1>1 DEF IndexEntry, Entry
<1> HIDE DEF e, r
<1>3. /\ pages' \in Nat
      /\ GoodTree(tree, pages)' /\ GoodTree(disk, pages)'
      /\ DOMAIN tree' = DOMAIN tree \cup {n} /\ tree'[n] = e
      /\ \A m \in DOMAIN tree : tree'[m] = tree[m]
      /\ \A m \in DOMAIN tables : tables[m] \in Nat /\ tables[m] < pages'
      /\ \A m \in DOMAIN indexes : indexes[m].root \in Nat /\ indexes[m].root < pages'
  BY <1>2, NewEntry
<1>4. /\ DOMAIN indexes' = DOMAIN indexes \cup {n} /\ indexes'[n] = r
      /\ \A m \in DOMAIN indexes : indexes'[m] = indexes[m]
  BY <1>2 DEF With
<1>5. ListOf(t) \in Seq(Names) /\ Append(ListOf(t), n) \in Seq(Names)
  <2>1. ListOf(t) \in Seq(Names)
    BY DEF CatalogInv, GoodMaps, ListOf
  <2> QED
    BY <2>1
<1>6. GoodMaps'
  <2>1. indexes' \in [DOMAIN indexes' -> [table : Names, root : Nat]]
    BY <1>2 DEF CatalogInv, GoodMaps, With
  <2>2. tableIndexes' \in [DOMAIN tableIndexes' -> Seq(Names)]
    BY <1>5 DEF CatalogInv, GoodMaps, With
  <2>3. \A m \in DOMAIN tables' : tables'[m] <= pages'
    BY <1>3
  <2>4. \A m \in DOMAIN indexes' : indexes'[m].root <= pages'
    BY <1>2, <1>3, <1>4
  <2>5. RootsDistinct'
    <3>1. RootsDistinct
      BY DEF CatalogInv, GoodMaps
    <3>2. /\ indexes'[n].root = pages'
          /\ \A m \in DOMAIN indexes : indexes'[m].root = indexes[m].root /\ indexes[m].root # pages'
          /\ \A m \in DOMAIN tables : tables'[m] = tables[m] /\ tables[m] # pages'
      BY <1>2, <1>3, <1>4
    <3> QED
      BY <3>1, <3>2, <1>4 DEF RootsDistinct
  <2> QED
    BY <2>1, <2>2, <2>3, <2>4, <2>5, <1>4 DEF CatalogInv, GoodMaps
<1>7. ASSUME ~diverged' PROVE Match'
  <2>1. Match
    BY <1>7 DEF CatalogInv
  <2>2. Tabled(tree') = Tabled(tree) /\ Indexed(tree') = Indexed(tree) \cup {n}
    BY <1>2, <1>3 DEF Tabled, Indexed
  <2>3. \A m \in Tabled(tree) \cup Indexed(tree) : m # n /\ tree'[m] = tree[m]
    BY <1>3 DEF Tabled, Indexed
  <2>4. /\ \A u \in Names \ {t} : ListOf(u)' = ListOf(u)
        /\ ListOf(t)' = Append(ListOf(t), n)
    BY DEF ListOf, With
  <2>5. /\ DOMAIN tables' = Tabled(tree')
        /\ \A m \in Tabled(tree') : tables'[m] = tree'[m].root
    BY <2>1, <2>2, <2>3 DEF Match
  <2>6. /\ DOMAIN indexes' = Indexed(tree')
        /\ \A m \in Indexed(tree') : indexes'[m].table = tree'[m].table /\ indexes'[m].root = tree'[m].root
    BY <2>1, <2>2, <2>3, <1>2, <1>3, <1>4 DEF Match
  <2>7. ASSUME NEW u \in Names \ {t}
        PROVE  /\ Elements(ListOf(u)') = {m \in Indexed(tree') : tree'[m].table = u}
               /\ Distinct(ListOf(u)')
    <3>1. {m \in Indexed(tree') : tree'[m].table = u} = {m \in Indexed(tree) : tree[m].table = u}
      BY <2>2, <2>3, <1>2, <1>3
    <3> QED
      BY <3>1, <2>1, <2>4 DEF Match
  <2>8. /\ Elements(ListOf(t)') = {m \in Indexed(tree') : tree'[m].table = t}
        /\ Distinct(ListOf(t)')
    <3> DEFINE l == ListOf(t)
               w == Append(l, n)
    <3>1. {m \in Indexed(tree') : tree'[m].table = t} = {m \in Indexed(tree) : tree[m].table = t} \cup {n}
      BY <2>2, <2>3, <1>2, <1>3
    <3>2. Elements(l) = {m \in Indexed(tree) : tree[m].table = t} /\ Distinct(l) /\ l \in Seq(Names)
      BY <2>1, <1>5 DEF Match
    <3>3. n \notin Elements(l)
      BY <3>2, <2>3
    <3> HIDE DEF l
    <3>4. /\ DOMAIN l = 1..Len(l) /\ Len(l) \in Nat /\ DOMAIN w = 1..Len(l) + 1
          /\ w[Len(l) + 1] = n /\ \A i \in 1..Len(l) : w[i] = l[i]
      BY <3>2
    <3> HIDE DEF w
    <3>5. \A i \in 1..Len(l) + 1 : i = Len(l) + 1 \/ i \in 1..Len(l)
      BY <3>4
    <3>6. Elements(w) = Elements(l) \cup {n}
      BY <3>4, <3>5 DEF Elements
    <3>7. Distinct(w)
      <4>1. \A i \in 1..Len(l) : w[i] # n
        BY <3>3, <3>4 DEF Elements
      <4> QED
        BY <4>1, <3>2, <3>4, <3>5 DEF Distinct
    <3>8. ListOf(t)' = w
      BY <2>4 DEF w, l
    <3> QED
      BY <3>1, <3>2, <3>6, <3>7, <3>8
  <2> QED
    BY <2>5, <2>6, <2>7, <2>8 DEF Match
<1> QED
  BY <1>1, <1>3, <1>6, <1>7 DEF CatalogInv

LEMMA CreateIndexInv ==
  ASSUME CatalogInv, NEW n \in Names, NEW t \in Names, CreateIndex(n, t) PROVE CatalogInv'
<1>1. pages \in Nat /\ diverged \in BOOLEAN /\ disk' = disk /\ diverged' = diverged
  BY DEF CatalogInv, CreateIndex
<1>2. CASE Fails("create index", n, "exists") /\ UNCHANGED pages
  BY <1>1, <1>2, FailsInv DEF Fails
<1>3. CASE Fails("create index", n, "duplicate key") /\ pages' = pages + 1
  BY <1>1, <1>3, FailsInv DEF Fails
<1>4. CASE /\ pages' = pages + 1 /\ n \notin DOMAIN indexes /\ n \notin DOMAIN tree
           /\ Write(With(tree, n, IndexEntry(t, pages')))
           /\ indexes' = With(indexes, n, [table |-> t, root |-> pages'])
           /\ tableIndexes' = With(tableIndexes, t, Append(ListOf(t), n))
           /\ UNCHANGED <<tables, pinned>>
  <2>1. /\ tree' = With(tree, n, IndexEntry(t, pages + 1))
        /\ indexes' = With(indexes, n, [table |-> t, root |-> pages + 1])
    BY <1>4 DEF Write
  <2> QED
    BY <2>1, <1>1, <1>4, CreateIndexDone
<1> QED
  BY <1>2, <1>3, <1>4 DEF CreateIndex

(* A step that only takes entries away keeps the roots distinct. *)
LEMMA FewerGood ==
  ASSUME CatalogInv, pages' = pages, disk' = disk, GoodTree(tree', pages),
         tables' \in [DOMAIN tables' -> Nat], DOMAIN tables' \subseteq DOMAIN tables,
         \A m \in DOMAIN tables' : tables'[m] = tables[m],
         indexes' \in [DOMAIN indexes' -> [table : Names, root : Nat]],
         DOMAIN indexes' \subseteq DOMAIN indexes,
         \A m \in DOMAIN indexes' : indexes'[m] = indexes[m],
         tableIndexes' \in [DOMAIN tableIndexes' -> Seq(Names)]
  PROVE  GoodTree(tree, pages)' /\ GoodTree(disk, pages)' /\ GoodMaps'
<1>1. GoodTree(tree, pages)' /\ GoodTree(disk, pages)'
  BY DEF CatalogInv, GoodTree
<1>2. RootsDistinct'
  BY DEF CatalogInv, GoodMaps, RootsDistinct
<1>3. GoodMaps'
  BY <1>2 DEF CatalogInv, GoodMaps
<1> QED
  BY <1>1, <1>3

(* What DROP TABLE meets when the maps match the tree: every index of the  *)
(* list has its entry, and the list has every index of the table.          *)
LEMMA ListComplete ==
  ASSUME CatalogInv, Match, NEW n \in Names
  PROVE  /\ ListOf(n) \in Seq(Names)
         /\ Elements(ListOf(n)) = {m \in DOMAIN tree : tree[m].kind = 2 /\ tree[m].table = n}
         /\ \A i \in DOMAIN ListOf(n) : ListOf(n)[i] \in DOMAIN tree
         /\ \A i, j \in DOMAIN ListOf(n) : ListOf(n)[i] = ListOf(n)[j] => i = j
<1>1. ListOf(n) \in Seq(Names)
  BY DEF CatalogInv, GoodMaps, ListOf
<1>2. Elements(ListOf(n)) = {m \in DOMAIN tree : tree[m].kind = 2 /\ tree[m].table = n}
  BY DEF Match, Indexed
<1>3. \A i \in DOMAIN ListOf(n) : ListOf(n)[i] \in Elements(ListOf(n))
  BY DEF Elements
<1> QED
  BY <1>1, <1>2, <1>3 DEF Match, Distinct

(* DROP TABLE: the invariant is kept, and when the maps match the tree it  *)
(* leaves no index of the table.                                           *)
LEMMA DropTableInv ==
  ASSUME CatalogInv, NEW n \in Names, DropTable(n)
  PROVE  /\ CatalogInv'
         /\ (~diverged /\ result'[3] = "ok") => \A m \in DOMAIN indexes' : indexes'[m].table # n
         /\ result'[1] = "drop table" /\ result'[2] = n
<1> DEFINE list == ListOf(n)
           missing == {i \in DOMAIN list : list[i] \notin DOMAIN tree \/ \E j \in 1..i-1 : list[j] = list[i]}
           upto == IF missing = {} THEN Len(list) ELSE (CHOOSE i \in missing : \A j \in missing : i <= j) - 1
           gone == {list[i] : i \in 1..upto}
           rest == Without(tree, gone)
<1>1. /\ pages \in Nat /\ diverged \in BOOLEAN
      /\ disk' = disk /\ pages' = pages /\ diverged' = diverged
  BY DEF CatalogInv, DropTable
<1>2. CASE n \notin DOMAIN tables /\ Fails("drop table", n, "not found")
  BY <1>1, <1>2, FailsInv DEF Fails
<1>3. ASSUME ~diverged
      PROVE  /\ missing = {}
             /\ gone = {m \in DOMAIN tree : tree[m].kind = 2 /\ tree[m].table = n}
             /\ Match
  <2>1. Match
    BY <1>3 DEF CatalogInv
  <2>2. /\ list \in Seq(Names)
        /\ Elements(list) = {m \in DOMAIN tree : tree[m].kind = 2 /\ tree[m].table = n}
        /\ \A i \in DOMAIN list : list[i] \in DOMAIN tree
        /\ \A i, j \in DOMAIN list : list[i] = list[j] => i = j
    BY <2>1, ListComplete
  <2> HIDE DEF list
  <2>3. DOMAIN list = 1..Len(list) /\ Len(list) \in Nat
    BY <2>2
  <2>4. missing = {}
    <3> SUFFICES ASSUME NEW i \in DOMAIN list, NEW j \in 1..i-1, list[j] = list[i] PROVE FALSE
      BY <2>2
    <3>1. j \in DOMAIN list /\ j # i
      BY <2>3
    <3> QED
      BY <3>1, <2>2
  <2>5. gone = Elements(list)
    BY <2>3, <2>4 DEF Elements
  <2> QED
    BY <2>1, <2>2, <2>4, <2>5
<1>4. GoodTree(rest, pages) /\ GoodTree(Without(rest, {n}), pages)
  BY GoodWithout DEF CatalogInv
<1>5. CASE n \in DOMAIN tables /\ indexes' = Without(indexes, gone)
  <2> HIDE DEF missing, gone
  <2>1. /\ DOMAIN indexes' = DOMAIN indexes \ gone
        /\ \A m \in DOMAIN indexes' : indexes'[m] = indexes[m]
        /\ indexes' \in [DOMAIN indexes' -> [table : Names, root : Nat]]
    BY <1>5 DEF CatalogInv, GoodMaps, Without
  <2>2. CASE /\ missing # {}
             /\ IF gone = {} THEN UNCHANGED <<tree, owner>> ELSE Write(rest)
             /\ result' = <<"drop table", n, "index entry missing">>
             /\ UNCHANGED <<tables, tableIndexes>>
    <3>1. diverged
      BY <1>1, <1>3, <2>2
    <3>2. GoodTree(tree', pages)
      BY <2>2, <1>4 DEF Write, CatalogInv
    <3>3. /\ tables' \in [DOMAIN tables' -> Nat] /\ DOMAIN tables' \subseteq DOMAIN tables
          /\ \A m \in DOMAIN tables' : tables'[m] = tables[m]
          /\ tableIndexes' \in [DOMAIN tableIndexes' -> Seq(Names)]
      BY <2>2 DEF CatalogInv, GoodMaps
    <3>4. GoodTree(tree, pages)' /\ GoodTree(disk, pages)' /\ GoodMaps'
      BY <1>1, <2>1, <3>2, <3>3, FewerGood
    <3>5. result'[1] = "drop table" /\ result'[2] = n
      BY <2>2
    <3> QED
      BY <1>1, <3>1, <3>4, <3>5 DEF CatalogInv
  <2>3. CASE /\ missing = {}
             /\ tableIndexes' = Without(tableIndexes, {n})
             /\ n \notin DOMAIN rest
             /\ IF gone = {} THEN UNCHANGED <<tree, owner>> ELSE Write(rest)
             /\ result' = <<"drop table", n, "table entry missing">>
             /\ UNCHANGED <<tables, pinned>>
    <3>1. diverged
      <4> SUFFICES ASSUME ~diverged PROVE FALSE
        BY <1>1
      <4>1. n \in Tabled(tree) /\ n \notin gone
        BY <1>3, <1>5 DEF Match, Tabled
      <4> QED
        BY <4>1, <2>3 DEF Without, Tabled
    <3>2. GoodTree(tree', pages)
      BY <2>3, <1>4 DEF Write, CatalogInv
    <3>3. /\ tables' \in [DOMAIN tables' -> Nat] /\ DOMAIN tables' \subseteq DOMAIN tables
          /\ \A m \in DOMAIN tables' : tables'[m] = tables[m]
      BY <2>3 DEF CatalogInv, GoodMaps
    <3>4. tableIndexes' \in [DOMAIN tableIndexes' -> Seq(Names)]
      BY <2>3 DEF CatalogInv, GoodMaps, Without
    <3>5. GoodTree(tree, pages)' /\ GoodTree(disk, pages)' /\ GoodMaps'
      BY <1>1, <2>1, <3>2, <3>3, <3>4, FewerGood
    <3>6. result'[1] = "drop table" /\ result'[2] = n
      BY <2>3
    <3> QED
      BY <1>1, <3>1, <3>5, <3>6 DEF CatalogInv
  <2>4. CASE /\ missing = {}
             /\ tableIndexes' = Without(tableIndexes, {n})
             /\ n \in DOMAIN rest
             /\ Write(Without(rest, {n}))
             /\ tables' = Without(tables, {n})
             /\ result' = <<"drop table", n, "ok">>
    <3>1. /\ DOMAIN tree' = DOMAIN tree \ (gone \cup {n})
          /\ \A m \in DOMAIN tree' : tree'[m] = tree[m]
          /\ GoodTree(tree', pages)
      BY <2>4, <1>4 DEF Write, Without
    <3>2. /\ DOMAIN tables' = DOMAIN tables \ {n}
          /\ \A m \in DOMAIN tables' : tables'[m] = tables[m]
          /\ tables' \in [DOMAIN tables' -> Nat]
      BY <2>4 DEF CatalogInv, GoodMaps, Without
    <3>3. tableIndexes' \in [DOMAIN tableIndexes' -> Seq(Names)]
      BY <2>4 DEF CatalogInv, GoodMaps, Without
    <3>4. GoodTree(tree, pages)' /\ GoodTree(disk, pages)' /\ GoodMaps'
      BY <1>1, <2>1, <3>1, <3>2, <3>3, FewerGood
    <3>5. ASSUME ~diverged
          PROVE  Match' /\ \A m \in DOMAIN indexes' : indexes'[m].table # n
      <4>1. Match /\ gone = {m \in DOMAIN tree : tree[m].kind = 2 /\ tree[m].table = n}
        BY <3>5, <1>3
      <4>2. n \in Tabled(tree)
        BY <4>1, <1>5 DEF Match
      <4>3. Tabled(tree') = Tabled(tree) \ {n}
        BY <3>1, <4>1, <4>2 DEF Tabled
      <4>4. Indexed(tree') = Indexed(tree) \ gone
        BY <3>1, <4>1, <4>2 DEF Tabled, Indexed
      <4>5. \A m \in Tabled(tree') \cup Indexed(tree') : tree'[m] = tree[m]
        BY <3>1 DEF Tabled, Indexed
      <4>6. /\ DOMAIN tables' = Tabled(tree')
            /\ \A m \in Tabled(tree') : tables'[m] = tree'[m].root
        BY <4>1, <4>3, <4>5, <3>2 DEF Match
      <4>7. /\ DOMAIN indexes' = Indexed(tree')
            /\ \A m \in Indexed(tree') : indexes'[m].table = tree'[m].table /\ indexes'[m].root = tree'[m].root
        BY <4>1, <4>4, <4>5, <2>1 DEF Match
      <4>8. \A m \in Indexed(tree') : tree'[m].table # n
        BY <4>1, <4>4, <4>5 DEF Indexed
      <4>9. ASSUME NEW u \in Names
            PROVE  /\ Elements(ListOf(u)') = {m \in Indexed(tree') : tree'[m].table = u}
                   /\ Distinct(ListOf(u)')
        <5>1. CASE u = n
          <6>1. ListOf(u)' = << >>
            BY <5>1, <2>4 DEF ListOf, Without
          <6> QED
            BY <6>1, <5>1, <4>8 DEF Elements, Distinct
        <5>2. CASE u # n
          <6>1. ListOf(u)' = ListOf(u)
            BY <5>2, <2>4 DEF ListOf, Without
          <6>2. {m \in Indexed(tree') : tree'[m].table = u} = {m \in Indexed(tree) : tree[m].table = u}
            BY <5>2, <4>1, <4>4, <4>5
          <6> QED
            BY <6>1, <6>2, <4>1 DEF Match
        <5> QED
          BY <5>1, <5>2
      <4> QED
        BY <4>6, <4>7, <4>8, <4>9 DEF Match
    <3>6. result'[1] = "drop table" /\ result'[2] = n
      BY <2>4
    <3> QED
      BY <1>1, <3>4, <3>5, <3>6 DEF CatalogInv
  <2> QED
    BY <2>2, <2>3, <2>4, <1>5 DEF DropTable, missing, gone
<1> QED
  BY <1>2, <1>5 DEF DropTable

(* A list without its element at place f. *)
Cut(s, f) == [i \in 1..Len(s) - 1 |-> s[IF i < f THEN i ELSE i + 1]]

LEMMA CutFacts ==
  ASSUME NEW s \in Seq(Names), NEW f \in DOMAIN s, Distinct(s)
  PROVE  Elements(Cut(s, f)) = Elements(s) \ {s[f]} /\ Distinct(Cut(s, f))
<1> DEFINE w == Cut(s, f)
<1>1. DOMAIN s = 1..Len(s) /\ Len(s) \in Nat /\ f \in 1..Len(s)
  OBVIOUS
<1>2. DOMAIN w = 1..Len(s) - 1 /\ \A i \in 1..Len(s) - 1 : w[i] = s[IF i < f THEN i ELSE i + 1]
  BY DEF Cut
<1> HIDE DEF w
<1> DEFINE at(i) == IF i < f THEN i ELSE i + 1
<1>3. \A i \in 1..Len(s) - 1 : at(i) \in DOMAIN s /\ at(i) # f /\ w[i] = s[at(i)]
  BY <1>1, <1>2
<1>4. \A i, j \in 1..Len(s) - 1 : at(i) = at(j) => i = j
  BY <1>1
<1>5. \A k \in DOMAIN s : k # f => \E i \in 1..Len(s) - 1 : at(i) = k
  <2> SUFFICES ASSUME NEW k \in DOMAIN s, k # f PROVE \E i \in 1..Len(s) - 1 : at(i) = k
    OBVIOUS
  <2>1. CASE k < f
    <3>1. k \in 1..Len(s) - 1 /\ at(k) = k
      BY <1>1, <2>1
    <3> QED
      BY <3>1
  <2>2. CASE k > f
    <3>1. k - 1 \in 1..Len(s) - 1 /\ at(k - 1) = k
      BY <1>1, <2>2
    <3> QED
      BY <3>1
  <2> QED
    BY <2>1, <2>2, <1>1
<1> HIDE DEF at
<1>6. Distinct(w)
  BY <1>2, <1>3, <1>4 DEF Distinct
<1>7. Elements(w) = Elements(s) \ {s[f]}
  <2>1. \A i \in 1..Len(s) - 1 : w[i] \in Elements(s) /\ w[i] # s[f]
    BY <1>3 DEF Elements, Distinct
  <2>2. \A k \in DOMAIN s : s[k] # s[f] => \E i \in 1..Len(s) - 1 : w[i] = s[k]
    BY <1>3, <1>5
  <2>3. ASSUME NEW x \in Elements(w) PROVE x \in Elements(s) \ {s[f]}
    BY <2>1, <2>3, <1>2 DEF Elements
  <2>4. ASSUME NEW x \in Elements(s) \ {s[f]} PROVE x \in Elements(w)
    <3>1. PICK k \in DOMAIN s : s[k] = x
      BY DEF Elements
    <3>2. PICK i \in 1..Len(s) - 1 : w[i] = s[k]
      BY <3>1, <2>2, <2>4
    <3> QED
      BY <3>1, <3>2, <1>2 DEF Elements
  <2> QED
    BY <2>3, <2>4
<1> QED
  BY <1>6, <1>7 DEF w

LEMMA DropIndexInv ==
  ASSUME CatalogInv, NEW n \in Names, DropIndex(n)
  PROVE  CatalogInv' /\ result'[1] = "drop index"
<1>1. /\ pages \in Nat /\ diverged \in BOOLEAN
      /\ disk' = disk /\ pages' = pages /\ diverged' = diverged
  BY DEF CatalogInv, DropIndex
<1>2. ASSUME NEW error, Fails("drop index", n, error)
      PROVE  CatalogInv' /\ result'[1] = "drop index"
  <2>1. UNCHANGED <<maps, tree, owner>> /\ result'[1] = "drop index"
    BY <1>2 DEF Fails
  <2> QED
    BY <2>1, <1>1, FailsInv
<1> DEFINE t == indexes[n].table
           l == ListOf(t)
           at == {i \in DOMAIN l : l[i] = n}
           first == CHOOSE i \in at : \A j \in at : i <= j
<1>3. CASE /\ n \in DOMAIN indexes \cap DOMAIN tree
           /\ Write(Without(tree, {n}))
           /\ indexes' = Without(indexes, {n})
           /\ tableIndexes' = IF at = {} THEN tableIndexes ELSE With(tableIndexes, t, Cut(l, first))
           /\ result' = <<"drop index", n, "ok">>
           /\ UNCHANGED <<tables, pinned>>
  <2>1. t \in Names /\ l \in Seq(Names) /\ Len(l) \in Nat /\ DOMAIN l = 1..Len(l)
    <3>1. t \in Names
      BY <1>3 DEF CatalogInv, GoodMaps
    <3>2. l \in Seq(Names)
      BY DEF CatalogInv, GoodMaps, ListOf
    <3> QED
      BY <3>1, <3>2
  <2>2. /\ DOMAIN tree' = DOMAIN tree \ {n}
        /\ \A m \in DOMAIN tree' : tree'[m] = tree[m]
        /\ GoodTree(tree', pages)
    <3>1. tree' = Without(tree, {n})
      BY <1>3 DEF Write
    <3>2. GoodTree(Without(tree, {n}), pages)
      BY GoodWithout DEF CatalogInv
    <3> QED
      BY <3>1, <3>2 DEF Without
  <2>3. /\ DOMAIN indexes' = DOMAIN indexes \ {n}
        /\ \A m \in DOMAIN indexes' : indexes'[m] = indexes[m]
        /\ indexes' \in [DOMAIN indexes' -> [table : Names, root : Nat]]
    BY <1>3 DEF CatalogInv, GoodMaps, Without
  <2> HIDE DEF t, l
  <2>4. tableIndexes' \in [DOMAIN tableIndexes' -> Seq(Names)]
    <3>1. CASE at = {}
      BY <3>1, <1>3 DEF CatalogInv, GoodMaps
    <3>2. CASE at # {}
      <4>1. Len(l) - 1 \in Nat
        BY <3>2, <2>1
      <4>2. \A i \in 1..Len(l) - 1 : l[IF i < first THEN i ELSE i + 1] \in Names
        BY <2>1
      <4>3. Cut(l, first) \in Seq(Names)
        BY <4>1, <4>2 DEF Cut
      <4> QED
        BY <4>3, <3>2, <1>3 DEF CatalogInv, GoodMaps, With
    <3> QED
      BY <3>1, <3>2
  <2>5. GoodTree(tree, pages)' /\ GoodTree(disk, pages)' /\ GoodMaps'
    <3>1. /\ tables' \in [DOMAIN tables' -> Nat] /\ DOMAIN tables' \subseteq DOMAIN tables
          /\ \A m \in DOMAIN tables' : tables'[m] = tables[m]
      BY <1>3 DEF CatalogInv, GoodMaps
    <3> QED
      BY <3>1, <1>1, <2>2, <2>3, <2>4, FewerGood
  <2>6. ASSUME ~diverged PROVE Match'
    <3>1. Match
      BY <2>6 DEF CatalogInv
    <3>2. n \in Indexed(tree) /\ tree[n].table = t /\ n \notin Tabled(tree)
      <4>1. n \in Indexed(tree)
        BY <3>1, <1>3 DEF Match
      <4>2. indexes[n].table = tree[n].table
        BY <3>1, <4>1 DEF Match
      <4> QED
        BY <4>1, <4>2 DEF Indexed, Tabled, t
    <3>3. Tabled(tree') = Tabled(tree) /\ Indexed(tree') = Indexed(tree) \ {n}
      BY <3>2, <2>2 DEF Indexed, Tabled
    <3>4. \A m \in Tabled(tree') \cup Indexed(tree') : tree'[m] = tree[m]
      BY <2>2 DEF Tabled, Indexed
    <3>5. Elements(l) = {m \in Indexed(tree) : tree[m].table = t} /\ Distinct(l)
      BY <3>1, <2>1 DEF Match, l
    <3>6. PICK f \in DOMAIN l : l[f] = n
      BY <3>2, <3>5 DEF Elements
    <3>7. at = {f} /\ f \in Nat
      BY <3>5, <3>6, <2>1 DEF Distinct
    <3>8. first = f
      BY <3>7
    <3>9. tableIndexes' = With(tableIndexes, t, Cut(l, f))
      BY <3>7, <3>8, <1>3
    <3>10. /\ \A u \in Names \ {t} : ListOf(u)' = ListOf(u)
           /\ \A u \in {t} : ListOf(u)' = Cut(l, f)
      BY <3>9 DEF ListOf, With
    <3>11. Elements(Cut(l, f)) = Elements(l) \ {n} /\ Distinct(Cut(l, f))
      BY <3>5, <3>6, <2>1, CutFacts
    <3>12. ASSUME NEW u \in Names
           PROVE  /\ Elements(ListOf(u)') = {m \in Indexed(tree') : tree'[m].table = u}
                  /\ Distinct(ListOf(u)')
      <4>1. CASE u = t
        <5>1. ListOf(u)' = Cut(l, f)
          BY <4>1, <3>10
        <5>2. {m \in Indexed(tree') : tree'[m].table = t} = {m \in Indexed(tree) : tree[m].table = t} \ {n}
          BY <3>3, <3>4
        <5> QED
          BY <4>1, <5>1, <5>2, <3>5, <3>11
      <4>2. CASE u # t
        <5>1. {m \in Indexed(tree') : tree'[m].table = u} = {m \in Indexed(tree) : tree[m].table = u}
          BY <4>2, <3>2, <3>3, <3>4
        <5> QED
          BY <4>2, <5>1, <3>1, <3>10 DEF Match
      <4> QED
        BY <4>1, <4>2
    <3>13. /\ DOMAIN tables' = Tabled(tree')
           /\ \A m \in Tabled(tree') : tables'[m] = tree'[m].root
      BY <3>1, <3>3, <3>4, <1>3 DEF Match
    <3>14. /\ DOMAIN indexes' = Indexed(tree')
           /\ \A m \in Indexed(tree') : indexes'[m].table = tree'[m].table /\ indexes'[m].root = tree'[m].root
      BY <3>1, <3>3, <3>4, <2>3 DEF Match
    <3> QED
      BY <3>12, <3>13, <3>14 DEF Match
  <2>7. result'[1] = "drop index"
    BY <1>3
  <2> QED
    BY <1>1, <2>5, <2>6, <2>7 DEF CatalogInv
<1> QED
  BY <1>2, <1>3 DEF DropIndex, Cut

(* ROLLBACK may make the tree on disk the current one; the maps stay, and  *)
(* differ from it only in a diverged state.                                *)
LEMMA RollbackInv == ASSUME CatalogInv, Rollback PROVE CatalogInv'
<1>1. /\ UNCHANGED <<maps, disk, pages>> /\ tree' \in {tree, disk}
      /\ diverged' = (diverged \/ tree' # tree)
  BY DEF Rollback, Diverges
<1>2. GoodTree(tree, pages)' /\ GoodTree(disk, pages)'
  <2>1. GoodTree(tree', pages) /\ GoodTree(disk, pages)
    BY <1>1 DEF CatalogInv
  <2> QED
    BY <2>1, <1>1 DEF GoodTree
<1>3. GoodMaps'
  BY <1>1 DEF CatalogInv, GoodMaps, RootsDistinct, maps
<1>4. ASSUME ~diverged' PROVE Match'
  <2>1. Match /\ tree' = tree
    BY <1>1, <1>4 DEF CatalogInv
  <2> QED
    BY <2>1, <1>1 DEF Match, ListOf, maps
<1> QED
  BY <1>1, <1>2, <1>3, <1>4 DEF CatalogInv

(* Open loads the maps from the tree: they match it, whatever they were. *)
LEMMA ReopenInv == ASSUME CatalogInv, Reopen PROVE CatalogInv'
<1>1. /\ tree' = tree /\ disk' = tree /\ pages' = pages /\ diverged' = FALSE
      /\ tables' = LoadTables(tree) /\ indexes' = LoadIndexes(tree)
      /\ tableIndexes' = LoadTableIndexes(tree)
  BY DEF Reopen, Load
<1>2. GoodTree(tree, pages) /\ pages \in Nat
  BY DEF CatalogInv
<1>3. GoodTree(tree, pages)' /\ GoodTree(disk, pages)'
  BY <1>1, <1>2 DEF GoodTree
<1> DEFINE Of(t) == {n \in Indexed(tree) : tree[n].table = t}
<1>4. ASSUME NEW t
      PROVE  /\ Ascending(Of(t)) \in Seq(Names)
             /\ Elements(Ascending(Of(t))) = Of(t)
             /\ Distinct(Ascending(Of(t)))
  <2>1. Of(t) \in SUBSET DOMAIN tree /\ DOMAIN tree \subseteq Names /\ IsFiniteSet(DOMAIN tree)
    BY <1>2 DEF Indexed, GoodTree
  <2>2. IsFiniteSet(Of(t))
    BY <2>1, FS_Subset
  <2>3. Of(t) \in SUBSET Nat
    BY <2>1, CatalogAssumption
  <2>4. /\ Ascending(Of(t)) \in Seq(Of(t))
        /\ Elements(Ascending(Of(t))) = Of(t)
        /\ Distinct(Ascending(Of(t)))
    BY <2>2, <2>3, AscendingFacts
  <2>5. Of(t) \subseteq Names
    BY <2>1
  <2> HIDE DEF Of
  <2> QED
    BY <2>4, <2>5
<1>5. /\ DOMAIN tables' = Tabled(tree)
      /\ \A n \in Tabled(tree) : tables'[n] = tree[n].root
      /\ DOMAIN indexes' = Indexed(tree)
      /\ \A n \in Indexed(tree) : indexes'[n] = [table |-> tree[n].table, root |-> tree[n].root]
  BY <1>1 DEF LoadTables, LoadIndexes
<1>6. \A n \in DOMAIN tree : tree[n].root \in Nat /\ tree[n].root <= pages
  BY <1>2 DEF GoodTree, Entry
<1>7. Tabled(tree) \subseteq DOMAIN tree /\ Indexed(tree) \subseteq DOMAIN tree /\ Tabled(tree) \cap Indexed(tree) = {}
  BY DEF Tabled, Indexed
<1>8. GoodMaps'
  <2>1. tables' \in [DOMAIN tables' -> Nat]
    BY <1>1, <1>5, <1>6, <1>7 DEF LoadTables
  <2>2. indexes' \in [DOMAIN indexes' -> [table : Names, root : Nat]]
    <3>1. \A n \in Indexed(tree) : tree[n].table \in Names
      BY <1>2 DEF Indexed, GoodTree
    <3> QED
      BY <3>1, <1>1, <1>5, <1>6, <1>7 DEF LoadIndexes
  <2>3. tableIndexes' \in [DOMAIN tableIndexes' -> Seq(Names)]
    <3>1. tableIndexes' = [t \in Tabled(tree) \cup {tree[n].table : n \in Indexed(tree)} |-> Ascending(Of(t))]
      BY <1>1 DEF LoadTableIndexes
    <3> HIDE DEF Of
    <3> QED
      BY <3>1, <1>4
  <2>4. \A n \in DOMAIN tables' : tables'[n] <= pages'
    BY <1>1, <1>5, <1>6, <1>7
  <2>5. \A n \in DOMAIN indexes' : indexes'[n].root <= pages'
    BY <1>1, <1>5, <1>6, <1>7
  <2>6. RootsDistinct'
    <3>1. \A n, m \in DOMAIN tree : tree[n].root = tree[m].root => n = m
      BY <1>2 DEF GoodTree
    <3>2. \A n \in DOMAIN indexes' : indexes'[n].root = tree[n].root
      BY <1>5
    <3> QED
      BY <3>1, <3>2, <1>5, <1>7 DEF RootsDistinct
  <2>7. DOMAIN tables' \subseteq Names /\ DOMAIN indexes' \subseteq Names
    BY <1>2, <1>5, <1>7 DEF GoodTree
  <2> QED
    BY <2>1, <2>2, <2>3, <2>4, <2>5, <2>6, <2>7 DEF GoodMaps
<1>9. Match'
  <2>1. ASSUME NEW t \in Names PROVE ListOf(t)' = Ascending(Of(t)) \/ (ListOf(t)' = << >> /\ Of(t) = {})
    BY <1>1 DEF ListOf, LoadTableIndexes
  <2> HIDE DEF Of
  <2>2. ASSUME NEW t \in Names PROVE Elements(ListOf(t)') = Of(t) /\ Distinct(ListOf(t)')
    <3>1. CASE ListOf(t)' = << >> /\ Of(t) = {}
      BY <3>1 DEF Elements, Distinct
    <3> QED
      BY <3>1, <2>1, <1>4
  <2>3. \A n \in Indexed(tree) : indexes'[n].table = tree[n].table /\ indexes'[n].root = tree[n].root
    BY <1>5
  <2> QED
    BY <2>2, <2>3, <1>1, <1>5 DEF Match, Of
<1> QED
  BY <1>1, <1>2, <1>3, <1>8, <1>9 DEF CatalogInv

(* Evict writes the leaf; BEGIN and COMMIT leave all this alone. *)
LEMMA OtherInv ==
  ASSUME CatalogInv, UNCHANGED <<maps, tree, pages, diverged>>, disk' \in {tree, disk}
  PROVE  CatalogInv'
<1>1. GoodTree(tree, pages)' /\ GoodTree(disk, pages)'
  <2>1. GoodTree(tree, pages) /\ GoodTree(disk', pages)
    BY DEF CatalogInv
  <2> QED
    BY <2>1 DEF GoodTree
<1>2. GoodMaps'
  BY DEF CatalogInv, GoodMaps, RootsDistinct, maps
<1>3. ~diverged' => Match'
  BY DEF CatalogInv, Match, ListOf, maps
<1> QED
  BY <1>1, <1>2, <1>3 DEF CatalogInv

LEMMA NextInv == CatalogInv /\ [Next]_vars => CatalogInv'
<1> SUFFICES ASSUME CatalogInv, [Next]_vars PROVE CatalogInv'
  OBVIOUS
<1>1. ASSUME NEW n \in Names, CreateTable(n) \/ DropTable(n) \/ DropIndex(n) PROVE CatalogInv'
  BY <1>1, CreateTableInv, DropTableInv, DropIndexInv
<1>2. ASSUME NEW n \in Names, NEW t \in Names, CreateIndex(n, t) PROVE CatalogInv'
  BY <1>2, CreateIndexInv
<1>3. CASE Begin \/ Commit \/ Evict
  BY <1>3, OtherInv DEF Begin, Commit, Evict
<1>4. CASE Rollback
  BY <1>4, RollbackInv
<1>5. CASE Reopen
  BY <1>5, ReopenInv
<1>6. CASE UNCHANGED vars
  BY <1>6, OtherInv DEF vars, maps
<1> QED
  BY <1>1, <1>2, <1>3, <1>4, <1>5, <1>6 DEF Next

-----------------------------------------------------------------------------
(* The theorems *)

(* The invariant of the catalog. *)
THEOREM CatalogInvariant == Spec => []CatalogInv
BY InitInv, NextInv, PTL DEF Spec

(* Whatever was created, dropped, rolled back or failed half-way, the maps *)
(* never give two tables or indexes the same root page; and they are what  *)
(* Open would load, except after the two events of Diverges.               *)
THEOREM MapsAlwaysSound == Spec => []MapsSound
<1>1. CatalogInv => MapsSound
  BY MatchMeaning DEF CatalogInv, MapsSound, GoodMaps
<1> QED
  BY <1>1, CatalogInvariant, PTL

(* What the last statement was, if it was no DROP TABLE. *)
LEMMA LastStatement ==
  ASSUME \/ \E n \in Names : CreateTable(n)
         \/ \E n, t \in Names : CreateIndex(n, t)
         \/ Begin \/ Commit \/ Rollback \/ Reopen
  PROVE  result'[1] # "drop table"
<1>1. ASSUME NEW n \in Names, CreateTable(n) PROVE result'[1] # "drop table"
  <2>1. PICK how : result' = <<"create table", n, how>>
    BY <1>1, Zenon DEF CreateTable, Fails
  <2> QED
    BY <2>1
<1>2. ASSUME NEW n \in Names, NEW t \in Names, CreateIndex(n, t) PROVE result'[1] # "drop table"
  <2>1. PICK how : result' = <<"create index", n, how>>
    BY <1>2, Zenon DEF CreateIndex, Fails
  <2> QED
    BY <2>1
<1>3. ASSUME Begin \/ Commit \/ Rollback \/ Reopen PROVE result'[1] # "drop table"
  <2>1. PICK what \in {"begin", "commit", "rollback", "open"} : result' = <<what, 0, "ok">>
    BY <1>3, Zenon DEF Begin, Commit, Rollback, Reopen
  <2> QED
    BY <2>1
<1> QED
  BY <1>1, <1>2, <1>3

(* After a DROP TABLE, until the next statement. *)
Taken ==
  (~diverged /\ result[1] = "drop table" /\ result[3] = "ok") =>
    \A m \in DOMAIN indexes : indexes[m].table # result[2]

LEMMA TakenNext ==
  ASSUME CatalogInv, Taken, [Next]_vars
  PROVE  /\ Taken'
         /\ (~diverged /\ result'[1] = "drop table" /\ result'[3] = "ok") =>
              \A m \in DOMAIN indexes' : indexes'[m].table # result'[2]
<1>1. ASSUME NEW n \in Names, DropTable(n) PROVE diverged' = diverged
  BY <1>1 DEF DropTable
<1>2. ASSUME NEW n \in Names, DropTable(n), ~diverged, result'[3] = "ok"
      PROVE  \A m \in DOMAIN indexes' : indexes'[m].table # result'[2]
  BY <1>2, DropTableInv
<1>3. ASSUME NEW n \in Names, DropIndex(n) PROVE result'[1] # "drop table"
  <2>1. result'[1] = "drop index"
    BY <1>3, DropIndexInv
  <2> QED
    BY <2>1
<1>4. ASSUME Evict \/ UNCHANGED vars PROVE UNCHANGED <<indexes, result, diverged>>
  BY <1>4 DEF Evict, vars, maps
<1>5. CASE UNCHANGED <<indexes, result, diverged>>
  BY <1>5 DEF Taken
<1>6. CASE result'[1] # "drop table"
  BY <1>6 DEF Taken
<1>7. ASSUME NEW n \in Names, DropTable(n)
      PROVE  /\ Taken'
             /\ (~diverged /\ result'[1] = "drop table" /\ result'[3] = "ok") =>
                  \A m \in DOMAIN indexes' : indexes'[m].table # result'[2]
  <2>1. diverged' = diverged
    BY <1>1, <1>7
  <2>2. (~diverged /\ result'[3] = "ok") => \A m \in DOMAIN indexes' : indexes'[m].table # result'[2]
    BY <1>2, <1>7
  <2> QED
    BY <2>1, <2>2 DEF Taken
<1> QED
  BY <1>3, <1>4, <1>5, <1>6, <1>7, LastStatement DEF Next

(* DropTable of a table whose maps match the tree leaves no index of it. *)
THEOREM DropAlwaysTakesIndexes == Spec => DropTakesIndexes
<1> DEFINE Takes == (~diverged /\ result'[1] = "drop table" /\ result'[3] = "ok") =>
                      \A m \in DOMAIN indexes' : indexes'[m].table # result'[2]
<1>1. Init => Taken
  BY DEF Init, Taken
<1>2. CatalogInv /\ Taken /\ [Next]_vars => Taken' /\ [Takes]_vars
  BY TakenNext
<1> QED
  BY <1>1, <1>2, CatalogInvariant, PTL DEF Spec, DropTakesIndexes
=============================================================================
