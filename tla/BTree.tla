------------------------------- MODULE BTree -------------------------------
(***************************************************************************)
(* The B+ tree of storage/btree.go over the pages of storage/btree_node.go.*)
(*                                                                         *)
(* A tree T is a record: T.node is the sequence of the file's pages after  *)
(* the header, T.root the root page, T.freeList the pager's free list.     *)
(* Keys are naturals in the order of bytes.Compare. The bytes of keys and  *)
(* values are their lengths KeyLen and ValLen: the byte budget of a page   *)
(* (PageSize, header, slots) decides when a node splits, lends or merges.  *)
(*                                                                         *)
(* Of a page's layout a leaf keeps its free-space pointer, which deletions *)
(* do not give back. An internal page is rewritten whenever a key leaves   *)
(* it, so its free space is what its keys and children leave.              *)
(***************************************************************************)
EXTENDS Integers, SequencesExt

CONSTANTS
  Keys,      \* the keys that operations insert and delete
  ValsOf,    \* ValsOf[k]: the values that are inserted under a key
  NotFound,  \* what Get returns for a key that is not there
  KeyLen,    \* KeyLen[k]: bytes of a key
  ValLen,    \* ValLen[v]: bytes of a value
  PageSize   \* bytes of a page

ASSUME BTreeAssumption ==
  /\ Keys \subseteq Nat \ {0}
  /\ PageSize \in Nat

Vals == UNION {ValsOf[k] : k \in Keys}

slotStart == 9
entryCap == (PageSize - slotStart) \div 3

EntrySize(k, v) == KeyLen[k] + ValLen[v] + 8
Legal(k, v) == EntrySize(k, v) <= entryCap
-----------------------------------------------------------------------------
(* Nodes *)

\* A leaf with just these entries: makeNewLeafHeader, insertLeafEntry of each.
Leaf(keys, vals, next) ==
  [type |-> "leaf", keys |-> keys, vals |-> vals, next |-> next,
   free |-> PageSize - MapThenSumSet(LAMBDA i : KeyLen[keys[i]] + ValLen[vals[i]], DOMAIN keys)]

Internal(keys, kids) == [type |-> "internal", keys |-> keys, kids |-> kids]

leafLiveBytes(n) ==
  slotStart + MapThenSumSet(LAMBDA i : EntrySize(n.keys[i], n.vals[i]), DOMAIN n.keys)

internalLiveBytes(n) ==
  5 + 4 + MapThenSumSet(LAMBDA i : KeyLen[n.keys[i]] + 8, DOMAIN n.keys)

\* findFreeSpace less the end of the slots.
LeafAvailable(n) == n.free - (slotStart + 8 * Len(n.keys))

\* The entry goes in before place i + 1.
insertLeafEntry(n, k, v, i) ==
  [n EXCEPT !.keys = InsertAt(@, i + 1, k),
            !.vals = InsertAt(@, i + 1, v),
            !.free = @ - (KeyLen[k] + ValLen[v])]

\* The slot goes, the bytes stay.
deleteLeafEntry(n, i) ==
  [n EXCEPT !.keys = RemoveAt(@, i + 1), !.vals = RemoveAt(@, i + 1)]

compactLeaf(n) == Leaf(n.keys, n.vals, n.next)

insertInternalEntry(n, k, i, kid) ==
  Internal(InsertAt(n.keys, i + 1, k), InsertAt(n.kids, i + 2, kid))

deleteInternalEntry(n, i, c) ==
  Internal(RemoveAt(n.keys, i + 1), RemoveAt(n.kids, c + 1))

replaceInternalKey(n, i, k) == [n EXCEPT !.keys[i + 1] = k]

\* The number of keys to the left of k: in an internal node an equal key is to
\* its left, so that the child to the right of a separator holds it.
binarySearchKeys(keys, k, leaf) ==
  LET RECURSIVE search(_, _)
      search(low, high) ==
        LET mid == low + (high - low) \div 2
        IN IF low > high THEN low
           ELSE IF keys[mid + 1] < k \/ (~leaf /\ keys[mid + 1] = k)
                THEN search(mid + 1, high) ELSE search(low, mid - 1)
  IN search(0, Len(keys) - 1)
-----------------------------------------------------------------------------
(* Pages *)

\* A page on the free list.
FreeNode == [type |-> "free", keys |-> <<>>]

\* The page AllocatePage returns, and the tree with a node on it.
NewPage(T) == IF T.freeList = <<>> THEN Len(T.node) + 1 ELSE Head(T.freeList)

AllocatePage(T, n) ==
  IF T.freeList = <<>> THEN [T EXCEPT !.node = Append(@, n)]
  ELSE [T EXCEPT !.node[NewPage(T)] = n, !.freeList = Tail(@)]

\* Mutant: the page is dropped, not put on the free list.
FreePageLost(T, p) == [T EXCEPT !.node[p] = FreeNode]

FreePage(T, p) == [T EXCEPT !.node[p] = FreeNode, !.freeList = <<p>> \o @]

\* NewBTree(pool, 0); page 0 is the file's header.
NewBTree == [node |-> <<Leaf(<<>>, <<>>, 0)>>, root |-> 1, freeList |-> <<>>]

\* The leaf to which k belongs and the internal pages above it, root first.
findLeaf(T, k) ==
  LET RECURSIVE descend(_, _)
      descend(p, path) ==
        LET n == T.node[p]
        IN IF n.type = "leaf" THEN [leaf |-> p, path |-> path]
           ELSE descend(n.kids[binarySearchKeys(n.keys, k, FALSE) + 1], Append(path, p))
  IN descend(T.root, <<>>)
-----------------------------------------------------------------------------
(* Splits *)

\* How many leading entries of the given sizes satisfy within(bytes, half).
Midpoint(sizes, within(_, _)) ==
  LET prefix(i) == MapThenSumSet(LAMBDA j : sizes[j], 1 .. i)
      half == prefix(Len(sizes)) \div 2
  IN Cardinality({i \in DOMAIN sizes : within(prefix(i), half)})

\* The length of the left half of a leaf, by bytes; neither half is empty.
leafMidpoint(n) ==
  LET m == Midpoint([i \in DOMAIN n.keys |-> EntrySize(n.keys[i], n.vals[i])], <)
  IN IF m = 0 THEN 1 ELSE IF m = Len(n.keys) THEN m - 1 ELSE m

\* The place of the key that moves up when an internal node splits.
internalMidpoint(keys) ==
  LET m == Midpoint([i \in DOMAIN keys |-> KeyLen[keys[i]] + 8], <=)
      m1 == IF m = 0 THEN 1 ELSE m
  IN IF m1 >= Len(keys) - 1 THEN Len(keys) - 2 ELSE m1

RECURSIVE pushUp(_, _, _, _)

\* Internal page p, which has no room for another key, is split around one that
\* moves up to its parent.
splitInternal(T, p, newKey, newChild, path) ==
  LET old == T.node[p]
      index == binarySearchKeys(old.keys, newKey, FALSE)
      keys == InsertAt(old.keys, index + 1, newKey)
      kids == InsertAt(old.kids, index + 2, newChild)
      m == internalMidpoint(keys)
      right == NewPage(T)
      split == AllocatePage(T, Internal(SubSeq(keys, m + 2, Len(keys)),
                                        SubSeq(kids, m + 2, Len(kids))))
  IN pushUp([split EXCEPT !.node[p] = Internal(SubSeq(keys, 1, m), SubSeq(kids, 1, m + 1))],
            keys[m + 1], right, Front(path))

\* A separator and the page to its right enter the last page of the path, or a
\* new root when there is none.
pushUp(T, median, right, path) ==
  IF path = <<>>
  THEN [AllocatePage(T, Internal(<<median>>, <<T.root, right>>)) EXCEPT !.root = NewPage(T)]
  ELSE LET parent == Last(path)
           n == T.node[parent]
           index == binarySearchKeys(n.keys, median, FALSE)
       IN IF KeyLen[median] + 8 > PageSize - internalLiveBytes(n)
          THEN splitInternal(T, parent, median, right, path)
          ELSE [T EXCEPT !.node[parent] = insertInternalEntry(n, median, index, right)]

\* Mutant: the left half keeps its old right sibling.
leafHalvesUnchained(n, m, right) ==
  [left  |-> Leaf(SubSeq(n.keys, 1, m), SubSeq(n.vals, 1, m), n.next),
   right |-> Leaf(SubSeq(n.keys, m + 1, Len(n.keys)), SubSeq(n.vals, m + 1, Len(n.keys)), n.next)]

\* The two leaves that leaf n becomes; the right one is on page right.
leafHalves(n, m, right) ==
  [left  |-> Leaf(SubSeq(n.keys, 1, m), SubSeq(n.vals, 1, m), right),
   right |-> Leaf(SubSeq(n.keys, m + 1, Len(n.keys)), SubSeq(n.vals, m + 1, Len(n.keys)), n.next)]

splitLeaf(T, p, path) ==
  LET n == T.node[p]
      m == leafMidpoint(n)
      right == NewPage(T)
      halves == leafHalves(n, m, right)
      split == AllocatePage([T EXCEPT !.node[p] = halves.left], halves.right)
  IN [tree |-> pushUp(split, n.keys[m + 1], right, path), median |-> n.keys[m + 1], right |-> right]
-----------------------------------------------------------------------------
(* The operations: the tree they leave, what they return, what stays pinned *)

Outcome(T, result, pinned) == [tree |-> T, result |-> result, pinned |-> pinned]

\* The place of k in leaf n, and whether it is there.
Slot(n, k) == binarySearchKeys(n.keys, k, TRUE)
Has(n, k) == Slot(n, k) < Len(n.keys) /\ n.keys[Slot(n, k) + 1] = k

Get(T, k) ==
  LET n == T.node[findLeaf(T, k).leaf]
  IN IF Has(n, k) THEN n.vals[Slot(n, k) + 1] ELSE NotFound

\* The entry goes into leaf p, compacted first if only dead bytes are in its way.
PutEntry(T, p, k, v) ==
  LET n == T.node[p]
      room == IF EntrySize(k, v) > LeafAvailable(n) THEN compactLeaf(n) ELSE n
  IN Outcome([T EXCEPT !.node[p] = insertLeafEntry(room, k, v, Slot(n, k))], "ok", {})

\* Mutant: after the split, the room is that of the leaf as it was before.
InsertOpStale(T, k, v) ==
  LET at == findLeaf(T, k)
      n == T.node[at.leaf]
  IN IF ~Legal(k, v) THEN Outcome(T, "too large", {})
     ELSE IF Has(n, k) THEN Outcome(T, "duplicate", {at.leaf})
     ELSE IF EntrySize(k, v) <= PageSize - leafLiveBytes(n) THEN PutEntry(T, at.leaf, k, v)
     ELSE Outcome(splitLeaf(T, at.leaf, at.path).tree, "too large", {at.leaf})

\* Mutant: the early return for an entry that fits keeps its leaf pinned.
InsertOpKeepsPin(T, k, v) ==
  LET at == findLeaf(T, k)
      n == T.node[at.leaf]
  IN IF ~Legal(k, v) THEN Outcome(T, "too large", {})
     ELSE IF Has(n, k) THEN Outcome(T, "duplicate", {at.leaf})
     ELSE IF EntrySize(k, v) <= PageSize - leafLiveBytes(n)
          THEN [PutEntry(T, at.leaf, k, v) EXCEPT !.pinned = {at.leaf}]
     ELSE LET s == splitLeaf(T, at.leaf, at.path)
          IN PutEntry(s.tree, IF k >= s.median THEN s.right ELSE at.leaf, k, v)

\* Insert. The early returns for a duplicate and for an entry that does not fit
\* after the split leave the leaf pinned. Compaction, when it is enough, avoids
\* the split; after a split it is not tried.
InsertOp(T, k, v) ==
  LET at == findLeaf(T, k)
      n == T.node[at.leaf]
  IN IF ~Legal(k, v) THEN Outcome(T, "too large", {})
     ELSE IF Has(n, k) THEN Outcome(T, "duplicate", {at.leaf})
     ELSE IF EntrySize(k, v) <= PageSize - leafLiveBytes(n) THEN PutEntry(T, at.leaf, k, v)
     ELSE LET s == splitLeaf(T, at.leaf, at.path)
              p == IF k >= s.median THEN s.right ELSE at.leaf
          IN IF EntrySize(k, v) > LeafAvailable(s.tree.node[p])
             THEN Outcome(s.tree, "too large", {p})
             ELSE PutEntry(s.tree, p, k, v)
-----------------------------------------------------------------------------
(* Underflow *)

\* The siblings of the child of page parent to which k belongs: the side, its
\* page, and the separator between it and the child.
Siblings(T, parent, k) ==
  LET n == T.node[parent]
      c == binarySearchKeys(n.keys, k, FALSE)
  IN [s \in {side \in {"left", "right"} : IF side = "left" THEN c > 0 ELSE c < Len(n.keys)} |->
        [page |-> n.kids[IF s = "left" THEN c ELSE c + 2],
         sep  |-> IF s = "left" THEN c - 1 ELSE c]]

\* The fuller of the siblings S, and of two equal ones that on side tie.
Fuller(live, S, tie) ==
  CHOOSE s \in S : \A r \in S : live[s] > live[r] \/ (live[s] = live[r] /\ s \in {r, tie})

\* What happens to a node below half a page, given the bytes in use on each of
\* its siblings, those a sibling would lend, and those of a merger: borrow from
\* one that stays half full, merge if the two fit on a page, or borrow anyway.
Remedy(live, loss, joined, tie) ==
  LET lenders == {s \in DOMAIN live : live[s] - loss[s] >= PageSize \div 2}
      fits == {s \in DOMAIN live : joined[s] <= PageSize}
  IN IF lenders # {} THEN <<"borrow", Fuller(live, lenders, "left")>>
     ELSE IF fits # {} THEN <<"merge", IF "left" \in fits THEN "left" ELSE "right">>
     ELSE <<"borrow", Fuller(live, DOMAIN live, tie)>>

RECURSIVE rebalanceInternal(_, _, _, _)

\* Mutant: a root without keys stays.
ShrunkKeepsRoot(T, k, path) ==
  LET p == Last(path)
  IN IF Len(path) > 1 /\ internalLiveBytes(T.node[p]) < PageSize \div 2
     THEN rebalanceInternal(T, p, k, Front(path)) ELSE T

\* After a merger below the last page of the path: a root with one child gives
\* way to it, another page that is now too empty is rebalanced in turn.
Shrunk(T, k, path) ==
  LET p == Last(path)
      n == T.node[p]
  IN IF Len(path) = 1
     THEN IF n.keys = <<>> THEN FreePage([T EXCEPT !.root = n.kids[1]], p) ELSE T
     ELSE IF internalLiveBytes(n) < PageSize \div 2
          THEN rebalanceInternal(T, p, k, Front(path)) ELSE T

\* Two neighbouring leaves on one page.
mergedLeaf(a, b) == Leaf(a.keys \o b.keys, a.vals \o b.vals, b.next)

\* The first key to the right of the border after k1 left the sibling on side s.
newSeparator(s, k1, lender) == IF s = "left" THEN k1 ELSE lender.keys[1]

\* rebalanceLeaf of the leaf on page p, from which k has gone. It has a sibling.
rebalanceLeaf(T, p, k, path) ==
  LET parent == Last(path)
      sibs == Siblings(T, parent, k)
      leaf == T.node[p]
      node(s) == T.node[sibs[s].page]
      edge(s) == IF s = "left" THEN Len(node(s).keys) - 1 ELSE 0
      live == [s \in DOMAIN sibs |-> leafLiveBytes(node(s))]
      remedy == Remedy(live,
                       [s \in DOMAIN sibs |-> EntrySize(node(s).keys[edge(s) + 1],
                                                        node(s).vals[edge(s) + 1])],
                       [s \in DOMAIN sibs |-> leafLiveBytes(leaf) + live[s] - slotStart], "left")
      s == remedy[2]
      q == sibs[s].page
      sep == sibs[s].sep
      k1 == node(s).keys[edge(s) + 1]
      v1 == node(s).vals[edge(s) + 1]
      lender == deleteLeafEntry(node(s), edge(s))
      a == IF s = "left" THEN q ELSE p
      b == IF s = "left" THEN p ELSE q
  IN IF remedy[1] = "borrow"
     THEN [T EXCEPT
            !.node[p] = insertLeafEntry(compactLeaf(leaf), k1, v1,
                                        IF s = "left" THEN 0 ELSE Len(leaf.keys)),
            !.node[q] = lender,
            !.node[parent] = replaceInternalKey(@, sep, newSeparator(s, k1, lender))]
     ELSE Shrunk(FreePage([T EXCEPT
            !.node[a] = mergedLeaf(@, T.node[b]),
            !.node[parent] = deleteInternalEntry(@, sep, sep + 1)], b), k, path)

\* rebalanceInternal of the node on page p: a key and a child rotate through the
\* parent, or the separator comes down between the two nodes merged.
rebalanceInternal(T, p, k, path) ==
  LET parent == Last(path)
      sibs == Siblings(T, parent, k)
      n == T.node[p]
      node(s) == T.node[sibs[s].page]
      separator(s) == T.node[parent].keys[sibs[s].sep + 1]
      edge(s) == IF s = "left" THEN Len(node(s).keys) - 1 ELSE 0
      live == [s \in DOMAIN sibs |-> internalLiveBytes(node(s))]
      remedy == Remedy(live,
                       [s \in DOMAIN sibs |-> KeyLen[node(s).keys[edge(s) + 1]] + 8],
                       [s \in DOMAIN sibs |-> internalLiveBytes(n) + live[s]
                                              + KeyLen[separator(s)] - 1], "right")
      s == remedy[2]
      q == sibs[s].page
      sep == sibs[s].sep
      a == IF s = "left" THEN q ELSE p
      b == IF s = "left" THEN p ELSE q
  IN IF sibs = <<>> THEN T
     ELSE IF remedy[1] = "borrow"
     THEN [T EXCEPT
            !.node[p] = IF s = "left"
                        THEN Internal(<<separator(s)>> \o n.keys, <<Last(node(s).kids)>> \o n.kids)
                        ELSE Internal(Append(n.keys, separator(s)),
                                      Append(n.kids, node(s).kids[1])),
            !.node[q] = deleteInternalEntry(@, edge(s), IF s = "left" THEN edge(s) + 1 ELSE 0),
            !.node[parent] = replaceInternalKey(@, sep, node(s).keys[edge(s) + 1])]
     ELSE Shrunk(FreePage([T EXCEPT
            !.node[a] = Internal(Append(T.node[a].keys, separator(s)) \o T.node[b].keys,
                                 T.node[a].kids \o T.node[b].kids),
            !.node[parent] = deleteInternalEntry(@, sep, sep + 1)], b), k, path)

\* Delete. Below a parent with one child, rebalanceLeaf finds no sibling and
\* dereferences nil.
DeleteOp(T, k) ==
  LET at == findLeaf(T, k)
      n == deleteLeafEntry(T.node[at.leaf], Slot(T.node[at.leaf], k))
      cut == [T EXCEPT !.node[at.leaf] = n]
  IN IF ~Has(T.node[at.leaf], k) THEN Outcome(T, "not found", {})
     ELSE IF at.path = <<>> \/ leafLiveBytes(n) >= PageSize \div 2 THEN Outcome(cut, "ok", {})
     ELSE IF T.node[Last(at.path)].keys = <<>> THEN Outcome(cut, "panic", {})
     ELSE Outcome(rebalanceLeaf(cut, at.leaf, k, at.path), "ok", {})

\* Scan from start to before end (0: no bound), to the end of the iterator.
Scan(T, start, end) ==
  LET RECURSIVE next(_, _)
      next(p, slot) ==
        LET n == T.node[p]
        IN IF slot >= Len(n.keys)
           THEN IF n.next = 0 THEN <<>> ELSE next(n.next, 0)
           ELSE IF end # 0 /\ n.keys[slot + 1] >= end THEN <<>>
           ELSE <<n.keys[slot + 1]>> \o next(p, slot + 1)
      leaf == findLeaf(T, start).leaf
  IN next(leaf, IF start = 0 THEN 0 ELSE Slot(T.node[leaf], start))
-----------------------------------------------------------------------------
(* The tree in use *)

VARIABLES
  tree,
  result,   \* what the last operation returned, and its arguments
  pinned,   \* the pages operations have left pinned
  contents  \* what Get finds: a function of tree, kept for the refinement

vars == <<tree, result, pinned, contents>>

Contents(T) == [k \in Keys |-> Get(T, k)]

Init ==
  /\ tree = NewBTree
  /\ result = <<"ok">>
  /\ pinned = {}
  /\ contents = Contents(tree)

Apply(o, args) ==
  /\ result[1] # "panic"
  /\ tree' = o.tree
  /\ result' = <<o.result>> \o args
  /\ pinned' = pinned \cup o.pinned
  /\ contents' = Contents(tree')

Insert(k, v) == Apply(InsertOp(tree, k, v), <<k, v>>)

Delete(k) == Apply(DeleteOp(tree, k), <<k>>)

Next ==
  \/ \E k \in Keys : \E v \in ValsOf[k] : Insert(k, v)
  \/ \E k \in Keys : Delete(k)

Spec == Init /\ [][Next]_vars
-----------------------------------------------------------------------------
(* Properties *)

Stored == {k \in Keys : Get(tree, k) # NotFound}

\* The pages of the tree, from the root down and from left to right.
PagesInUse ==
  LET RECURSIVE below(_)
      below(ps) == IF ps = <<>> THEN <<>>
                   ELSE LET n == tree.node[Head(ps)]
                        IN <<Head(ps)>> \o (IF n.type = "leaf" THEN <<>> ELSE below(n.kids))
                                       \o below(Tail(ps))
  IN below(<<tree.root>>)

\* For its callers the tree is an ordered map: Insert and Delete change what Get
\* finds under their key and nothing else, through every split, borrowing, merger
\* and change of root, and as long as entries are of one size a legal one is never
\* refused for it.
Map == INSTANCE OrderedMap WITH map <- contents
ImplementsMap == Map!Spec

\* Scan, which goes down the tree once and then along the chain of leaves,
\* returns exactly the stored keys of its range, in order.
ScansAreComplete ==
  LET stored == Stored
  IN \A start, end \in {0} \cup Keys : end = 0 \/ start < end =>
       LET s == Scan(tree, start, end)
       IN /\ ToSet(s) = {k \in stored : k >= start /\ (end = 0 \/ k < end)}
          /\ \A i \in 1 .. Len(s) - 1 : s[i] < s[i + 1]

\* Every page is in the tree once or on the free list once, and no leaf is chained
\* to a free page: no rebalancing loses a page, frees one that is in use, or links
\* one twice.
PagesAccounted ==
  LET used == PagesInUse
  IN /\ Len(used) + Len(tree.freeList) = Len(tree.node)
     /\ ToSet(used) \cup ToSet(tree.freeList) = DOMAIN tree.node
     /\ \A p \in ToSet(used) :
          tree.node[p].type = "leaf" => tree.node[p].next \in {0} \cup ToSet(used)

\* The entries of a page do not run into its slots or its child pointers.
NodesFit ==
  \A p \in DOMAIN tree.node :
    LET n == tree.node[p]
    IN CASE n.type = "leaf" -> LeafAvailable(n) >= 0
         [] n.type = "internal" -> internalLiveBytes(n) <= PageSize
         [] OTHER -> TRUE

\* All leaves are at one depth, and no page but a root leaf is empty.
Balanced ==
  LET RECURSIVE depth(_)
      depth(p) == IF tree.node[p].type = "leaf" THEN {0}
                  ELSE {d + 1 : d \in UNION {depth(q) : q \in ToSet(tree.node[p].kids)}}
  IN /\ Cardinality(depth(tree.root)) = 1
     /\ \A p \in DOMAIN tree.node :
          tree.node[p].keys = <<>> => \/ tree.node[p].type = "free"
                                     \/ (tree.node[p].type = "leaf" /\ p = tree.root)

\* However entries were split, borrowed and merged, every page is one the next
\* operation can work on: its entries do not run into its slots or its child
\* pointers, all leaves are at one depth, and no internal page is left with a
\* single child, which would have no sibling to borrow from or to merge with.
TreeShaped == NodesFit /\ Balanced

\* docs/storage/btree.md:41: "Every fetchNode/FetchPage is balanced by exactly one
\* UnpinPage". An operation that succeeds, or deletes nothing, leaves no page
\* pinned, through whatever splits, borrowings and mergers; only the refusals of
\* Insert do.
PinsBalanced ==
  [][result'[1] \in {"ok", "not found"} => pinned' = pinned]_vars
=============================================================================
