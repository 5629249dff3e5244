------------------------------ MODULE MCBTree ------------------------------
(* Constants for model checking BTree. A value is named by its length. *)
EXTENDS BTree

CONSTANT NKeys

FirstKeys == 1 .. NKeys
EqualKeys == [k \in FirstKeys |-> 20]
NoBytes == [k \in FirstKeys |-> {0}]
NamedLen == [v \in {0} |-> v]

\* Trees that differ only in the numbers of their pages are one tree. The next
\* leaf is given by its keys. What is pinned has no effect on the tree, and
\* contents is a function of it.
Canonical ==
  LET RECURSIVE shape(_)
      shape(p) ==
        LET n == tree.node[p]
        IN CASE n.type = "leaf" -> <<n.keys, n.vals, n.free,
                                     IF n.next = 0 THEN <<0>> ELSE tree.node[n.next].keys>>
             [] n.type = "internal" -> <<n.keys, [i \in DOMAIN n.kids |-> shape(n.kids[i])]>>
             [] OTHER -> <<>>
      listed == ToSet(tree.freeList)
  IN <<shape(tree.root), Len(tree.node), Len(tree.freeList), Cardinality(listed),
       Cardinality({p \in listed : tree.node[p].type = "free"}), result[1] = "panic">>
=============================================================================
