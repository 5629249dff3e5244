-------------------------- MODULE DeadlockDetector --------------------------
(***************************************************************************)
(* detectDeadlock of txn/lock_manager.go: the depth-first search for       *)
(* cycles in the wait-for graph.                                           *)
(*                                                                         *)
(* The whole method holds the lock manager's mutex, so the graph is fixed  *)
(* while the search runs; the module starts from an arbitrary one. Every   *)
(* graph can arise: give each transaction a table of its own to wait for,  *)
(* held in shared mode by its successors. The search iterates over Go maps *)
(* (the roots, and the holders when the edges are collected), so the order *)
(* of roots and of a node's successors is arbitrary: \E chooses it.        *)
(***************************************************************************)
EXTENDS Naturals, Sequences

CONSTANT Txns

VARIABLES
  waitFor,   \* waitFor[t]: the transactions t waits for; constant in a search
  visited,
  inStack,
  victims,   \* the result, as a set: a transaction is appended at most once
  stack,     \* the nodes of the active calls of dfs, the innermost last
  left       \* the successors the active call on a node has yet to look at

vars == <<waitFor, visited, inStack, victims, stack, left>>

\* The types of all variables.
TypeOK ==
  /\ waitFor \in [Txns -> SUBSET Txns]
  /\ visited \in SUBSET Txns
  /\ inStack \in SUBSET Txns
  /\ victims \in SUBSET Txns
  /\ stack \in Seq(Txns)
  /\ left \in [Txns -> SUBSET Txns]

Init ==
  /\ waitFor \in [Txns -> SUBSET Txns]
  /\ visited = {}
  /\ inStack = {}
  /\ victims = {}
  /\ stack = <<>>
  /\ left = [t \in Txns |-> {}]

Top == stack[Len(stack)]
Pop == SubSeq(stack, 1, Len(stack) - 1)

-----------------------------------------------------------------------------

\* The outer loop calls dfs on a waiting transaction not visited before.
DfsRoot(t) ==
  /\ stack = <<>>
  /\ waitFor[t] # {}
  /\ t \notin visited
  /\ visited' = visited \cup {t}
  /\ inStack' = inStack \cup {t}
  /\ stack' = <<t>>
  /\ left' = [left EXCEPT ![t] = waitFor[t]]
  /\ UNCHANGED <<waitFor, victims>>

\* dfs on a successor not visited before.
DfsCall(u) ==
  /\ stack # <<>>
  /\ u \in left[Top]
  /\ u \notin visited
  /\ visited' = visited \cup {u}
  /\ inStack' = inStack \cup {u}
  /\ stack' = Append(stack, u)
  /\ left' = [left EXCEPT ![Top] = @ \ {u}, ![u] = waitFor[u]]
  /\ UNCHANGED <<waitFor, victims>>

\* Mutant: a visited successor counts as a cycle whether in the stack or not.
DfsCycleVisited(u) ==
  /\ stack # <<>>
  /\ u \in left[Top]
  /\ u \in visited
  /\ victims' = victims \cup {Top}
  /\ stack' = <<>>
  /\ left' = [t \in Txns |-> {}]
  /\ UNCHANGED <<waitFor, visited, inStack>>

\* A successor that is marked as in the stack: the node at the top is the
\* victim, and every active call returns true at once, with its mark left on.
DfsCycle(u) ==
  /\ stack # <<>>
  /\ u \in left[Top]
  /\ u \in visited
  /\ u \in inStack
  /\ victims' = victims \cup {Top}
  /\ stack' = <<>>
  /\ left' = [t \in Txns |-> {}]
  /\ UNCHANGED <<waitFor, visited, inStack>>

\* Mutant: the search does not move on from a successor passed over.
DfsSkipStays(u) ==
  /\ stack # <<>>
  /\ u \in left[Top]
  /\ u \in visited
  /\ u \notin inStack
  /\ UNCHANGED vars

\* A successor that is visited and not in the stack is passed over.
DfsSkip(u) ==
  /\ stack # <<>>
  /\ u \in left[Top]
  /\ u \in visited
  /\ u \notin inStack
  /\ left' = [left EXCEPT ![Top] = @ \ {u}]
  /\ UNCHANGED <<waitFor, visited, inStack, victims, stack>>

\* Mutant: the call returns with successors left.
DfsReturnEarly ==
  /\ stack # <<>>
  /\ inStack' = inStack \ {Top}
  /\ stack' = Pop
  /\ UNCHANGED <<waitFor, visited, victims, left>>

\* No successor is left: the call clears its mark and returns false.
DfsReturn ==
  /\ stack # <<>>
  /\ left[Top] = {}
  /\ inStack' = inStack \ {Top}
  /\ stack' = Pop
  /\ UNCHANGED <<waitFor, visited, victims, left>>

\* The outer loop has run over every waiting transaction.
Done ==
  /\ stack = <<>>
  /\ \A t \in Txns : waitFor[t] # {} => t \in visited

Next ==
  \/ \E u \in Txns : DfsRoot(u) \/ DfsCall(u) \/ DfsCycle(u) \/ DfsSkip(u)
  \/ DfsReturn
  \/ Done /\ UNCHANGED vars

Spec == Init /\ [][Next]_vars

\* The search is one call: it is not preempted for ever.
FairSpec == Spec /\ WF_vars(Next)

-----------------------------------------------------------------------------
(* Properties *)

\* A set of transactions each of which waits for another of the set.
Deadlocked(S) == S # {} /\ \A t \in S : waitFor[t] \cap S # {}

\* t waits for ever unless some other transaction is rolled back.
Doomed(t) == \E S \in SUBSET Txns : t \in S /\ Deadlocked(S)

\* Only a transaction that can never go on is returned as a victim: it is on a
\* cycle or waits for one, also when its search met a mark that an earlier
\* search, cut short by a cycle, has left on.
NoFalseAlarm == \A t \in victims : Doomed(t)

\* When there is a deadlock, a victim is returned.
NoMissedDeadlock == Done /\ victims = {} => \A S \in SUBSET Txns : ~Deadlocked(S)

\* The search comes to an end: no successor is followed for ever.
Terminates == <>Done
=============================================================================
