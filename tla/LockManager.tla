---------------------------- MODULE LockManager ----------------------------
(***************************************************************************)
(* The table-level lock manager of txn/lock_manager.go.                    *)
(*                                                                         *)
(* Every method of the Go type runs under one mutex, so Acquire and        *)
(* Release are single steps; ReleaseAll gives the mutex up between its     *)
(* collecting loop and each Release, and is split there.                   *)
(*                                                                         *)
(* A member of Txns is a session running one transaction after another:    *)
(* once ReleaseAll is through, the session's next transaction has a fresh  *)
(* ID, and as the finished one is neither a holder nor a waiter anywhere   *)
(* the fresh ID and the old one are the same to the lock table.            *)
(***************************************************************************)
EXTENDS Naturals, Sequences

CONSTANTS
  Txns,    \* the transactions
  Tables   \* the table names

\* lock_manager.go: LockShared and LockExclusive.
LockShared == "S"
LockExclusive == "X"

LockModes == {LockShared, LockExclusive}

\* The value of a holder map at a transaction that is not in the map.
NoLock == "none"

VARIABLES
  holders,   \* holders[tbl][t]: the mode t holds tbl in, or NoLock
  waiters,   \* waiters[tbl]: the queue of blocked requests for tbl
  status,    \* where each session is: in a statement, in Acquire, in ReleaseAll
  tables     \* the tables ReleaseAll has collected and not yet released

vars == <<holders, waiters, status, tables>>

Waiter == [txnID : Txns, mode : LockModes]
HolderMap == [Txns -> LockModes \cup {NoLock}]

\* The types of all variables.
TypeOK ==
  /\ holders \in [Tables -> HolderMap]
  /\ waiters \in [Tables -> Seq(Waiter)]
  /\ status \in [Txns -> {"running", "blocked", "releasing"}]
  /\ tables \in [Txns -> SUBSET Tables]

Init ==
  /\ holders = [tbl \in Tables |-> [t \in Txns |-> NoLock]]
  /\ waiters = [tbl \in Tables |-> <<>>]
  /\ status = [t \in Txns |-> "running"]
  /\ tables = [t \in Txns |-> {}]

-----------------------------------------------------------------------------
(* Granting *)

\* Mutant: a shared request does not look for an exclusive holder.
canGrantBlindShared(H, mode) ==
  \/ \A t \in Txns : H[t] = NoLock
  \/ mode = LockShared

\* canGrant: any mode when there are no holders; a shared mode when no holder,
\* the requester included, is exclusive; an exclusive mode never otherwise.
canGrant(H, mode) ==
  \/ \A t \in Txns : H[t] = NoLock
  \/ /\ mode = LockShared
     /\ \A t \in Txns : H[t] # LockExclusive

\* The holder map once the first n waiters of queue ws have been granted. A
\* blocked transaction makes no further request, so it is in ws at most once.
HoldersAfter(H, ws, n) ==
  [t \in Txns |->
     IF \E i \in 1..n : ws[i].txnID = t
     THEN ws[CHOOSE i \in 1..n : ws[i].txnID = t].mode
     ELSE H[t]]

\* Mutant: Release wakes nobody.
LoopGrantsNone(H, ws, n) == n = 0

\* Mutant: the first waiter is granted without a look at the holders left.
LoopGrantsHead(H, ws, n) ==
  \A i \in 1..n :
    /\ i = 1 \/ canGrant(HoldersAfter(H, ws, i-1), ws[i].mode)
    /\ \A j \in 1..(i-1) : ws[j].mode # LockExclusive

\* Release's loop grants the first n waiters: each one is compatible with the
\* holders the grants before it left, and none before it is exclusive.
LoopGrants(H, ws, n) ==
  \A i \in 1..n :
    /\ canGrant(HoldersAfter(H, ws, i-1), ws[i].mode)
    /\ \A j \in 1..(i-1) : ws[j].mode # LockExclusive

-----------------------------------------------------------------------------
(* The operations *)

\* Acquire when canGrant holds: the caller becomes a holder at once, whoever
\* is queued.
AcquireGranted(t, tbl, mode) ==
  /\ status[t] = "running"
  /\ canGrant(holders[tbl], mode)
  /\ holders' = [holders EXCEPT ![tbl][t] = mode]
  /\ UNCHANGED <<waiters, status, tables>>

\* Acquire otherwise: the caller queues up and blocks on its grant channel.
AcquireBlocked(t, tbl, mode) ==
  /\ status[t] = "running"
  /\ ~canGrant(holders[tbl], mode)
  /\ waiters' = [waiters EXCEPT ![tbl] = Append(@, [txnID |-> t, mode |-> mode])]
  /\ status' = [status EXCEPT ![t] = "blocked"]
  /\ UNCHANGED <<holders, tables>>

Acquire(t, tbl, mode) == AcquireGranted(t, tbl, mode) \/ AcquireBlocked(t, tbl, mode)

\* Mutant: only the exclusive locks are collected.
ReleaseAllCollectExclusive(t) ==
  /\ status[t] = "running"
  /\ status' = [status EXCEPT ![t] = "releasing"]
  /\ tables' = [tables EXCEPT ![t] = {tbl \in Tables : holders[tbl][t] = LockExclusive}]
  /\ UNCHANGED <<holders, waiters>>

\* ReleaseAll, first critical section: collect the tables the transaction holds.
ReleaseAllCollect(t) ==
  /\ status[t] = "running"
  /\ status' = [status EXCEPT ![t] = "releasing"]
  /\ tables' = [tables EXCEPT ![t] = {tbl \in Tables : holders[tbl][t] # NoLock}]
  /\ UNCHANGED <<holders, waiters>>

\* Mutant: the scan goes on past a waiter it could not grant, so it can grant
\* the last waiter while an earlier one stays queued.
ReleaseLastWaiter(t, tbl) ==
  LET H == [holders[tbl] EXCEPT ![t] = NoLock]
      ws == waiters[tbl]
      n == Len(ws)
  IN /\ status[t] = "releasing"
     /\ tbl \in tables[t]
     /\ tables' = [tables EXCEPT ![t] = @ \ {tbl}]
     /\ IF n > 0 /\ canGrant(H, ws[n].mode)
        THEN /\ holders' = [holders EXCEPT ![tbl] = [H EXCEPT ![ws[n].txnID] = ws[n].mode]]
             /\ waiters' = [waiters EXCEPT ![tbl] = SubSeq(ws, 1, n-1)]
             /\ status' = [status EXCEPT ![ws[n].txnID] = "running"]
        ELSE /\ holders' = [holders EXCEPT ![tbl] = H]
             /\ UNCHANGED <<waiters, status>>

\* Mutant: the grant channels are not closed.
ReleaseNoWakeup(t, tbl) ==
  LET H == [holders[tbl] EXCEPT ![t] = NoLock]
      ws == waiters[tbl]
  IN /\ status[t] = "releasing"
     /\ tbl \in tables[t]
     /\ tables' = [tables EXCEPT ![t] = @ \ {tbl}]
     /\ \E n \in 0..Len(ws) :
          /\ LoopGrants(H, ws, n)
          /\ n < Len(ws) => ~LoopGrants(H, ws, n+1)
          /\ holders' = [holders EXCEPT ![tbl] = HoldersAfter(H, ws, n)]
          /\ waiters' = [waiters EXCEPT ![tbl] = SubSeq(ws, n+1, Len(ws))]
     /\ UNCHANGED status

\* Release, called for each collected table: drop the holder, then grant the
\* longest prefix of the queue that LoopGrants admits and wake its sessions.
Release(t, tbl) ==
  LET H == [holders[tbl] EXCEPT ![t] = NoLock]
      ws == waiters[tbl]
  IN /\ status[t] = "releasing"
     /\ tbl \in tables[t]
     /\ tables' = [tables EXCEPT ![t] = @ \ {tbl}]
     /\ \E n \in 0..Len(ws) :
          /\ LoopGrants(H, ws, n)
          /\ n < Len(ws) => ~LoopGrants(H, ws, n+1)
          /\ holders' = [holders EXCEPT ![tbl] = HoldersAfter(H, ws, n)]
          /\ waiters' = [waiters EXCEPT ![tbl] = SubSeq(ws, n+1, Len(ws))]
          /\ status' = [u \in Txns |-> IF \E i \in 1..n : ws[i].txnID = u
                                       THEN "running" ELSE status[u]]

\* ReleaseAll returns: the session is ready for its next transaction.
ReleaseAllReturn(t) ==
  /\ status[t] = "releasing"
  /\ tables[t] = {}
  /\ status' = [status EXCEPT ![t] = "running"]
  /\ UNCHANGED <<holders, waiters, tables>>

Next ==
  \E t \in Txns :
    \/ \E tbl \in Tables, mode \in LockModes : Acquire(t, tbl, mode)
    \/ ReleaseAllCollect(t)
    \/ \E tbl \in Tables : Release(t, tbl)
    \/ ReleaseAllReturn(t)

Spec == Init /\ [][Next]_vars

\* A transaction that is not blocked in Acquire reaches its COMMIT or ROLLBACK,
\* and ReleaseAll returns: Release waits for nothing but the mutex.
Finishes(t) ==
  \/ ReleaseAllCollect(t)
  \/ \E tbl \in Tables : Release(t, tbl)
  \/ ReleaseAllReturn(t)

FairSpec == Spec /\ \A t \in Txns : WF_vars(Finishes(t))

-----------------------------------------------------------------------------
(* The wait-for graph of detectDeadlock *)

\* The successors of t: the holders of the table whose queue t is in.
waitFor(t) ==
  {u \in Txns : \E tbl \in Tables :
     /\ holders[tbl][u] # NoLock
     /\ \E i \in 1..Len(waiters[tbl]) : waiters[tbl][i].txnID = t}

\* A set of transactions each of which waits for another of the set.
Deadlocked(S) == S # {} /\ \A t \in S : waitFor(t) \cap S # {}

-----------------------------------------------------------------------------
(* Properties *)

\* An exclusive lock has no other holder beside it (canGrant, lock_manager.go:35).
Compatible ==
  \A tbl \in Tables : \A t, u \in Txns :
    t # u /\ holders[tbl][t] = LockExclusive => holders[tbl][u] = NoLock

\* No wakeup is lost: the request at the head of a queue is one that the present
\* holders rule out, so it is never left asleep beside a lock it could have.
NoStalledHead ==
  \A tbl \in Tables :
    waiters[tbl] # <<>> => ~canGrant(holders[tbl], waiters[tbl][1].mode)

\* A session blocked in Acquire is in exactly one queue, once, and no other
\* session is in any queue: a grant reaches one sleeping caller.
QueuedOnce ==
  /\ \A tbl \in Tables : \A i \in 1..Len(waiters[tbl]) :
       status[waiters[tbl][i].txnID] = "blocked"
  /\ \A tbl1, tbl2 \in Tables :
       \A i \in 1..Len(waiters[tbl1]), j \in 1..Len(waiters[tbl2]) :
         waiters[tbl1][i].txnID = waiters[tbl2][j].txnID => tbl1 = tbl2 /\ i = j

\* Although ReleaseAll drops the mutex between collecting and releasing, every
\* lock a releasing transaction holds is on its list, so none survives it.
ReleaseAllComplete ==
  \A t \in Txns :
    status[t] = "releasing" =>
      \A tbl \in Tables : holders[tbl][t] # NoLock <=> tbl \in tables[t]

\* phase[t] in the terms of two-phase locking: ReleaseAll is the shrinking phase.
PhaseOf(t) == IF status[t] = "releasing" THEN "shrinking" ELSE "growing"

\* Acquire and ReleaseAll implement strict two-phase locking, although ReleaseAll
\* gives the mutex up between its parts and Release hands a lock on in the same
\* step: nobody gains a lock while releasing, no lock is taken from
\* its holder, and a transaction that is through holds none.
Locking == INSTANCE TwoPhaseLocking
             WITH held <- holders, phase <- [t \in Txns |-> PhaseOf(t)]
ImplementsTwoPhase == Locking!TwoPhase

\* Waiters leave a queue in the order they joined it (Release, "in FIFO order"):
\* one that leaves takes every earlier one with it.
FifoGrants ==
  [][\A tbl \in Tables : \A i, j \in 1..Len(waiters[tbl]) :
       LET stays(k) == \E m \in 1..Len(waiters'[tbl]) :
                         waiters'[tbl][m].txnID = waiters[tbl][k].txnID
       IN i < j /\ ~stays(j) => ~stays(i)]_vars

\* What the wait-for graph calls a deadlock is one: a set of transactions that
\* wait for each other stays so whatever the others do, so a transaction has to
\* be rolled back from outside (detectDeadlock, "callers are responsible").
DeadlockPersists ==
  [][\A S \in SUBSET Txns : Deadlocked(S) => Deadlocked(S)']_vars

Blocked(t) == status[t] = "blocked"

\* Acquire gives a lock to a transaction while others are queued for the table.
Overtakes ==
  \E tbl \in Tables, t \in Txns :
    /\ waiters[tbl] # <<>>
    /\ status[t] = "running"
    /\ holders[tbl][t] = NoLock /\ holders'[tbl][t] # NoLock

\* A request that Acquire put to sleep is granted in the end, Release waking it,
\* and there are two ways only for this to fail: transactions that wait for
\* each other, or themselves, and shared requests that overtake the queue again
\* and again, for canGrant does not look at it.
EventuallyGranted ==
  \/ <>(\E S \in SUBSET Txns : Deadlocked(S))
  \/ []<><<Overtakes>>_vars
  \/ \A t \in Txns : Blocked(t) ~> ~Blocked(t)
=============================================================================
