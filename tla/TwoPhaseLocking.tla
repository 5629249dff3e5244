-------------------------- MODULE TwoPhaseLocking --------------------------
(***************************************************************************)
(* What the lock table is for: strict two-phase locking. A transaction     *)
(* gains locks while it grows, drops them one by one while it shrinks, and *)
(* is over only when it holds none; at all times the holders of a table    *)
(* are compatible. How requests are queued and who is woken does not show. *)
(***************************************************************************)
CONSTANTS Txns, Tables, NoLock, LockShared, LockExclusive

VARIABLES
  held,    \* held[tbl][t]: the mode t holds tbl in, or NoLock
  phase    \* phase[t]: "growing" or "shrinking"

locking == <<held, phase>>

Holders == [Txns -> {LockShared, LockExclusive, NoLock}]

TogetherOn(H) == \A t, u \in Txns : t # u /\ H[t] = LockExclusive => H[u] = NoLock

\* From G to H no transaction but the members of out loses a lock, and only
\* growing ones gain one or change its mode.
Gains(G, H, out) ==
  \A t \in Txns \ out : H[t] # G[t] => H[t] # NoLock /\ phase[t] = "growing"

Start ==
  /\ held = [tbl \in Tables |-> [t \in Txns |-> NoLock]]
  /\ phase = [t \in Txns |-> "growing"]

Lock(tbl) ==
  /\ \E H \in Holders :
       /\ TogetherOn(H) /\ Gains(held[tbl], H, {})
       /\ held' = [held EXCEPT ![tbl] = H]
  /\ UNCHANGED phase

Shrink(t) ==
  /\ phase[t] = "growing"
  /\ phase' = [phase EXCEPT ![t] = "shrinking"]
  /\ UNCHANGED held

\* The lock that t gives up may go to others in the same step.
Unlock(t, tbl) ==
  /\ phase[t] = "shrinking" /\ held[tbl][t] # NoLock
  /\ \E H \in Holders :
       /\ H[t] = NoLock
       /\ TogetherOn(H) /\ Gains(held[tbl], H, {t})
       /\ held' = [held EXCEPT ![tbl] = H]
  /\ UNCHANGED phase

End(t) ==
  /\ phase[t] = "shrinking"
  /\ \A tbl \in Tables : held[tbl][t] = NoLock
  /\ phase' = [phase EXCEPT ![t] = "growing"]
  /\ UNCHANGED held

Progress ==
  \/ \E tbl \in Tables : Lock(tbl)
  \/ \E t \in Txns : Shrink(t) \/ End(t) \/ \E tbl \in Tables : Unlock(t, tbl)

TwoPhase == Start /\ [][Progress]_locking
=============================================================================
