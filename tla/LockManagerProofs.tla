------------------------- MODULE LockManagerProofs -------------------------
(***************************************************************************)
(* The lock table is safe for every set of transactions and of tables.     *)
(***************************************************************************)
EXTENDS LockManager, SequenceTheorems, TLAPS

Inv ==
  /\ TypeOK
  /\ QueuedOnce
  /\ Compatible
  /\ NoStalledHead
  /\ ReleaseAllComplete

LEMMA NoLockModes == NoLock \notin LockModes /\ LockShared # LockExclusive
BY DEF LockModes, NoLock, LockShared, LockExclusive

-----------------------------------------------------------------------------
(* What Release's loop grants *)

\* A queue without repetitions.
Distinct(ws) == \A i, j \in 1 .. Len(ws) : ws[i].txnID = ws[j].txnID => i = j

LEMMA WaiterFacts ==
  ASSUME NEW ws \in Seq(Waiter), NEW i \in 1 .. Len(ws)
  PROVE  ws[i].txnID \in Txns /\ ws[i].mode \in LockModes
<1>1. ws[i] \in Waiter
  OBVIOUS
<1> QED BY <1>1 DEF Waiter

\* The waiters granted hold what they asked for, the others what they held.
LEMMA HoldersAfterFacts ==
  ASSUME NEW H \in HolderMap, NEW ws \in Seq(Waiter), Distinct(ws), NEW n \in 0 .. Len(ws)
  PROVE  /\ HoldersAfter(H, ws, n) \in HolderMap
         /\ \A i \in 1 .. n : HoldersAfter(H, ws, n)[ws[i].txnID] = ws[i].mode
         /\ \A t \in Txns : (\A i \in 1 .. n : ws[i].txnID # t) => HoldersAfter(H, ws, n)[t] = H[t]
<1>1. ASSUME NEW i \in 1 .. n
      PROVE  HoldersAfter(H, ws, n)[ws[i].txnID] = ws[i].mode
  <2>1. i \in 1 .. Len(ws) /\ ws[i].txnID \in Txns
    BY WaiterFacts
  <2>2. HoldersAfter(H, ws, n)[ws[i].txnID]
          = ws[CHOOSE j \in 1 .. n : ws[j].txnID = ws[i].txnID].mode
    BY <2>1 DEF HoldersAfter
  <2>3. (CHOOSE j \in 1 .. n : ws[j].txnID = ws[i].txnID) = i
    <3>1. \E j \in 1 .. n : ws[j].txnID = ws[i].txnID
      OBVIOUS
    <3>2. \A j \in 1 .. n : ws[j].txnID = ws[i].txnID => j = i
      BY <2>1 DEF Distinct
    <3> QED BY <3>1, <3>2
  <2> QED BY <2>2, <2>3
<1>2. ASSUME NEW t \in Txns, \A i \in 1 .. n : ws[i].txnID # t
      PROVE  HoldersAfter(H, ws, n)[t] = H[t]
  BY <1>2 DEF HoldersAfter
<1>3. HoldersAfter(H, ws, n) \in HolderMap
  <2>1. \A t \in Txns : HoldersAfter(H, ws, n)[t] \in LockModes \cup {NoLock}
    <3> TAKE t \in Txns
    <3>1. CASE \A i \in 1 .. n : ws[i].txnID # t
      BY <3>1, <1>2 DEF HolderMap
    <3>2. ASSUME NEW i \in 1 .. n, ws[i].txnID = t
          PROVE  HoldersAfter(H, ws, n)[t] \in LockModes
      BY <3>2, <1>1, WaiterFacts
    <3> QED BY <3>1, <3>2
  <2> QED BY <2>1 DEF HoldersAfter, HolderMap
<1> QED BY <1>1, <1>2, <1>3

CompatibleMap(H) ==
  \A t, u \in Txns : t # u /\ H[t] = LockExclusive => H[u] = NoLock

\* The loop leaves compatible holders: an exclusive waiter is granted alone, and
\* shared ones only when no exclusive holder is left.
LEMMA GrantedCompatible ==
  ASSUME NEW H \in HolderMap, CompatibleMap(H),
         NEW ws \in Seq(Waiter), Distinct(ws), NEW n \in 0 .. Len(ws), LoopGrants(H, ws, n)
  PROVE  CompatibleMap(HoldersAfter(H, ws, n))
<1> DEFINE G(k) == HoldersAfter(H, ws, k)
<1>1. ASSUME NEW k \in 0 .. n
      PROVE  /\ \A i \in 1 .. k : G(k)[ws[i].txnID] = ws[i].mode
             /\ \A t \in Txns : (\A i \in 1 .. k : ws[i].txnID # t) => G(k)[t] = H[t]
  <2>1. k \in 0 .. Len(ws)
    OBVIOUS
  <2> QED BY <2>1, HoldersAfterFacts
<1>2. \A i \in 1 .. n : ws[i].txnID \in Txns /\ ws[i].mode \in LockModes
  BY WaiterFacts
<1>3. \A t \in Txns : G(0)[t] = H[t]
  BY <1>1
<1>4. \A i \in 1 .. n : canGrant(G(i - 1), ws[i].mode)
                       /\ \A j \in 1 .. (i - 1) : ws[j].mode # LockExclusive
  BY DEF LoopGrants
<1> HIDE DEF G
<1>5. CASE n = 0
  BY <1>3, <1>5 DEF CompatibleMap, G
<1>6. CASE n > 0 /\ ws[1].mode = LockExclusive
  <2>1. 1 \in 1 .. n /\ canGrant(G(0), LockExclusive)
    BY <1>4, <1>6
  <2>2. \A t \in Txns : H[t] = NoLock
    BY <2>1, <1>3, NoLockModes DEF canGrant
  <2>3. n = 1
    BY <1>4, <1>6
  <2>4. \A t \in Txns : t # ws[1].txnID => G(n)[t] = NoLock
    BY <2>2, <2>3, <1>1
  <2>5. \A t, u \in Txns : t # u /\ G(n)[t] = LockExclusive => G(n)[u] = NoLock
    BY <2>4 DEF NoLock, LockExclusive
  <2> QED BY <2>5 DEF CompatibleMap, G
<1>7. CASE n > 0 /\ ws[1].mode # LockExclusive
  <2>1. 1 \in 1 .. n /\ ws[1].mode = LockShared /\ ws[1].txnID \in Txns
    BY <1>2, <1>7 DEF LockModes
  <2>2. \A t \in Txns : H[t] # LockExclusive
    <3>1. canGrant(G(0), LockShared)
      BY <2>1, <1>4
    <3> QED BY <3>1, <1>3 DEF canGrant, NoLock, LockExclusive
  <2>3. ws[n].mode # LockExclusive
    <3>1. CASE n = 1
      BY <3>1, <1>7
    <3>2. CASE n > 1
      <4>1. n - 1 \in 0 .. n /\ 1 \in 1 .. (n - 1) /\ n \in 1 .. n
        BY <3>2
      <4>2. G(n - 1)[ws[1].txnID] = LockShared
        BY <4>1, <2>1, <1>1
      <4>3. canGrant(G(n - 1), ws[n].mode)
        BY <4>1, <1>4
      <4> QED BY <4>2, <4>3, <2>1, NoLockModes DEF canGrant, NoLock, LockShared, LockExclusive
    <3> QED BY <3>1, <3>2, <1>7
  <2>4. \A i \in 1 .. n : ws[i].mode # LockExclusive
    BY <2>3, <1>4, <1>7
  <2>5. \A t \in Txns : G(n)[t] # LockExclusive
    <3> TAKE t \in Txns
    <3>1. CASE \A i \in 1 .. n : ws[i].txnID # t
      BY <3>1, <2>2, <1>1
    <3>2. ASSUME NEW i \in 1 .. n, ws[i].txnID = t
          PROVE  G(n)[t] # LockExclusive
      BY <3>2, <2>4, <1>1
    <3> QED BY <3>1, <3>2
  <2> QED BY <2>5 DEF CompatibleMap, G
<1> QED BY <1>5, <1>6, <1>7

\* The waiter at which the loop stops cannot be granted beside the holders.
LEMMA StoppedHead ==
  ASSUME NEW H \in HolderMap,
         NEW ws \in Seq(Waiter), Distinct(ws), NEW n \in 0 .. Len(ws), n < Len(ws),
         LoopGrants(H, ws, n), ~LoopGrants(H, ws, n + 1)
  PROVE  ~canGrant(HoldersAfter(H, ws, n), ws[n + 1].mode)
<1>1. PICK i \in 1 .. n + 1 :
        ~(/\ canGrant(HoldersAfter(H, ws, i - 1), ws[i].mode)
          /\ \A j \in 1 .. (i - 1) : ws[j].mode # LockExclusive)
  BY DEF LoopGrants
<1>2. i = n + 1
  BY <1>1 DEF LoopGrants
<1>3. CASE ~canGrant(HoldersAfter(H, ws, n), ws[n + 1].mode)
  BY <1>3
<1>4. ASSUME NEW j \in 1 .. n, ws[j].mode = LockExclusive
      PROVE  ~canGrant(HoldersAfter(H, ws, n), ws[n + 1].mode)
  <2>1. j \in 1 .. Len(ws) /\ ws[j].txnID \in Txns
    BY WaiterFacts
  <2>2. HoldersAfter(H, ws, n)[ws[j].txnID] = LockExclusive
    BY <1>4, HoldersAfterFacts
  <2> QED BY <2>1, <2>2 DEF canGrant, NoLock, LockExclusive
<1>5. i - 1 = n
  BY <1>2
<1> QED BY <1>1, <1>2, <1>3, <1>4, <1>5
-----------------------------------------------------------------------------
(* The steps *)

LEMMA InitInv == Init => Inv
<1> SUFFICES ASSUME Init PROVE Inv
  OBVIOUS
<1>1. TypeOK
  BY DEF Init, TypeOK, HolderMap
<1>2. QueuedOnce /\ Compatible /\ NoStalledHead /\ ReleaseAllComplete
  BY DEF Init, QueuedOnce, Compatible, NoStalledHead, ReleaseAllComplete, NoLock, LockExclusive
<1> QED BY <1>1, <1>2 DEF Inv

LEMMA QueueFacts ==
  ASSUME Inv, NEW tbl \in Tables
  PROVE  /\ holders[tbl] \in HolderMap /\ CompatibleMap(holders[tbl])
         /\ waiters[tbl] \in Seq(Waiter) /\ Distinct(waiters[tbl])
<1>1. holders[tbl] \in HolderMap /\ waiters[tbl] \in Seq(Waiter)
  BY DEF Inv, TypeOK
<1>2. CompatibleMap(holders[tbl])
  BY DEF Inv, Compatible, CompatibleMap
<1>3. Distinct(waiters[tbl])
  BY DEF Inv, QueuedOnce, Distinct
<1> QED BY <1>1, <1>2, <1>3

LEMMA AcquireGrantedInv ==
  ASSUME Inv, NEW t \in Txns, NEW tbl \in Tables, NEW mode \in LockModes,
         AcquireGranted(t, tbl, mode)
  PROVE  Inv'
<1> DEFINE H == holders[tbl]
<1>1. H \in HolderMap /\ canGrant(H, mode)
  BY QueueFacts DEF AcquireGranted
<1>2. /\ holders' = [holders EXCEPT ![tbl] = [H EXCEPT ![t] = mode]]
      /\ [H EXCEPT ![t] = mode] \in HolderMap
  BY <1>1 DEF AcquireGranted, HolderMap
<1>3. TypeOK'
  BY <1>2 DEF Inv, TypeOK, AcquireGranted
<1>4. QueuedOnce'
  BY DEF Inv, QueuedOnce, AcquireGranted
<1>5. Compatible'
  <2> SUFFICES ASSUME NEW x \in Txns, NEW y \in Txns, x # y,
                      [H EXCEPT ![t] = mode][x] = LockExclusive
               PROVE  [H EXCEPT ![t] = mode][y] = NoLock
    BY <1>2 DEF Inv, TypeOK, Compatible
  <2>1. CASE \A u \in Txns : H[u] = NoLock
    BY <2>1, <1>1 DEF HolderMap, NoLock, LockExclusive
  <2>2. CASE mode = LockShared /\ \A u \in Txns : H[u] # LockExclusive
    BY <2>2, <1>1 DEF HolderMap, LockShared, LockExclusive
  <2> QED BY <2>1, <2>2, <1>1 DEF canGrant
<1>6. NoStalledHead'
  <2> SUFFICES ASSUME waiters[tbl] # <<>>
               PROVE  ~canGrant([H EXCEPT ![t] = mode], waiters[tbl][1].mode)
    BY <1>2 DEF Inv, TypeOK, NoStalledHead, AcquireGranted
  <2>1. ~canGrant(H, waiters[tbl][1].mode)
    BY DEF Inv, NoStalledHead
  <2>2. mode = LockShared /\ (\A u \in Txns : H[u] # LockExclusive)
        /\ waiters[tbl][1].mode # LockShared
    BY <2>1, <1>1 DEF canGrant
  <2>3. [H EXCEPT ![t] = mode][t] # NoLock
    BY <1>1, <2>2 DEF HolderMap, LockShared, NoLock
  <2> QED BY <2>2, <2>3 DEF canGrant
<1>7. ReleaseAllComplete'
  <2> SUFFICES ASSUME NEW x \in Txns, status[x] = "releasing", NEW tab \in Tables
               PROVE  holders'[tab][x] = holders[tab][x]
    BY DEF Inv, ReleaseAllComplete, AcquireGranted
  <2>1. x # t
    BY DEF AcquireGranted
  <2> QED BY <2>1, <1>1, <1>2 DEF Inv, TypeOK, HolderMap
<1> QED BY <1>3, <1>4, <1>5, <1>6, <1>7 DEF Inv

LEMMA AcquireBlockedInv ==
  ASSUME Inv, NEW t \in Txns, NEW tbl \in Tables, NEW mode \in LockModes,
         AcquireBlocked(t, tbl, mode)
  PROVE  Inv'
<1> DEFINE ws == waiters[tbl]
           w == [txnID |-> t, mode |-> mode]
           ws2 == Append(ws, w)
<1>1. ws \in Seq(Waiter) /\ w \in Waiter /\ w.txnID = t /\ w.mode = mode
  BY QueueFacts DEF Waiter
<1>2. /\ ws2 \in Seq(Waiter)
      /\ Len(ws) \in Nat /\ Len(ws2) = Len(ws) + 1
      /\ ws2[Len(ws) + 1] = w
      /\ \A i \in 1 .. Len(ws) : ws2[i] = ws[i]
  <2> HIDE DEF w
  <2> QED BY <1>1, AppendProperties
<1>3. waiters' = [waiters EXCEPT ![tbl] = ws2]
  BY DEF AcquireBlocked
<1>4. /\ waiters'[tbl] = ws2
      /\ \A tab \in Tables : tab # tbl => waiters'[tab] = waiters[tab]
  BY <1>3 DEF Inv, TypeOK
<1>5. status' \in [Txns -> {"running", "blocked", "releasing"}]
      /\ status'[t] = "blocked" /\ \A x \in Txns : x # t => status'[x] = status[x]
  BY DEF Inv, TypeOK, AcquireBlocked
<1> HIDE DEF w, ws2
<1>6. TypeOK'
  BY <1>2, <1>3, <1>5 DEF Inv, TypeOK, AcquireBlocked
<1>7. \A tab \in Tables : \A i \in 1 .. Len(waiters[tab]) :
        /\ waiters[tab][i].txnID \in Txns
        /\ status[waiters[tab][i].txnID] = "blocked"
        /\ waiters[tab][i].txnID # t
  BY QueueFacts, WaiterFacts DEF Inv, QueuedOnce, AcquireBlocked
<1>8. QueuedOnce'
  <2>1. \A tab \in Tables : \A i \in 1 .. Len(waiters'[tab]) :
          status'[waiters'[tab][i].txnID] = "blocked"
    BY <1>1, <1>2, <1>4, <1>5, <1>7
  <2>2. \A tab1, tab2 \in Tables :
          \A i \in 1 .. Len(waiters'[tab1]), j \in 1 .. Len(waiters'[tab2]) :
            waiters'[tab1][i].txnID = waiters'[tab2][j].txnID => tab1 = tab2 /\ i = j
    <3>1. ASSUME NEW tab \in Tables, NEW i \in 1 .. Len(waiters'[tab])
          PROVE  \/ tab = tbl /\ i = Len(ws) + 1 /\ waiters'[tab][i].txnID = t
                 \/ /\ i \in 1 .. Len(waiters[tab])
                    /\ waiters'[tab][i].txnID = waiters[tab][i].txnID
                    /\ waiters[tab][i].txnID # t
      <4>1. CASE tab = tbl
        BY <4>1, <1>1, <1>2, <1>4, <1>7
      <4>2. CASE tab # tbl
        BY <4>2, <1>4, <1>7
      <4> QED BY <4>1, <4>2
    <3> TAKE tab1, tab2 \in Tables
    <3> TAKE i \in 1 .. Len(waiters'[tab1]), j \in 1 .. Len(waiters'[tab2])
    <3>2. \/ tab1 = tbl /\ i = Len(ws) + 1 /\ waiters'[tab1][i].txnID = t
          \/ /\ i \in 1 .. Len(waiters[tab1])
             /\ waiters'[tab1][i].txnID = waiters[tab1][i].txnID
             /\ waiters[tab1][i].txnID # t
      BY <3>1
    <3>3. \/ tab2 = tbl /\ j = Len(ws) + 1 /\ waiters'[tab2][j].txnID = t
          \/ /\ j \in 1 .. Len(waiters[tab2])
             /\ waiters'[tab2][j].txnID = waiters[tab2][j].txnID
             /\ waiters[tab2][j].txnID # t
      BY <3>1
    <3>4. i \in 1 .. Len(waiters[tab1]) /\ j \in 1 .. Len(waiters[tab2])
            /\ waiters[tab1][i].txnID = waiters[tab2][j].txnID => tab1 = tab2 /\ i = j
      BY DEF Inv, QueuedOnce
    <3> QED BY <3>2, <3>3, <3>4
  <2> QED BY <2>1, <2>2 DEF QueuedOnce
<1>9. Compatible'
  BY DEF Inv, Compatible, AcquireBlocked
<1>10. NoStalledHead'
  <2> SUFFICES ~canGrant(holders[tbl], ws2[1].mode)
    BY <1>4 DEF Inv, NoStalledHead, AcquireBlocked
  <2>1. CASE ws = <<>>
    BY <2>1, <1>1, <1>2 DEF AcquireBlocked
  <2>2. CASE ws # <<>>
    <3>1. 1 \in 1 .. Len(ws)
      BY <2>2, <1>1
    <3> QED BY <3>1, <2>2, <1>2 DEF Inv, NoStalledHead
  <2> QED BY <2>1, <2>2
<1>11. ReleaseAllComplete'
  BY <1>5 DEF Inv, ReleaseAllComplete, AcquireBlocked
<1> QED BY <1>6, <1>8, <1>9, <1>10, <1>11 DEF Inv

LEMMA CollectInv == ASSUME Inv, NEW t \in Txns, ReleaseAllCollect(t) PROVE Inv'
<1>1. /\ status' \in [Txns -> {"running", "blocked", "releasing"}]
      /\ tables' \in [Txns -> SUBSET Tables]
      /\ tables'[t] = {tab \in Tables : holders[tab][t] # NoLock}
      /\ \A x \in Txns : x # t => status'[x] = status[x] /\ tables'[x] = tables[x]
  BY DEF Inv, TypeOK, ReleaseAllCollect
<1>2. \A tab \in Tables : \A i \in 1 .. Len(waiters[tab]) :
        waiters[tab][i].txnID \in Txns /\ waiters[tab][i].txnID # t
  BY QueueFacts, WaiterFacts DEF Inv, QueuedOnce, ReleaseAllCollect
<1>3. TypeOK'
  BY <1>1 DEF Inv, TypeOK, ReleaseAllCollect
<1>4. QueuedOnce'
  BY <1>1, <1>2 DEF Inv, QueuedOnce, ReleaseAllCollect
<1>5. Compatible' /\ NoStalledHead'
  BY DEF Inv, Compatible, NoStalledHead, ReleaseAllCollect
<1>6. ReleaseAllComplete'
  BY <1>1 DEF Inv, ReleaseAllComplete, ReleaseAllCollect
<1> QED BY <1>3, <1>4, <1>5, <1>6 DEF Inv

LEMMA ReturnInv == ASSUME Inv, NEW t \in Txns, ReleaseAllReturn(t) PROVE Inv'
<1>1. /\ status' \in [Txns -> {"running", "blocked", "releasing"}]
      /\ status'[t] = "running"
      /\ \A x \in Txns : x # t => status'[x] = status[x]
  BY DEF Inv, TypeOK, ReleaseAllReturn
<1>2. \A tab \in Tables : \A i \in 1 .. Len(waiters[tab]) :
        waiters[tab][i].txnID \in Txns /\ waiters[tab][i].txnID # t
  BY QueueFacts, WaiterFacts DEF Inv, QueuedOnce, ReleaseAllReturn
<1>3. TypeOK'
  BY <1>1 DEF Inv, TypeOK, ReleaseAllReturn
<1>4. QueuedOnce'
  BY <1>1, <1>2 DEF Inv, QueuedOnce, ReleaseAllReturn
<1>5. Compatible' /\ NoStalledHead'
  BY DEF Inv, Compatible, NoStalledHead, ReleaseAllReturn
<1>6. ReleaseAllComplete'
  BY <1>1 DEF Inv, ReleaseAllComplete, ReleaseAllReturn
<1> QED BY <1>3, <1>4, <1>5, <1>6 DEF Inv

\* What a Release step does when H is the holder map without t and n waiters are
\* granted.
Released(t, tbl, n, H) ==
  /\ H[t] = NoLock /\ \A x \in Txns : x # t => H[x] = holders[tbl][x]
  /\ CompatibleMap(H)
  /\ LoopGrants(H, waiters[tbl], n)
  /\ n < Len(waiters[tbl]) => ~LoopGrants(H, waiters[tbl], n + 1)
  /\ holders'[tbl] = HoldersAfter(H, waiters[tbl], n)
  /\ \A tab \in Tables : tab # tbl => holders'[tab] = holders[tab] /\ waiters'[tab] = waiters[tab]
  /\ holders' \in [Tables -> HolderMap]
  /\ waiters' \in [Tables -> Seq(Waiter)]
  /\ Len(waiters'[tbl]) = Len(waiters[tbl]) - n
  /\ \A i \in 1 .. Len(waiters[tbl]) - n : waiters'[tbl][i] = waiters[tbl][i + n]
  /\ status' = [u \in Txns |-> IF \E i \in 1 .. n : waiters[tbl][i].txnID = u
                               THEN "running" ELSE status[u]]
  /\ tables' = [tables EXCEPT ![t] = @ \ {tbl}]

LEMMA ReleaseFacts ==
  ASSUME Inv, NEW t \in Txns, NEW tbl \in Tables, Release(t, tbl)
  PROVE  \E n \in 0 .. Len(waiters[tbl]), H \in HolderMap : Released(t, tbl, n, H)
<1> DEFINE H == [holders[tbl] EXCEPT ![t] = NoLock]
           ws == waiters[tbl]
<1>1. holders[tbl] \in HolderMap /\ CompatibleMap(holders[tbl])
      /\ ws \in Seq(Waiter) /\ Distinct(ws)
  BY QueueFacts
<1>2. H \in HolderMap /\ H[t] = NoLock /\ \A x \in Txns : x # t => H[x] = holders[tbl][x]
  BY <1>1 DEF HolderMap
<1>3. CompatibleMap(H)
  BY <1>1, <1>2 DEF CompatibleMap, NoLock, LockExclusive
<1>4. PICK n \in 0 .. Len(ws) :
          /\ LoopGrants(H, ws, n)
          /\ n < Len(ws) => ~LoopGrants(H, ws, n + 1)
          /\ holders' = [holders EXCEPT ![tbl] = HoldersAfter(H, ws, n)]
          /\ waiters' = [waiters EXCEPT ![tbl] = SubSeq(ws, n + 1, Len(ws))]
          /\ status' = [u \in Txns |-> IF \E i \in 1 .. n : ws[i].txnID = u
                                       THEN "running" ELSE status[u]]
  BY DEF Release
<1>5. tables' = [tables EXCEPT ![t] = @ \ {tbl}]
  BY DEF Release
<1>6. HoldersAfter(H, ws, n) \in HolderMap
  BY <1>1, <1>2, HoldersAfterFacts
<1>7. /\ SubSeq(ws, n + 1, Len(ws)) \in Seq(Waiter)
      /\ Len(SubSeq(ws, n + 1, Len(ws))) = Len(ws) - n
      /\ \A i \in 1 .. Len(ws) - n : SubSeq(ws, n + 1, Len(ws))[i] = ws[i + n]
  <2> DEFINE a == n + 1
             b == Len(ws)
  <2>1. a \in Int /\ b \in Int /\ b \in Nat /\ \A i \in a .. b : ws[i] \in Waiter
    BY <1>1
  <2>2. /\ SubSeq(ws, a, b) \in Seq(Waiter)
        /\ Len(SubSeq(ws, a, b)) = IF a <= b THEN b - a + 1 ELSE 0
        /\ \A i \in 1 .. b - a + 1 : SubSeq(ws, a, b)[i] = ws[a + i - 1]
    <3> HIDE DEF a, b, ws
    <3> QED BY <2>1, SubSeqProperties
  <2>3. b - a + 1 = Len(ws) - n /\ (a <= b \/ Len(ws) - n = 0)
        /\ \A i \in 1 .. Len(ws) - n : a + i - 1 = i + n
    BY <2>1
  <2> HIDE DEF ws
  <2> QED BY <2>2, <2>3
<1>8. /\ holders'[tbl] = HoldersAfter(H, ws, n)
      /\ waiters'[tbl] = SubSeq(ws, n + 1, Len(ws))
      /\ \A tab \in Tables : tab # tbl => holders'[tab] = holders[tab] /\ waiters'[tab] = waiters[tab]
      /\ holders' \in [Tables -> HolderMap]
      /\ waiters' \in [Tables -> Seq(Waiter)]
  <2> HIDE DEF H, ws
  <2> QED BY <1>4, <1>6, <1>7 DEF Inv, TypeOK
<1>9. Released(t, tbl, n, H)
  <2> HIDE DEF H
  <2> QED BY <1>2, <1>3, <1>4, <1>5, <1>7, <1>8 DEF Released
<1> QED BY <1>2, <1>9

\* Releasing a table preserves the invariant.
LEMMA ReleaseInv == ASSUME Inv, NEW t \in Txns, NEW tbl \in Tables, Release(t, tbl) PROVE Inv'
<1> DEFINE ws == waiters[tbl]
<1>0. PICK n \in 0 .. Len(waiters[tbl]), H \in HolderMap : Released(t, tbl, n, H)
  BY ReleaseFacts
<1>1. /\ n \in 0 .. Len(ws)
      /\ H[t] = NoLock /\ \A x \in Txns : x # t => H[x] = holders[tbl][x]
      /\ CompatibleMap(H)
      /\ LoopGrants(H, ws, n)
      /\ n < Len(ws) => ~LoopGrants(H, ws, n + 1)
      /\ holders'[tbl] = HoldersAfter(H, ws, n)
      /\ \A tab \in Tables : tab # tbl => /\ holders'[tab] = holders[tab]
                                         /\ waiters'[tab] = waiters[tab]
      /\ holders' \in [Tables -> HolderMap]
      /\ waiters' \in [Tables -> Seq(Waiter)]
      /\ Len(waiters'[tbl]) = Len(ws) - n
      /\ \A i \in 1 .. Len(ws) - n : waiters'[tbl][i] = ws[i + n]
      /\ status' = [u \in Txns |-> IF \E i \in 1 .. n : ws[i].txnID = u
                                   THEN "running" ELSE status[u]]
      /\ tables' = [tables EXCEPT ![t] = @ \ {tbl}]
  BY <1>0 DEF Released
<1>2. ws \in Seq(Waiter) /\ Distinct(ws) /\ Len(ws) \in Nat
  <2>1. ws \in Seq(Waiter) /\ Distinct(ws)
    BY QueueFacts
  <2> HIDE DEF ws
  <2> QED BY <2>1
<1>3. TypeOK'
  <2>1. status' \in [Txns -> {"running", "blocked", "releasing"}]
    BY <1>1 DEF Inv, TypeOK
  <2>2. tables' \in [Txns -> SUBSET Tables]
    BY <1>1 DEF Inv, TypeOK
  <2> QED BY <1>1, <2>1, <2>2 DEF TypeOK
<1>4. \A x \in Txns : (\A i \in 1 .. n : ws[i].txnID # x) =>
        status'[x] = status[x] /\ holders'[tbl][x] = H[x]
  <2>1. \A x \in Txns : (\A i \in 1 .. n : ws[i].txnID # x) => holders'[tbl][x] = H[x]
    <3>1. \A x \in Txns : (\A i \in 1 .. n : ws[i].txnID # x) => HoldersAfter(H, ws, n)[x] = H[x]
      <4> HIDE DEF ws
      <4> QED BY <1>1, <1>2, HoldersAfterFacts
    <3> QED BY <3>1, <1>1
  <2>2. \A x \in Txns : (\A i \in 1 .. n : ws[i].txnID # x) => status'[x] = status[x]
    BY <1>1
  <2> QED BY <2>1, <2>2
<1>5. \A i \in 1 .. Len(ws) : ws[i].txnID \in Txns /\ status[ws[i].txnID] = "blocked"
  BY <1>2, WaiterFacts DEF Inv, QueuedOnce
<1>6. ASSUME NEW tab \in Tables, NEW i \in 1 .. Len(waiters'[tab])
      PROVE  \E k \in 1 .. Len(waiters[tab]) :
               /\ waiters'[tab][i] = waiters[tab][k]
               /\ tab = tbl => k = i + n
               /\ tab # tbl => k = i
  <2>1. CASE tab = tbl
    <3>1. i \in 1 .. Len(ws) - n /\ i + n \in 1 .. Len(ws)
      BY <1>1, <1>2, <2>1
    <3> QED BY <1>1, <2>1, <3>1
  <2>2. CASE tab # tbl
    BY <1>1, <2>2
  <2> QED BY <2>1, <2>2
<1>7. QueuedOnce'
  <2>1. ASSUME NEW tab \in Tables, NEW i \in 1 .. Len(waiters'[tab])
        PROVE  status'[waiters'[tab][i].txnID] = "blocked"
    <3>1. PICK k \in 1 .. Len(waiters[tab]) :
               /\ waiters'[tab][i] = waiters[tab][k]
               /\ tab = tbl => k = i + n
      BY <1>6
    <3>2. waiters[tab][k].txnID \in Txns /\ status[waiters[tab][k].txnID] = "blocked"
      <4>1. waiters[tab] \in Seq(Waiter)
        BY QueueFacts
      <4> QED BY <4>1, WaiterFacts DEF Inv, QueuedOnce
    <3>3. \A m \in 1 .. n : ws[m].txnID # waiters[tab][k].txnID
      <4> TAKE m \in 1 .. n
      <4>1. m \in 1 .. Len(ws) /\ i > 0 /\ i \in Int
        BY <1>2, <2>1
      <4>2. ws[m].txnID = waiters[tab][k].txnID => tbl = tab /\ m = k
        BY <4>1 DEF Inv, QueuedOnce
      <4> QED BY <4>1, <4>2, <3>1
    <3> QED BY <3>1, <3>2, <3>3, <1>4
  <2>2. ASSUME NEW tab1 \in Tables, NEW tab2 \in Tables,
               NEW i \in 1 .. Len(waiters'[tab1]), NEW j \in 1 .. Len(waiters'[tab2]),
               waiters'[tab1][i].txnID = waiters'[tab2][j].txnID
        PROVE  tab1 = tab2 /\ i = j
    <3>1. PICK k \in 1 .. Len(waiters[tab1]) :
               /\ waiters'[tab1][i] = waiters[tab1][k]
               /\ tab1 = tbl => k = i + n
               /\ tab1 # tbl => k = i
      BY <1>6
    <3>2. PICK m \in 1 .. Len(waiters[tab2]) :
               /\ waiters'[tab2][j] = waiters[tab2][m]
               /\ tab2 = tbl => m = j + n
               /\ tab2 # tbl => m = j
      BY <1>6
    <3>3. tab1 = tab2 /\ k = m
      BY <3>1, <3>2, <2>2 DEF Inv, QueuedOnce
    <3>4. i \in Int /\ j \in Int
      BY <2>2
    <3> QED BY <3>1, <3>2, <3>3, <3>4
  <2> QED BY <2>1, <2>2 DEF QueuedOnce
<1>8. Compatible'
  <2>1. CompatibleMap(holders'[tbl])
    <3>1. CompatibleMap(HoldersAfter(H, ws, n))
      BY <1>1, <1>2, GrantedCompatible
    <3> QED BY <3>1, <1>1
  <2>2. \A tab \in Tables : CompatibleMap(holders'[tab])
    <3> TAKE tab \in Tables
    <3>1. CASE tab = tbl
      BY <3>1, <2>1
    <3>2. CASE tab # tbl
      BY <3>2, <1>1, QueueFacts
    <3> QED BY <3>1, <3>2
  <2> QED BY <2>2 DEF Compatible, CompatibleMap
<1>9. NoStalledHead'
  <2> SUFFICES ASSUME NEW tab \in Tables, waiters'[tab] # <<>>
               PROVE  ~canGrant(holders'[tab], waiters'[tab][1].mode)
    BY DEF NoStalledHead, canGrant
  <2>1. CASE tab # tbl
    BY <1>1, <2>1 DEF Inv, NoStalledHead
  <2>2. CASE tab = tbl
    <3>1. n < Len(ws)
      <4>1. waiters'[tbl] \in Seq(Waiter) /\ Len(waiters'[tbl]) # 0
        BY <1>1, <2>2, EmptySeq
      <4> QED BY <4>1, <1>1, <1>2
    <3>2. 1 \in 1 .. Len(ws) - n /\ 1 + n = n + 1
      BY <3>1, <1>2
    <3>3. waiters'[tbl][1] = ws[n + 1]
      BY <3>2, <1>1
    <3>4. ~canGrant(HoldersAfter(H, ws, n), ws[n + 1].mode)
      BY <1>1, <1>2, <3>1, StoppedHead
    <3> QED BY <1>1, <2>2, <3>3, <3>4
  <2> QED BY <2>1, <2>2
<1>10. ReleaseAllComplete'
  <2> SUFFICES ASSUME NEW x \in Txns, status'[x] = "releasing", NEW tab \in Tables
               PROVE  holders'[tab][x] # NoLock <=> tab \in tables'[x]
    BY DEF ReleaseAllComplete
  <2>1. \A i \in 1 .. n : ws[i].txnID # x
    BY <1>1
  <2>2. status[x] = "releasing" /\ holders'[tbl][x] = H[x]
    BY <2>1, <1>4
  <2>3. holders[tab][x] # NoLock <=> tab \in tables[x]
    BY <2>2 DEF Inv, ReleaseAllComplete
  <2>4. tables'[x] = IF x = t THEN tables[x] \ {tbl} ELSE tables[x]
    BY <1>1 DEF Inv, TypeOK
  <2> QED BY <1>1, <2>2, <2>3, <2>4
<1> QED BY <1>3, <1>7, <1>8, <1>9, <1>10 DEF Inv

LEMMA NextInv == Inv /\ [Next]_vars => Inv'
<1> SUFFICES ASSUME Inv, [Next]_vars PROVE Inv'
  OBVIOUS
<1>1. CASE UNCHANGED vars
  BY <1>1 DEF vars, Inv, TypeOK, QueuedOnce, Compatible, NoStalledHead, ReleaseAllComplete, canGrant
<1>2. CASE Next
  <2>1. PICK t \in Txns :
          \/ \E tbl \in Tables, mode \in LockModes : Acquire(t, tbl, mode)
          \/ ReleaseAllCollect(t)
          \/ \E tbl \in Tables : Release(t, tbl)
          \/ ReleaseAllReturn(t)
    BY <1>2 DEF Next
  <2>2. CASE \E tbl \in Tables, mode \in LockModes : Acquire(t, tbl, mode)
    BY <2>2, AcquireGrantedInv, AcquireBlockedInv DEF Acquire
  <2>3. CASE ReleaseAllCollect(t)
    BY <2>3, CollectInv
  <2>4. CASE \E tbl \in Tables : Release(t, tbl)
    BY <2>4, ReleaseInv
  <2>5. CASE ReleaseAllReturn(t)
    BY <2>5, ReturnInv
  <2> QED BY <2>1, <2>2, <2>3, <2>4, <2>5
<1> QED BY <1>1, <1>2

-----------------------------------------------------------------------------
(* The theorems *)

\* The inductive invariant holds in every reachable state.
THEOREM LockTableInvariant == Spec => []Inv
BY InitInv, NextInv, PTL DEF Spec

\* The types of all variables hold in every reachable state.
THEOREM LockTableTyped == Spec => []TypeOK
<1>1. Inv => TypeOK
  BY DEF Inv
<1> QED BY <1>1, LockTableInvariant, PTL

\* No two transactions ever hold a table in incompatible modes, whatever the
\* order in which Acquire grants and Release wakes.
THEOREM LocksCompatible == Spec => []Compatible
<1>1. Inv => Compatible
  BY DEF Inv
<1> QED BY <1>1, LockTableInvariant, PTL

\* Release never leaves asleep a first waiter that could have its lock.
THEOREM NoLostWakeup == Spec => []NoStalledHead
<1>1. Inv => NoStalledHead
  BY DEF Inv
<1> QED BY <1>1, LockTableInvariant, PTL

\* A blocked caller of Acquire is queued exactly once.
THEOREM BlockedQueuedOnce == Spec => []QueuedOnce
<1>1. Inv => QueuedOnce
  BY DEF Inv
<1> QED BY <1>1, LockTableInvariant, PTL

\* ReleaseAll leaves no lock behind although it gives the mutex up between
\* collecting and releasing.
THEOREM NothingLeftLocked == Spec => []ReleaseAllComplete
<1>1. Inv => ReleaseAllComplete
  BY DEF Inv
<1> QED BY <1>1, LockTableInvariant, PTL

-----------------------------------------------------------------------------
(* Deadlocks persist *)

\* An edge of the wait-for graph between two blocked transactions outlives every
\* step. Only the Release of a third holder v could remove it, by granting the
\* head of the queue; u still holds the table, so that head is shared and v was
\* an exclusive holder beside u.
LEMMA EdgePersists ==
  ASSUME Inv, Next, NEW t \in Txns, NEW u \in Txns, status[t] = "blocked", status[u] = "blocked",
         NEW tab \in Tables, NEW i \in 1 .. Len(waiters[tab]), waiters[tab][i].txnID = t,
         holders[tab][u] # NoLock
  PROVE  /\ holders'[tab][u] # NoLock
         /\ \E j \in 1 .. Len(waiters'[tab]) : waiters'[tab][j].txnID = t
<1>1. ASSUME NEW v \in Txns, NEW tbl \in Tables, NEW mode \in LockModes, AcquireGranted(v, tbl, mode)
      PROVE  /\ holders'[tab][u] # NoLock
             /\ \E j \in 1 .. Len(waiters'[tab]) : waiters'[tab][j].txnID = t
  <2>1. v # u /\ waiters' = waiters
    BY <1>1 DEF AcquireGranted
  <2>2. holders' = [holders EXCEPT ![tbl] = [holders[tbl] EXCEPT ![v] = mode]]
    BY <1>1 DEF AcquireGranted
  <2>3. holders'[tab][u] = holders[tab][u]
    BY <2>1, <2>2 DEF Inv, TypeOK, HolderMap
  <2> QED BY <2>1, <2>3
<1>2. ASSUME NEW v \in Txns, NEW tbl \in Tables, NEW mode \in LockModes, AcquireBlocked(v, tbl, mode)
      PROVE  /\ holders'[tab][u] # NoLock
             /\ \E j \in 1 .. Len(waiters'[tab]) : waiters'[tab][j].txnID = t
  <2> DEFINE ws == waiters[tbl]
             w == [txnID |-> v, mode |-> mode]
  <2>1. ws \in Seq(Waiter) /\ w \in Waiter
    BY QueueFacts DEF Waiter
  <2>2. Len(Append(ws, w)) = Len(ws) + 1 /\ \A j \in 1 .. Len(ws) : Append(ws, w)[j] = ws[j]
    <3> HIDE DEF w
    <3> QED BY <2>1, AppendProperties
  <2>3. holders' = holders /\ waiters' = [waiters EXCEPT ![tbl] = Append(ws, w)]
    BY <1>2 DEF AcquireBlocked
  <2>4. CASE tab = tbl
    <3>1. waiters'[tab] = Append(ws, w) /\ i \in 1 .. Len(ws) /\ ws[i].txnID = t
      BY <2>3, <2>4 DEF Inv, TypeOK
    <3>2. i \in 1 .. Len(ws) + 1 /\ Append(ws, w)[i] = ws[i]
      <4> HIDE DEF w
      <4> QED BY <3>1, <2>1, <2>2
    <3> HIDE DEF w
    <3> QED BY <2>2, <2>3, <3>1, <3>2
  <2>5. CASE tab # tbl
    <3>1. waiters'[tab] = waiters[tab]
      BY <2>3, <2>5 DEF Inv, TypeOK
    <3> QED BY <2>3, <3>1
  <2> QED BY <2>4, <2>5
<1>3. ASSUME NEW v \in Txns, NEW tbl \in Tables, Release(v, tbl)
      PROVE  /\ holders'[tab][u] # NoLock
             /\ \E j \in 1 .. Len(waiters'[tab]) : waiters'[tab][j].txnID = t
  <2> DEFINE ws == waiters[tbl]
  <2>1. PICK n \in 0 .. Len(waiters[tbl]), H \in HolderMap : Released(v, tbl, n, H)
    BY <1>3, ReleaseFacts
  <2>2. v # u
    BY <1>3 DEF Release
  <2>3. CASE tab # tbl
    BY <2>1, <2>3 DEF Released
  <2>4. CASE tab = tbl
    <3>1. ws \in Seq(Waiter) /\ Distinct(ws) /\ 0 \in 0 .. Len(ws)
      BY QueueFacts, <2>4
    <3>2. \A x \in Txns : HoldersAfter(H, ws, 0)[x] = H[x]
      <4> HIDE DEF ws
      <4> QED BY <3>1, HoldersAfterFacts
    <3>3. H[u] # NoLock
      BY <2>1, <2>2, <2>4 DEF Released
    <3>4. n = 0
      <4> SUFFICES ASSUME n # 0 PROVE FALSE
        OBVIOUS
      <4>1. canGrant(HoldersAfter(H, ws, 0), ws[1].mode)
        <5>1. LoopGrants(H, ws, n) /\ 1 \in 1 .. n /\ 1 - 1 = 0
          BY <2>1 DEF Released
        <5> QED BY <5>1 DEF LoopGrants
      <4>2. ws[1].mode = LockShared /\ \A x \in Txns : H[x] # LockExclusive
        BY <4>1, <3>2, <3>3 DEF canGrant
      <4>3. ~canGrant(holders[tbl], ws[1].mode)
        <5>1. ws # <<>>
          BY <2>4
        <5> QED BY <5>1 DEF Inv, NoStalledHead
      <4>4. PICK x \in Txns : holders[tbl][x] = LockExclusive
        BY <4>2, <4>3 DEF canGrant
      <4>5. x = v
        BY <4>2, <4>4, <2>1 DEF Released
      <4> QED BY <4>4, <4>5, <2>2, <2>4 DEF Inv, Compatible
    <3>5. holders'[tab][u] = H[u]
      BY <2>1, <2>4, <3>2, <3>4 DEF Released
    <3>6. i \in 1 .. Len(waiters'[tab]) /\ waiters'[tab][i] = waiters[tab][i]
      <4>1. i \in 1 .. Len(ws) /\ Len(ws) - 0 = Len(ws) /\ i + 0 = i /\ Len(ws) \in Nat
        <5> HIDE DEF ws
        <5>1. i \in 1 .. Len(ws)
          BY <2>4 DEF ws
        <5> QED BY <5>1, <3>1
      <4>2. Len(waiters'[tbl]) = Len(ws) - 0 /\ \A j \in 1 .. Len(ws) - 0 : waiters'[tbl][j] = ws[j + 0]
        BY <2>1, <3>4 DEF Released
      <4> QED BY <4>1, <4>2, <2>4
    <3> QED BY <3>3, <3>5, <3>6
  <2> QED BY <2>3, <2>4
<1>4. ASSUME NEW v \in Txns, ReleaseAllCollect(v) \/ ReleaseAllReturn(v)
      PROVE  /\ holders'[tab][u] # NoLock
             /\ \E j \in 1 .. Len(waiters'[tab]) : waiters'[tab][j].txnID = t
  BY <1>4 DEF ReleaseAllCollect, ReleaseAllReturn
<1> QED BY <1>1, <1>2, <1>3, <1>4 DEF Next, Acquire

\* A deadlock in the wait-for graph that detectDeadlock builds does not resolve
\* itself, for any number of transactions and tables.
THEOREM DeadlocksPersist == Spec => DeadlockPersists
<1>1. ASSUME Inv, [Next]_vars, NEW S \in SUBSET Txns, Deadlocked(S) PROVE Deadlocked(S)'
  <2>1. CASE UNCHANGED vars
    BY <1>1, <2>1 DEF vars, Deadlocked, waitFor
  <2>2. CASE Next
    <3>1. S # {} /\ \A t \in S : \E u \in S : \E tbl \in Tables :
             /\ holders[tbl][u] # NoLock
             /\ \E i \in 1 .. Len(waiters[tbl]) : waiters[tbl][i].txnID = t
      BY <1>1 DEF Deadlocked, waitFor
    <3>2. \A t \in S : t \in Txns /\ status[t] = "blocked"
      <4> TAKE t \in S
      <4>0. PICK tbl \in Tables : \E i \in 1 .. Len(waiters[tbl]) : waiters[tbl][i].txnID = t
        BY <3>1
      <4>1. PICK i \in 1 .. Len(waiters[tbl]) : waiters[tbl][i].txnID = t
        BY <4>0
      <4>2. status[waiters[tbl][i].txnID] = "blocked"
        BY <1>1 DEF Inv, QueuedOnce
      <4> QED BY <4>1, <4>2
    <3>3. \A t \in S : \E u \in S : \E tbl \in Tables :
             /\ holders'[tbl][u] # NoLock
             /\ \E i \in 1 .. Len(waiters'[tbl]) : waiters'[tbl][i].txnID = t
      <4> TAKE t \in S
      <4>1. PICK u \in S, tbl \in Tables :
              /\ holders[tbl][u] # NoLock
              /\ \E i \in 1 .. Len(waiters[tbl]) : waiters[tbl][i].txnID = t
        BY <3>1
      <4>2. PICK i \in 1 .. Len(waiters[tbl]) : waiters[tbl][i].txnID = t
        BY <4>1
      <4>3. t \in Txns /\ u \in Txns /\ status[t] = "blocked" /\ status[u] = "blocked"
        BY <3>2
      <4>4. /\ holders'[tbl][u] # NoLock
            /\ \E j \in 1 .. Len(waiters'[tbl]) : waiters'[tbl][j].txnID = t
        BY <1>1, <2>2, <4>1, <4>2, <4>3, EdgePersists
      <4> QED BY <4>4
    <3> QED BY <3>1, <3>2, <3>3 DEF Deadlocked, waitFor
  <2> QED BY <1>1, <2>1, <2>2
<1>2. Inv /\ [Next]_vars => [\A S \in SUBSET Txns : Deadlocked(S) => Deadlocked(S)']_vars
  BY <1>1
<1> QED BY <1>2, LockTableInvariant, PTL DEF Spec, DeadlockPersists

-----------------------------------------------------------------------------
(* Grants are first-come, first-served *)

\* Waiters are granted in the order in which they queued.
THEOREM GrantsInOrder == Spec => FifoGrants
<1> DEFINE stays(tbl, k) == \E m \in 1 .. Len(waiters'[tbl]) :
                              waiters'[tbl][m].txnID = waiters[tbl][k].txnID
           Fifo == \A tbl \in Tables : \A i, j \in 1 .. Len(waiters[tbl]) :
                     i < j /\ ~stays(tbl, j) => ~stays(tbl, i)
<1>1. ASSUME Inv, NEW t \in Txns, NEW tbl \in Tables, Release(t, tbl) PROVE Fifo
  <2> SUFFICES ASSUME NEW tab \in Tables, NEW i \in 1 .. Len(waiters[tab]),
                      NEW j \in 1 .. Len(waiters[tab]), i < j, ~stays(tab, j)
               PROVE  ~stays(tab, i)
    OBVIOUS
  <2>1. PICK n \in 0 .. Len(waiters[tbl]), H \in HolderMap : Released(t, tbl, n, H)
    BY <1>1, ReleaseFacts
  <2>2. tab = tbl
    BY <2>1 DEF Released
  <2> DEFINE ws == waiters[tbl]
  <2>3. i \in 1 .. Len(ws) /\ j \in 1 .. Len(ws) /\ Len(ws) \in Nat /\ n \in 0 .. Len(ws)
    <3>1. ws \in Seq(Waiter)
      BY <1>1, QueueFacts
    <3>2. i \in 1 .. Len(ws) /\ j \in 1 .. Len(ws) /\ n \in 0 .. Len(ws)
      BY <2>2
    <3> HIDE DEF ws
    <3> QED BY <3>1, <3>2
  <2>4. /\ Len(waiters'[tbl]) = Len(ws) - n
        /\ \A m \in 1 .. Len(ws) - n : waiters'[tbl][m] = ws[m + n]
    BY <2>1 DEF Released
  <2>5. ~(j > n)
    <3> SUFFICES ASSUME j > n PROVE FALSE
      OBVIOUS
    <3>1. j - n \in 1 .. Len(ws) - n /\ (j - n) + n = j
      BY <2>3
    <3>2. waiters'[tbl][j - n] = ws[j]
      BY <3>1, <2>4
    <3> QED BY <2>2, <2>4, <3>1, <3>2
  <2>6. ASSUME NEW m \in 1 .. Len(waiters'[tbl]) PROVE waiters'[tbl][m].txnID # ws[i].txnID
    <3>1. m \in 1 .. Len(ws) - n /\ m + n \in 1 .. Len(ws) /\ m + n # i
      BY <2>3, <2>4, <2>5
    <3>2. Distinct(ws)
      BY <1>1, QueueFacts
    <3>3. waiters'[tbl][m] = ws[m + n]
      BY <3>1, <2>4
    <3> HIDE DEF ws
    <3> QED BY <3>1, <3>2, <3>3, <2>3 DEF Distinct
  <2> QED BY <2>2, <2>6
<1>2. ASSUME Inv, NEW t \in Txns, NEW tbl \in Tables, NEW mode \in LockModes, AcquireBlocked(t, tbl, mode)
      PROVE  Fifo
  <2> DEFINE ws == waiters[tbl]
             w == [txnID |-> t, mode |-> mode]
  <2>1. ws \in Seq(Waiter) /\ w \in Waiter
    BY <1>2, QueueFacts DEF Waiter
  <2>2. Len(Append(ws, w)) = Len(ws) + 1 /\ \A j \in 1 .. Len(ws) : Append(ws, w)[j] = ws[j]
        /\ Len(ws) \in Nat
    <3> HIDE DEF w
    <3> QED BY <2>1, AppendProperties
  <2>3. waiters' = [waiters EXCEPT ![tbl] = Append(ws, w)]
    BY <1>2 DEF AcquireBlocked
  <2>4. waiters'[tbl] = Append(ws, w) /\ \A tab \in Tables : tab # tbl => waiters'[tab] = waiters[tab]
    BY <1>2, <2>3 DEF Inv, TypeOK
  <2>5. ASSUME NEW tab \in Tables, NEW j \in 1 .. Len(waiters[tab]) PROVE stays(tab, j)
    <3>1. CASE tab = tbl
      <4> HIDE DEF w
      <4>1. j \in 1 .. Len(ws)
        BY <3>1
      <4>2. j \in 1 .. Len(waiters'[tbl]) /\ waiters'[tbl][j] = ws[j]
        BY <4>1, <2>2, <2>4
      <4> QED BY <3>1, <4>2
    <3>2. CASE tab # tbl
      BY <3>2, <2>4
    <3> QED BY <3>1, <3>2
  <2> QED BY <2>5
<1>3. ASSUME waiters' = waiters PROVE Fifo
  BY <1>3
<1>4. Inv /\ [Next]_vars => Fifo
  <2> HIDE DEF Fifo
  <2> SUFFICES ASSUME Inv, [Next]_vars PROVE Fifo
    OBVIOUS
  <2>1. CASE UNCHANGED vars
    BY <2>1, <1>3 DEF vars
  <2>2. CASE Next
    BY <2>2, <1>1, <1>2, <1>3
       DEF Next, Acquire, AcquireGranted, ReleaseAllCollect, ReleaseAllReturn
  <2> QED BY <2>1, <2>2
<1>5. Inv /\ [Next]_vars =>
        [\A tbl \in Tables : \A i, j \in 1 .. Len(waiters[tbl]) :
           LET stay(k) == \E m \in 1 .. Len(waiters'[tbl]) :
                            waiters'[tbl][m].txnID = waiters[tbl][k].txnID
           IN i < j /\ ~stay(j) => ~stay(i)]_vars
  BY <1>4
<1> QED BY <1>5, LockTableInvariant, PTL DEF Spec, FifoGrants
-----------------------------------------------------------------------------
(* Two-phase locking *)

\* A step that changes the holders of one table, takes no lock away but from the
\* members of out, gives none to a releasing transaction and moves nobody between
\* the phases is one that two-phase locking allows.
LEMMA HoldersStep ==
  ASSUME Inv, Inv', NEW tbl \in Tables, NEW out \in SUBSET Txns,
         holders' = [holders EXCEPT ![tbl] = holders'[tbl]],
         \A u \in Txns \ out : holders'[tbl][u] # holders[tbl][u] =>
            holders'[tbl][u] # NoLock /\ status[u] # "releasing",
         \A u \in Txns : PhaseOf(u)' = PhaseOf(u)
  PROVE  /\ holders'[tbl] \in Locking!Holders
         /\ Locking!TogetherOn(holders'[tbl])
         /\ Locking!Gains(holders[tbl], holders'[tbl], out)
         /\ UNCHANGED [u \in Txns |-> PhaseOf(u)]
<1>1. holders'[tbl] \in Locking!Holders
  BY DEF Inv, TypeOK, HolderMap, LockModes, Locking!Holders
<1>2. Locking!TogetherOn(holders'[tbl])
  BY DEF Inv, Compatible, Locking!TogetherOn
<1>3. Locking!Gains(holders[tbl], holders'[tbl], out)
  BY DEF Locking!Gains, PhaseOf
<1>4. UNCHANGED [u \in Txns |-> PhaseOf(u)]
  OBVIOUS
<1> QED BY <1>1, <1>2, <1>3, <1>4

LEMMA GrantedStep ==
  ASSUME Inv, NEW t \in Txns, NEW tbl \in Tables, NEW mode \in LockModes,
         AcquireGranted(t, tbl, mode)
  PROVE  Locking!Lock(tbl)
<1>1. Inv'
  BY AcquireGrantedInv
<1>2. holders' = [holders EXCEPT ![tbl] = holders'[tbl]]
      /\ holders'[tbl] = [holders[tbl] EXCEPT ![t] = mode]
  BY DEF AcquireGranted, Inv, TypeOK
<1>3. \A u \in Txns \ {} : holders'[tbl][u] # holders[tbl][u] =>
         holders'[tbl][u] # NoLock /\ status[u] # "releasing"
  BY <1>2, NoLockModes DEF AcquireGranted, Inv, TypeOK, HolderMap
<1>4. \A u \in Txns : PhaseOf(u)' = PhaseOf(u)
  BY DEF AcquireGranted, PhaseOf
<1>5. {} \in SUBSET Txns
  OBVIOUS
<1> QED BY <1>1, <1>2, <1>3, <1>4, <1>5, HoldersStep DEF Locking!Lock

\* Whoever Release wakes was blocked, so it had not begun to release.
LEMMA ReleaseStep ==
  ASSUME Inv, NEW t \in Txns, NEW tbl \in Tables, Release(t, tbl)
  PROVE  Locking!Unlock(t, tbl)
<1> DEFINE ws == waiters[tbl]
<1>1. Inv'
  BY ReleaseInv
<1>2. PICK n \in 0 .. Len(waiters[tbl]), H \in HolderMap : Released(t, tbl, n, H)
  BY ReleaseFacts
<1>3. status[t] = "releasing" /\ tbl \in tables[t] /\ holders[tbl][t] # NoLock
  BY DEF Release, Inv, ReleaseAllComplete
<1>4. ws \in Seq(Waiter) /\ Distinct(ws)
  BY QueueFacts
<1>5. \A i \in 1 .. n : ws[i].txnID \in Txns /\ ws[i].mode \in LockModes
                        /\ status[ws[i].txnID] = "blocked"
  BY <1>4, WaiterFacts DEF Inv, QueuedOnce
<1>6. /\ \A i \in 1 .. n : holders'[tbl][ws[i].txnID] = ws[i].mode
      /\ \A u \in Txns : (\A i \in 1 .. n : ws[i].txnID # u) => holders'[tbl][u] = H[u]
  <2>1. holders'[tbl] = HoldersAfter(H, ws, n)
    BY <1>2 DEF Released
  <2>2. n \in 0 .. Len(ws)
    OBVIOUS
  <2> HIDE DEF ws
  <2>3. /\ \A i \in 1 .. n : HoldersAfter(H, ws, n)[ws[i].txnID] = ws[i].mode
        /\ \A u \in Txns : (\A i \in 1 .. n : ws[i].txnID # u) => HoldersAfter(H, ws, n)[u] = H[u]
    BY <2>2, <1>4, HoldersAfterFacts
  <2> QED BY <2>1, <2>3
<1>7. holders'[tbl][t] = NoLock
  BY <1>2, <1>3, <1>5, <1>6 DEF Released
<1>8. holders' = [holders EXCEPT ![tbl] = holders'[tbl]]
  BY <1>2 DEF Released, Inv, TypeOK
<1>9. \A u \in Txns \ {t} : holders'[tbl][u] # holders[tbl][u] =>
         holders'[tbl][u] # NoLock /\ status[u] # "releasing"
  <2> SUFFICES ASSUME NEW u \in Txns \ {t}, holders'[tbl][u] # holders[tbl][u]
               PROVE  holders'[tbl][u] # NoLock /\ status[u] # "releasing"
    OBVIOUS
  <2>1. PICK i \in 1 .. n : ws[i].txnID = u
    BY <1>2, <1>6 DEF Released
  <2> QED BY <2>1, <1>5, <1>6, NoLockModes
<1>10. \A u \in Txns : PhaseOf(u)' = PhaseOf(u)
  <2> TAKE u \in Txns
  <2>1. status'[u] = IF \E i \in 1 .. n : ws[i].txnID = u THEN "running" ELSE status[u]
    BY <1>2 DEF Released
  <2>2. (\E i \in 1 .. n : ws[i].txnID = u) => status[u] = "blocked"
    BY <1>5
  <2> QED BY <2>1, <2>2 DEF PhaseOf
<1>11. {t} \in SUBSET Txns
  OBVIOUS
<1>12. [u \in Txns |-> PhaseOf(u)][t] = "shrinking"
  BY <1>3 DEF PhaseOf
<1> QED BY <1>1, <1>3, <1>7, <1>8, <1>9, <1>10, <1>11, <1>12, HoldersStep DEF Locking!Unlock

\* A step of the lock manager is a step of two-phase locking, or changes neither
\* a holder nor a phase.
LEMMA NextStep == Inv /\ [Next]_vars => [Locking!Progress]_(Locking!locking)
<1> SUFFICES ASSUME Inv, [Next]_vars PROVE [Locking!Progress]_(Locking!locking)
  OBVIOUS
<1> DEFINE P == [u \in Txns |-> PhaseOf(u)]
<1>1. ASSUME UNCHANGED holders, \A u \in Txns : PhaseOf(u)' = PhaseOf(u)
      PROVE  UNCHANGED Locking!locking
  BY <1>1 DEF Locking!locking
<1>2. CASE UNCHANGED vars
  BY <1>1, <1>2 DEF vars, PhaseOf
<1>3. ASSUME NEW t \in Txns, NEW tbl \in Tables, NEW mode \in LockModes, Acquire(t, tbl, mode)
      PROVE  [Locking!Progress]_(Locking!locking)
  <2>1. CASE AcquireGranted(t, tbl, mode)
    BY <2>1, GrantedStep DEF Locking!Progress
  <2>2. CASE AcquireBlocked(t, tbl, mode)
    <3>1. \A u \in Txns : PhaseOf(u)' = PhaseOf(u)
      BY <2>2 DEF AcquireBlocked, PhaseOf, Inv, TypeOK
    <3> QED BY <3>1, <2>2, <1>1 DEF AcquireBlocked
  <2> QED BY <1>3, <2>1, <2>2 DEF Acquire
<1>4. ASSUME NEW t \in Txns, ReleaseAllCollect(t) PROVE Locking!Shrink(t)
  <2>1. P[t] = "growing" /\ UNCHANGED holders
    BY <1>4 DEF ReleaseAllCollect, PhaseOf
  <2>2. P' = [P EXCEPT ![t] = "shrinking"]
    BY <1>4 DEF ReleaseAllCollect, PhaseOf, Inv, TypeOK
  <2> QED BY <2>1, <2>2 DEF Locking!Shrink
<1>5. ASSUME NEW t \in Txns, ReleaseAllReturn(t) PROVE Locking!End(t)
  <2>1. P[t] = "shrinking" /\ UNCHANGED holders
    BY <1>5 DEF ReleaseAllReturn, PhaseOf
  <2>2. P' = [P EXCEPT ![t] = "growing"]
    BY <1>5 DEF ReleaseAllReturn, PhaseOf, Inv, TypeOK
  <2>3. \A tbl \in Tables : holders[tbl][t] = NoLock
    BY <1>5 DEF ReleaseAllReturn, Inv, ReleaseAllComplete
  <2> QED BY <2>1, <2>2, <2>3 DEF Locking!End
<1>6. ASSUME NEW t \in Txns, NEW tbl \in Tables, Release(t, tbl) PROVE Locking!Progress
  BY <1>6, ReleaseStep DEF Locking!Progress
<1> QED BY <1>2, <1>3, <1>4, <1>5, <1>6 DEF Next, Locking!Progress

\* Acquire and ReleaseAll implement strict two-phase locking.
THEOREM LockingIsTwoPhase == Spec => ImplementsTwoPhase
<1>1. Init => Locking!Start
  BY DEF Init, Locking!Start, PhaseOf
<1> QED BY <1>1, NextStep, LockTableInvariant, PTL DEF Spec, ImplementsTwoPhase, Locking!TwoPhase
=============================================================================
