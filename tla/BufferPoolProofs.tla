-------------------------- MODULE BufferPoolProofs --------------------------
(***************************************************************************)
(* What the buffer pool promises, for any number of pages, frames and      *)
(* transactions, and a log of any length.                                  *)
(*                                                                         *)
(* The three invariants of BufferPool are inductive together once they are *)
(* joined by Midway, which says what the log knows of a dirty page between *)
(* its record and its write. The two action properties follow from it.     *)
(***************************************************************************)
EXTENDS BufferPool, TLAPS

Distinct(s) == \A i, j \in DOMAIN s : s[i] = s[j] => i = j
On(s, q) == \E i \in DOMAIN s : s[i] = q

(* FetchPage and FlushAll, when they are between the record of their page  *)
(* and its write: the page is dirty, the record is its last one and takes  *)
(* the file from what it holds to what the frame holds; the victim of      *)
(* FetchPage is unpinned and the page it wants is not cached.              *)
Midway ==
  /\ op = "idle" => victim = NoPage
  /\ op = "evicting" => /\ victim \in Pages
                        /\ pinCount[victim] = 0
                        /\ want \in Pages
                        /\ ~Cached(want)
  /\ victim # NoPage =>
       /\ victim \in dirty
       /\ \E i \in DOMAIN log : /\ IsLastUpdate(i, victim)
                               /\ log[i].before = disk[victim]
                               /\ log[i].after = data[victim]

PoolInv == LruConsistent /\ ImagesTrackDisk /\ LogExplainsDisk /\ Midway

-----------------------------------------------------------------------------
(* The LRU list *)

(* list.Remove takes the page's only element out of the list. *)
LEMMA WithoutFacts ==
  ASSUME NEW s \in Seq(Pages), Distinct(s), NEW p \in Pages, On(s, p)
  PROVE  /\ Without(s, p) \in Seq(Pages)
         /\ Len(Without(s, p)) = Len(s) - 1
         /\ Distinct(Without(s, p))
         /\ \A q \in Pages : On(Without(s, p), q) <=> On(s, q) /\ q # p
<1> DEFINE i == CHOOSE k \in DOMAIN s : s[k] = p
           w == [k \in 1 .. Len(s) - 1 |-> IF k < i THEN s[k] ELSE s[k + 1]]
<1>1. i \in 1 .. Len(s) /\ s[i] = p /\ DOMAIN s = 1 .. Len(s) /\ Len(s) \in Nat
  BY DEF On
<1>2. Without(s, p) = w
  BY DEF Without
<1> HIDE DEF i
<1>3. \A k \in 1 .. Len(s) - 1 : w[k] \in Pages /\ w[k] = IF k < i THEN s[k] ELSE s[k + 1]
  BY <1>1
<1>4. w \in Seq(Pages) /\ Len(w) = Len(s) - 1 /\ DOMAIN w = 1 .. Len(s) - 1
  BY <1>1, <1>3
<1> HIDE DEF w
<1>5. Distinct(w)
  <2> SUFFICES ASSUME NEW a \in 1 .. Len(s) - 1, NEW b \in 1 .. Len(s) - 1, w[a] = w[b]
               PROVE  a = b
    BY <1>4 DEF Distinct
  <2>1. w[a] = (IF a < i THEN s[a] ELSE s[a + 1]) /\ w[b] = (IF b < i THEN s[b] ELSE s[b + 1])
    BY <1>3
  <2>2. \A x, y \in 1 .. Len(s) : s[x] = s[y] => x = y
    BY <1>1 DEF Distinct
  <2>3. a \in 1 .. Len(s) /\ b \in 1 .. Len(s) /\ a + 1 \in 1 .. Len(s) /\ b + 1 \in 1 .. Len(s)
    BY <1>1
  <2>4. CASE a < i /\ b < i
    BY <2>1, <2>2, <2>3, <2>4
  <2>5. CASE a < i /\ ~(b < i)
    <3>1. a = b + 1
      BY <2>1, <2>2, <2>3, <2>5
    <3> QED
      BY <3>1, <2>5, <1>1
  <2>6. CASE ~(a < i) /\ b < i
    <3>1. a + 1 = b
      BY <2>1, <2>2, <2>3, <2>6
    <3> QED
      BY <3>1, <2>6, <1>1
  <2>7. CASE ~(a < i) /\ ~(b < i)
    <3>1. a + 1 = b + 1
      BY <2>1, <2>2, <2>3, <2>7
    <3> QED
      BY <3>1
  <2> QED
    BY <2>4, <2>5, <2>6, <2>7
<1>6. ASSUME NEW q \in Pages PROVE On(w, q) <=> On(s, q) /\ q # p
  <2>1. ASSUME On(w, q) PROVE On(s, q) /\ q # p
    <3>1. PICK k \in 1 .. Len(s) - 1 : w[k] = q
      BY <2>1, <1>4 DEF On
    <3>2. PICK a \in 1 .. Len(s) : s[a] = q /\ a # i
      BY <3>1, <1>3, <1>1
    <3> QED
      BY <3>2, <1>1 DEF On, Distinct
  <2>2. ASSUME On(s, q), q # p PROVE On(w, q)
    <3>1. PICK a \in 1 .. Len(s) : s[a] = q
      BY <2>2, <1>1 DEF On
    <3>2. a # i
      BY <3>1, <2>2, <1>1
    <3>3. CASE a < i
      <4>1. a \in 1 .. Len(s) - 1 /\ w[a] = s[a]
        BY <3>3, <1>1, <1>3
      <4> QED
        BY <4>1, <3>1, <1>4 DEF On
    <3>4. CASE a > i
      <4>1. a - 1 \in 1 .. Len(s) - 1 /\ w[a - 1] = s[a]
        BY <3>4, <1>1, <1>3
      <4> QED
        BY <4>1, <3>1, <1>4 DEF On
    <3> QED
      BY <3>2, <3>3, <3>4, <1>1
  <2> QED
    BY <2>1, <2>2
<1> QED
  BY <1>2, <1>4, <1>5, <1>6

(* list.PushFront puts a page that is not on the list at its front. *)
LEMMA PushFrontFacts ==
  ASSUME NEW s \in Seq(Pages), Distinct(s), NEW p \in Pages, ~On(s, p)
  PROVE  /\ PushFront(s, p) \in Seq(Pages)
         /\ Len(PushFront(s, p)) = Len(s) + 1
         /\ Distinct(PushFront(s, p))
         /\ \A q \in Pages : On(PushFront(s, p), q) <=> On(s, q) \/ q = p
<1> DEFINE w == <<p>> \o s
<1>1. w \in Seq(Pages) /\ Len(w) = Len(s) + 1 /\ Len(s) \in Nat
  OBVIOUS
<1>2. /\ DOMAIN w = 1 .. Len(s) + 1 /\ DOMAIN s = 1 .. Len(s)
      /\ w[1] = p
      /\ \A k \in 1 .. Len(s) : w[k + 1] = s[k]
  OBVIOUS
<1>3. \A k \in 2 .. Len(s) + 1 : k - 1 \in 1 .. Len(s) /\ w[k] = s[k - 1]
  <2> TAKE k \in 2 .. Len(s) + 1
  <2>1. k - 1 \in 1 .. Len(s) /\ (k - 1) + 1 = k
    BY <1>1
  <2> QED
    BY <2>1, <1>2
<1>4. PushFront(s, p) = w
  BY DEF PushFront
<1> HIDE DEF w
<1>5. Distinct(w)
  <2> SUFFICES ASSUME NEW a \in 1 .. Len(s) + 1, NEW b \in 1 .. Len(s) + 1, w[a] = w[b]
               PROVE  a = b
    BY <1>2 DEF Distinct
  <2>1. \A x, y \in 1 .. Len(s) : s[x] = s[y] => x = y
    BY <1>2 DEF Distinct
  <2>2. \A k \in 1 .. Len(s) : s[k] # p
    BY <1>2 DEF On
  <2>3. CASE a = 1 /\ b # 1
    BY <2>3, <2>2, <1>1, <1>2, <1>3
  <2>4. CASE a # 1 /\ b = 1
    BY <2>4, <2>2, <1>1, <1>2, <1>3
  <2>5. CASE a # 1 /\ b # 1
    <3>1. a - 1 \in 1 .. Len(s) /\ b - 1 \in 1 .. Len(s) /\ w[a] = s[a - 1] /\ w[b] = s[b - 1]
      BY <2>5, <1>1, <1>3
    <3>2. a - 1 = b - 1
      BY <3>1, <2>1
    <3> QED
      BY <3>2
  <2> QED
    BY <2>3, <2>4, <2>5
<1>6. \A q \in Pages : On(w, q) <=> On(s, q) \/ q = p
  <2> TAKE q \in Pages
  <2>1. ASSUME On(w, q) PROVE On(s, q) \/ q = p
    BY <2>1, <1>1, <1>2, <1>3 DEF On
  <2>2. ASSUME On(s, q) PROVE On(w, q)
    <3>1. PICK k \in 1 .. Len(s) : s[k] = q
      BY <2>2, <1>2 DEF On
    <3>2. k + 1 \in DOMAIN w /\ w[k + 1] = q
      BY <3>1, <1>1, <1>2
    <3> QED
      BY <3>2 DEF On
  <2>3. On(w, p)
    BY <1>1, <1>2 DEF On
  <2> QED
    BY <2>1, <2>2, <2>3
<1> QED
  BY <1>1, <1>4, <1>5, <1>6
-----------------------------------------------------------------------------
(* The frames *)

(* LruConsistent in the words of the lemmas above. *)
LEMMA LruMeaning ==
  LruConsistent <=> /\ PoolTypeOK
                    /\ \A p \in Pages : Cached(p) <=> On(lruList, p)
                    /\ Distinct(lruList)
                    /\ Len(lruList) <= Capacity
BY DEF LruConsistent, On, Distinct

(* Loading page p into a frame, taken from page v if the pool is full,     *)
(* leaves the list and the images in order, when the file has changed at   *)
(* most at v.                                                              *)
LEMMA ReplaceInv ==
  ASSUME LruConsistent, ImagesTrackDisk, NEW p \in Pages, ~Cached(p), NEW v,
         \/ v = NoPage /\ Len(lruList) < Capacity
         \/ v \in Pages /\ Cached(v),
         disk' \in [Pages -> AllImages],
         \A q \in Pages \ {v} : disk'[q] = disk[q],
         Replace(v, p, disk'),
         UNCHANGED <<currentTxnID, free>>,
         log' \in Seq(Record),
         op' \in {"idle", "evicting", "flushing"},
         victim' \in Pages \cup {NoPage},
         want' \in Pages \cup {NoPage}
  PROVE  LruConsistent' /\ ImagesTrackDisk'
<1> USE PoolAssumption
<1> DEFINE s == IF v = NoPage THEN lruList ELSE Without(lruList, v)
<1>1. /\ PoolTypeOK
      /\ \A q \in Pages : Cached(q) <=> On(lruList, q)
      /\ Distinct(lruList)
      /\ Len(lruList) <= Capacity
  BY LruMeaning
<1>2. lruList \in Seq(Pages) /\ Len(lruList) \in Nat
  BY <1>1 DEF PoolTypeOK
<1>3. /\ s \in Seq(Pages) /\ Distinct(s)
      /\ Len(s) < Capacity
      /\ \A q \in Pages : On(s, q) <=> Cached(q) /\ q # v
  <2>1. CASE v = NoPage
    BY <2>1, <1>1, <1>2
  <2>2. CASE v \in Pages /\ Cached(v)
    <3>1. v # NoPage /\ On(lruList, v)
      BY <2>2, <1>1
    <3>2. /\ Without(lruList, v) \in Seq(Pages)
          /\ Len(Without(lruList, v)) = Len(lruList) - 1
          /\ Distinct(Without(lruList, v))
          /\ \A q \in Pages : On(Without(lruList, v), q) <=> On(lruList, q) /\ q # v
      BY <3>1, <2>2, <1>1, <1>2, WithoutFacts
    <3> QED
      BY <3>1, <3>2, <1>1, <1>2
  <2> QED
    BY <2>1, <2>2
<1>4. lruList' = PushFront(s, p)
  BY DEF Replace
<1> HIDE DEF s
<1>5. /\ lruList' \in Seq(Pages)
      /\ Len(lruList') = Len(s) + 1
      /\ Distinct(lruList')
      /\ \A q \in Pages : On(lruList', q) <=> On(s, q) \/ q = p
  BY <1>3, <1>4, PushFrontFacts
<1>6. /\ \A q \in Pages : data'[q] = IF q = p THEN disk'[p] ELSE IF q = v THEN NoImage ELSE data[q]
      /\ \A q \in Pages : cleanSnapshots'[q] = IF q = p THEN disk'[p] ELSE IF q = v THEN NoImage
                                                ELSE cleanSnapshots[q]
      /\ dirty' = dirty \ {v}
      /\ \A q \in Pages : beforeImages'[q] = IF q = v THEN NoImage ELSE beforeImages[q]
      /\ \A q \in Pages : dirtyTxn'[q] = IF q = v THEN NoTxn ELSE dirtyTxn[q]
  BY DEF Replace
<1>7. PoolTypeOK'
  <2>1. /\ data' \in [Pages -> AllImages \cup {NoImage}]
        /\ cleanSnapshots' \in [Pages -> AllImages \cup {NoImage}]
        /\ beforeImages' \in [Pages -> AllImages \cup {NoImage}]
    BY <1>1 DEF Replace, PoolTypeOK
  <2>2. /\ dirty' \in SUBSET Pages
        /\ pinCount' \in [Pages -> Nat]
        /\ dirtyTxn' \in [Pages -> TxnIDs \cup {NoTxn}]
    BY <1>1 DEF Replace, PoolTypeOK
  <2> QED
    BY <2>1, <2>2, <1>1, <1>5 DEF PoolTypeOK
<1>8. \A q \in Pages : Cached(q)' <=> On(lruList', q)
  <2>1. disk'[p] # NoImage
    BY DEF AllImages
  <2> QED
    BY <2>1, <1>3, <1>5, <1>6 DEF Cached
<1>9. LruConsistent'
  <2>1. Len(lruList') <= Capacity
    BY <1>3, <1>5
  <2> QED
    BY <2>1, <1>5, <1>7, <1>8 DEF LruConsistent, On, Distinct
<1>10. ImagesTrackDisk'
  <2> SUFFICES ASSUME NEW q \in Pages
               PROVE  /\ Cached(q)' => cleanSnapshots'[q] = disk'[q]
                      /\ Cached(q)' /\ q \notin dirty' => data'[q] = disk'[q]
                      /\ q \in dirty' => Cached(q)' /\ beforeImages'[q] = disk'[q] /\ dirtyTxn'[q] # NoTxn
                      /\ q \notin dirty' => beforeImages'[q] = NoImage /\ dirtyTxn'[q] = NoTxn
    BY DEF ImagesTrackDisk
  <2>1. /\ Cached(q) => cleanSnapshots[q] = disk[q]
        /\ Cached(q) /\ q \notin dirty => data[q] = disk[q]
        /\ q \in dirty => Cached(q) /\ beforeImages[q] = disk[q] /\ dirtyTxn[q] # NoTxn
        /\ q \notin dirty => beforeImages[q] = NoImage /\ dirtyTxn[q] = NoTxn
    BY DEF ImagesTrackDisk
  <2>2. CASE q = p
    BY <2>1, <2>2, <1>6 DEF Cached
  <2>3. CASE q # p /\ q = v
    BY <2>1, <2>3, <1>6 DEF Cached
  <2>4. CASE q # p /\ q # v
    <3>1. disk'[q] = disk[q]
      BY <2>4
    <3> QED
      BY <2>1, <2>4, <3>1, <1>6 DEF Cached
  <2> QED
    BY <2>2, <2>3, <2>4
<1> QED
  BY <1>9, <1>10
-----------------------------------------------------------------------------
(* The log *)

(* After writeWALUpdate(p) the last record of the log is the last update   *)
(* of p, from what the file holds to what the frame holds.                 *)
LEMMA LoggedInv ==
  ASSUME LruConsistent, ImagesTrackDisk, LogExplainsDisk, victim = NoPage,
         NEW p \in dirty, writeWALUpdate(p), victim' = p, UNCHANGED <<disk, cacheVars>>
  PROVE  /\ log' \in Seq(Record)
         /\ LogExplainsDisk'
         /\ \E i \in DOMAIN log' : /\ IsLastUpdate(i, p)'
                                   /\ log'[i].before = disk'[p]
                                   /\ log'[i].after = data'[p]
<1> USE PoolAssumption
<1> DEFINE owner == IF dirtyTxn[p] # NoTxn THEN dirtyTxn[p] ELSE 0
           rec == [type |-> RecordUpdate, txnID |-> owner, page |-> p,
                   before |-> disk[p], after |-> data[p]]
<1>1. PoolTypeOK /\ p \in Pages /\ log \in Seq(Record) /\ Len(log) \in Nat
  BY DEF LruConsistent, PoolTypeOK
<1>2. Cached(p) /\ beforeImages[p] = disk[p] /\ disk[p] \in AllImages /\ disk[p] # NoImage
  BY <1>1 DEF ImagesTrackDisk, PoolTypeOK, AllImages
<1>3. log' = Append(log, rec)
  BY <1>2 DEF writeWALUpdate
<1>4. rec \in Record
  BY <1>1, <1>2 DEF Record, PoolTypeOK, Cached, RecordUpdate
<1>5. /\ rec.type = RecordUpdate /\ rec.page = p
      /\ rec.before = disk[p] /\ rec.after = data[p]
  OBVIOUS
<1> HIDE DEF rec
<1> PICK n \in Nat : n = Len(log) + 1
  BY <1>1
<1>6. /\ log' \in Seq(Record)
      /\ DOMAIN log' = 1 .. n /\ DOMAIN log = 1 .. Len(log)
      /\ log'[n] = rec
      /\ \A i \in DOMAIN log : log'[i] = log[i]
  BY <1>1, <1>3, <1>4
<1>7. \A i \in DOMAIN log' : i = n \/ (i \in DOMAIN log /\ i < n)
  BY <1>1, <1>6
<1>8. n \in DOMAIN log' /\ IsUpdate(n, p)' /\ \A q \in Pages : q # p => ~IsUpdate(n, q)'
  BY <1>1, <1>5, <1>6 DEF IsUpdate
<1>9. \A i \in DOMAIN log, q \in Pages : IsUpdate(i, q)' <=> IsUpdate(i, q)
  BY <1>6 DEF IsUpdate
<1>10. IsLastUpdate(n, p)'
  BY <1>6, <1>7, <1>8, <1>1 DEF IsLastUpdate
<1>11. ASSUME NEW q \in Pages \ {p}, NEW i \in DOMAIN log', IsLastUpdate(i, q)'
       PROVE  i \in DOMAIN log /\ IsLastUpdate(i, q)
  <2>1. IsUpdate(i, q)' /\ i \in DOMAIN log
    BY <1>11, <1>7, <1>8 DEF IsLastUpdate
  <2>2. \A j \in DOMAIN log : j \in DOMAIN log'
    BY <1>6, <1>1
  <2> QED
    BY <1>11, <2>1, <2>2, <1>9 DEF IsLastUpdate
<1>12. LogChained'
  <2> SUFFICES ASSUME NEW i \in DOMAIN log', NEW j \in DOMAIN log', i < j,
                      log'[i].type = RecordUpdate, IsUpdate(j, log[i].page)',
                      \A k \in DOMAIN log' : i < k /\ k < j => ~IsUpdate(k, log[i].page)'
               PROVE  log'[j].before \in {log'[i].after, LinkImage}
    BY DEF LogChained
  <2>1. i \in DOMAIN log /\ log'[i] = log[i]
    BY <1>6, <1>7, <1>1
  <2>2. log[i].page = p \/ j # n
    BY <2>1, <1>5, <1>6 DEF IsUpdate
  <2>3. CASE j # n
    <3>1. j \in DOMAIN log /\ log'[j] = log[j]
      BY <2>3, <1>6, <1>7
    <3>2. IsUpdate(j, log[i].page)
      BY <3>1, <2>1 DEF IsUpdate
    <3>3. \A k \in DOMAIN log : i < k /\ k < j => ~IsUpdate(k, log[i].page)
      BY <2>1, <1>6, <1>1 DEF IsUpdate
    <3> QED
      BY <2>1, <3>1, <3>2, <3>3 DEF LogExplainsDisk, LogChained
  <2>4. CASE j = n /\ log[i].page = p
    <3>1. IsUpdate(i, p)
      BY <2>1, <2>4 DEF IsUpdate
    <3>2. \A k \in DOMAIN log : k > i => ~IsUpdate(k, p)
      BY <2>1, <2>4, <1>6, <1>1 DEF IsUpdate
    <3>3. IsLastUpdate(i, p)
      BY <3>1, <3>2 DEF IsLastUpdate
    <3>4. p # victim
      BY <1>1
    <3>5. disk[p] = LinkImage \/ disk[p] = log[i].after
      BY <2>1, <3>3, <3>4, <1>1 DEF LogExplainsDisk
    <3> QED
      BY <3>5, <2>1, <2>4, <1>5, <1>6
  <2> QED
    BY <2>2, <2>3, <2>4
<1>13. ASSUME NEW q \in Pages, NEW i \in DOMAIN log', IsLastUpdate(i, q)', disk'[q] # LinkImage
       PROVE  disk'[q] = IF q = victim' THEN log'[i].before ELSE log'[i].after
  <2>1. CASE q = p
    <3>1. i = n
      BY <1>13, <2>1, <1>7, <1>8, <1>1 DEF IsLastUpdate
    <3> QED
      BY <2>1, <3>1, <1>5, <1>6
  <2>2. CASE q # p
    <3>1. i \in DOMAIN log /\ IsLastUpdate(i, q)
      BY <1>11, <1>13, <2>2
    <3>2. disk[q] = log[i].after
      BY <3>1, <1>13 DEF LogExplainsDisk
    <3> QED
      BY <3>1, <3>2, <2>2, <1>6
  <2> QED
    BY <2>1, <2>2
<1>14. LogExplainsDisk'
  BY <1>12, <1>13 DEF LogExplainsDisk
<1>15. log'[n].before = disk'[p] /\ log'[n].after = data'[p]
  BY <1>5, <1>6 DEF cacheVars
<1> QED
  BY <1>6, <1>8, <1>10, <1>14, <1>15

(* Writing the victim turns the before-image of its last record into the   *)
(* after-image: the log still explains the file.                           *)
LEMMA WrittenInv ==
  ASSUME LruConsistent, LogExplainsDisk, Midway, victim # NoPage,
         disk' = [disk EXCEPT ![victim] = data[victim]], UNCHANGED log, victim' = NoPage
  PROVE  LogExplainsDisk'
<1> USE PoolAssumption
<1>1. PoolTypeOK /\ victim \in Pages
  BY DEF LruConsistent, PoolTypeOK
<1>2. LogChained'
  BY DEF LogExplainsDisk, LogChained, IsUpdate
<1>3. PICK k \in DOMAIN log : IsLastUpdate(k, victim) /\ log[k].after = data[victim]
  BY DEF Midway
<1>4. ASSUME NEW q \in Pages, NEW i \in DOMAIN log, IsLastUpdate(i, q), disk'[q] # LinkImage
      PROVE  disk'[q] = log[i].after
  <2>1. CASE q = victim
    <3>1. i \in Nat /\ k \in Nat
      BY <1>1 DEF PoolTypeOK
    <3>2. i = k
      BY <1>3, <1>4, <2>1, <3>1 DEF IsLastUpdate
    <3> QED
      BY <3>2, <2>1, <1>1, <1>3 DEF PoolTypeOK
  <2>2. CASE q # victim
    <3>1. disk'[q] = disk[q]
      BY <2>2, <1>1 DEF PoolTypeOK
    <3> QED
      BY <3>1, <2>2, <1>4 DEF LogExplainsDisk
  <2> QED
    BY <2>1, <2>2
<1>5. \A q \in Pages : q # victim'
  OBVIOUS
<1>6. \A i, q : IsLastUpdate(i, q)' <=> IsLastUpdate(i, q)
  BY DEF IsLastUpdate, IsUpdate
<1> QED
  BY <1>2, <1>4, <1>5, <1>6 DEF LogExplainsDisk

(* A step that leaves the log and the victim alone keeps LogExplainsDisk,  *)
(* when it changes a page of the file only into a link.                    *)
LEMMA UnloggedInv ==
  ASSUME LogExplainsDisk, UNCHANGED <<log, victim>>,
         \A q \in Pages : disk'[q] \in {disk[q], LinkImage}
  PROVE  LogExplainsDisk'
<1>1. LogChained'
  BY DEF LogExplainsDisk, LogChained, IsUpdate
<1>2. \A i, q : IsLastUpdate(i, q)' <=> IsLastUpdate(i, q)
  BY DEF IsLastUpdate, IsUpdate
<1> QED
  BY <1>1, <1>2 DEF LogExplainsDisk
-----------------------------------------------------------------------------
(* The methods, one after the other *)

LEMMA InitInv == PoolInit => PoolInv
<1> SUFFICES ASSUME PoolInit PROVE PoolInv
  OBVIOUS
<1> USE PoolAssumption DEF PoolInit, EmptyPool
<1>1. PoolTypeOK
  BY DEF PoolTypeOK
<1>2. log = << >> /\ lruList = << >> /\ DOMAIN log = {} /\ DOMAIN lruList = {} /\ Len(lruList) = 0
  OBVIOUS
<1>3. LruConsistent
  BY <1>1, <1>2 DEF LruConsistent, Cached
<1>4. ImagesTrackDisk
  BY DEF ImagesTrackDisk, Cached
<1>5. LogExplainsDisk
  BY <1>2 DEF LogExplainsDisk, LogChained
<1>6. Midway
  BY DEF Midway
<1> QED
  BY <1>3, <1>4, <1>5, <1>6 DEF PoolInv

LEMMA FetchHitInv == ASSUME PoolInv, NEW p \in Pages, FetchHit(p) PROVE PoolInv'
<1> USE PoolAssumption
<1>1. /\ PoolTypeOK
      /\ \A q \in Pages : Cached(q) <=> On(lruList, q)
      /\ Distinct(lruList)
      /\ Len(lruList) <= Capacity
      /\ Cached(p)
      /\ lruList \in Seq(Pages) /\ Len(lruList) \in Nat
  <2>1. Cached(p)
    BY DEF FetchHit
  <2>2. LruConsistent
    BY DEF PoolInv
  <2>3. /\ PoolTypeOK
        /\ \A q \in Pages : Cached(q) <=> On(lruList, q)
        /\ Distinct(lruList)
        /\ Len(lruList) <= Capacity
    BY <2>2, LruMeaning
  <2>4. lruList \in Seq(Pages) /\ Len(lruList) \in Nat
    BY <2>3 DEF PoolTypeOK
  <2> QED
    BY <2>1, <2>3, <2>4
<1> DEFINE s == Without(lruList, p)
<1>2. /\ s \in Seq(Pages)
      /\ Len(s) = Len(lruList) - 1
      /\ Distinct(s)
      /\ \A q \in Pages : On(s, q) <=> On(lruList, q) /\ q # p
  BY <1>1, WithoutFacts
<1>3. lruList' = PushFront(s, p)
  BY DEF FetchHit
<1> HIDE DEF s
<1>4. /\ lruList' \in Seq(Pages)
      /\ Len(lruList') = Len(s) + 1
      /\ Distinct(lruList')
      /\ \A q \in Pages : On(lruList', q) <=> On(s, q) \/ q = p
  BY <1>2, <1>3, PushFrontFacts
<1>5. PoolTypeOK'
  <2>1. pinCount' \in [Pages -> Nat]
    BY <1>1 DEF FetchHit, PoolTypeOK
  <2> QED
    BY <2>1, <1>1, <1>4 DEF FetchHit, PoolTypeOK
<1>6. \A q \in Pages : Cached(q)' <=> On(lruList', q)
  BY <1>1, <1>2, <1>4 DEF FetchHit, Cached
<1>7. LruConsistent'
  <2>1. Len(lruList') <= Capacity
    BY <1>1, <1>2, <1>4
  <2> QED
    BY <2>1, <1>4, <1>5, <1>6 DEF LruConsistent, On, Distinct
<1>8. ImagesTrackDisk'
  BY DEF PoolInv, FetchHit, ImagesTrackDisk, Cached
<1>9. LogExplainsDisk'
  BY UnloggedInv DEF PoolInv, FetchHit
<1>10. Midway'
  BY DEF PoolInv, FetchHit, Midway
<1> QED
  BY <1>7, <1>8, <1>9, <1>10 DEF PoolInv

LEMMA FetchMissInv == ASSUME PoolInv, NEW p \in Pages, FetchMiss(p) PROVE PoolInv'
<1> USE PoolAssumption
<1>1. PoolTypeOK
  BY DEF PoolInv, LruConsistent
<1>2. /\ disk' = disk /\ disk' \in [Pages -> AllImages]
      /\ log' \in Seq(Record)
      /\ op' \in {"idle", "evicting", "flushing"}
      /\ victim' \in Pages \cup {NoPage}
      /\ want' \in Pages \cup {NoPage}
      /\ ~Cached(p)
      /\ UNCHANGED <<currentTxnID, free>>
  BY <1>1 DEF FetchMiss, PoolTypeOK
<1>3. LruConsistent' /\ ImagesTrackDisk'
  <2>1. CASE Len(lruList) < Capacity /\ Replace(NoPage, p, disk)
    BY <2>1, <1>2, ReplaceInv DEF PoolInv
  <2>2. ASSUME NEW v \in Pages \ dirty, IsVictim(v), Replace(v, p, disk)
        PROVE  LruConsistent' /\ ImagesTrackDisk'
    <3>1. Cached(v)
      BY <2>2 DEF IsVictim, PoolInv, LruConsistent
    <3> QED
      BY <3>1, <2>2, <1>2, ReplaceInv DEF PoolInv
  <2> QED
    BY <2>1, <2>2 DEF FetchMiss
<1>4. LogExplainsDisk'
  BY UnloggedInv DEF PoolInv, FetchMiss
<1>5. Midway'
  BY DEF PoolInv, FetchMiss, Midway
<1> QED
  BY <1>3, <1>4, <1>5 DEF PoolInv

(* A step that changes nothing but the log, op, victim and want. *)
LEMMA FilesOnlyInv ==
  ASSUME LruConsistent, ImagesTrackDisk, log' \in Seq(Record),
         op' \in {"idle", "evicting", "flushing"},
         victim' \in Pages \cup {NoPage}, want' \in Pages \cup {NoPage},
         UNCHANGED <<disk, cacheVars, currentTxnID, free>>
  PROVE  LruConsistent' /\ ImagesTrackDisk'
<1>1. PoolTypeOK'
  BY DEF LruConsistent, PoolTypeOK, cacheVars
<1>2. LruConsistent'
  BY <1>1 DEF LruConsistent, Cached, cacheVars
<1>3. ImagesTrackDisk'
  BY DEF ImagesTrackDisk, Cached, cacheVars
<1> QED
  BY <1>2, <1>3

LEMMA FetchEvictLogInv == ASSUME PoolInv, NEW p \in Pages, FetchEvictLog(p) PROVE PoolInv'
<1> USE PoolAssumption
<1>1. PICK v \in dirty : IsVictim(v) /\ writeWALUpdate(v) /\ victim' = v
  BY DEF FetchEvictLog
<1>2. /\ victim = NoPage /\ op' = "evicting" /\ want' = p /\ ~Cached(p)
      /\ UNCHANGED <<disk, cacheVars, currentTxnID, free>>
      /\ v \in Pages
  BY DEF FetchEvictLog, PoolInv, Midway, LruConsistent, PoolTypeOK
<1>3. /\ log' \in Seq(Record)
      /\ LogExplainsDisk'
      /\ \E i \in DOMAIN log' : /\ IsLastUpdate(i, v)'
                                /\ log'[i].before = disk'[v]
                                /\ log'[i].after = data'[v]
  BY <1>1, <1>2, LoggedInv DEF PoolInv
<1>4. LruConsistent' /\ ImagesTrackDisk'
  BY <1>1, <1>2, <1>3, FilesOnlyInv DEF PoolInv
<1>5. pinCount[v] = 0
  BY <1>1 DEF IsVictim
<1>6. \A i : IsLastUpdate(i, victim)' <=> IsLastUpdate(i, v)'
  BY <1>1 DEF IsLastUpdate, IsUpdate
<1>7. Midway'
  BY <1>1, <1>2, <1>3, <1>5, <1>6 DEF Midway, Cached, cacheVars
<1> QED
  BY <1>3, <1>4, <1>7 DEF PoolInv

LEMMA FetchEvictWriteInv == ASSUME PoolInv, FetchEvictWrite PROVE PoolInv'
<1> USE PoolAssumption
<1>1. /\ PoolTypeOK /\ victim \in Pages /\ victim # NoPage /\ Cached(victim)
      /\ want \in Pages /\ ~Cached(want)
  BY DEF PoolInv, Midway, FetchEvictWrite, LruConsistent, ImagesTrackDisk
<1>2. /\ disk' = [disk EXCEPT ![victim] = data[victim]]
      /\ Replace(victim, want, disk')
      /\ op' = "idle" /\ victim' = NoPage /\ want' = NoPage
      /\ UNCHANGED <<log, currentTxnID, free>>
  BY DEF FetchEvictWrite
<1>3. disk' \in [Pages -> AllImages] /\ \A q \in Pages \ {victim} : disk'[q] = disk[q]
  BY <1>1, <1>2 DEF PoolTypeOK, Cached
<1>4. LruConsistent' /\ ImagesTrackDisk'
  <2>1. log' \in Seq(Record)
    BY <1>1, <1>2 DEF PoolTypeOK
  <2> QED
    BY <2>1, <1>1, <1>2, <1>3, ReplaceInv DEF PoolInv
<1>5. LogExplainsDisk'
  BY <1>1, <1>2, WrittenInv DEF PoolInv
<1>6. Midway'
  BY <1>2 DEF Midway
<1> QED
  BY <1>4, <1>5, <1>6 DEF PoolInv

LEMMA UnpinPageInv ==
  ASSUME PoolInv, NEW p \in Pages, NEW d \in BOOLEAN, NEW v \in AllImages, UnpinPage(p, d, v)
  PROVE  PoolInv'
<1> USE PoolAssumption
<1>1. /\ PoolTypeOK /\ Cached(p) /\ op = "idle" /\ victim = NoPage
      /\ UNCHANGED <<disk, log, lruList, cleanSnapshots, currentTxnID, free, op, victim, want>>
      /\ data' = [data EXCEPT ![p] = v]
      /\ v # NoImage
  BY DEF PoolInv, LruConsistent, UnpinPage, Midway, AllImages
<1>2. PoolTypeOK'
  <2>1. data' \in [Pages -> AllImages \cup {NoImage}] /\ pinCount' \in [Pages -> Nat]
    BY <1>1 DEF UnpinPage, PoolTypeOK
  <2>2. /\ dirty' \in SUBSET Pages
        /\ beforeImages' \in [Pages -> AllImages \cup {NoImage}]
        /\ dirtyTxn' \in [Pages -> TxnIDs \cup {NoTxn}]
    <3>1. CASE d /\ p \notin dirty
      <4>1. /\ dirty' = dirty \cup {p}
            /\ beforeImages' = [beforeImages EXCEPT ![p] = cleanSnapshots[p]]
            /\ dirtyTxn' = [dirtyTxn EXCEPT ![p] = currentTxnID]
        BY <3>1 DEF UnpinPage
      <4> QED
        BY <4>1, <1>1 DEF PoolTypeOK
    <3>2. CASE ~(d /\ p \notin dirty)
      <4>1. UNCHANGED <<dirty, beforeImages, dirtyTxn>>
        BY <3>2 DEF UnpinPage
      <4> QED
        BY <4>1, <1>1 DEF PoolTypeOK
    <3> QED
      BY <3>1, <3>2
  <2> QED
    BY <2>1, <2>2, <1>1 DEF PoolTypeOK
<1>3. \A q \in Pages : Cached(q)' <=> Cached(q)
  BY <1>1 DEF Cached, PoolTypeOK
<1>4. LruConsistent'
  BY <1>1, <1>2, <1>3 DEF PoolInv, LruConsistent
<1>5. ImagesTrackDisk'
  <2> SUFFICES ASSUME NEW q \in Pages
               PROVE  /\ Cached(q) => cleanSnapshots[q] = disk[q]
                      /\ Cached(q) /\ q \notin dirty' => data'[q] = disk[q]
                      /\ q \in dirty' => Cached(q) /\ beforeImages'[q] = disk[q] /\ dirtyTxn'[q] # NoTxn
                      /\ q \notin dirty' => beforeImages'[q] = NoImage /\ dirtyTxn'[q] = NoTxn
    BY <1>1, <1>3 DEF ImagesTrackDisk
  <2>1. /\ Cached(q) => cleanSnapshots[q] = disk[q]
        /\ Cached(q) /\ q \notin dirty => data[q] = disk[q]
        /\ q \in dirty => Cached(q) /\ beforeImages[q] = disk[q] /\ dirtyTxn[q] # NoTxn
        /\ q \notin dirty => beforeImages[q] = NoImage /\ dirtyTxn[q] = NoTxn
    BY DEF PoolInv, ImagesTrackDisk
  <2>2. CASE d /\ p \notin dirty
    <3>1. /\ dirty' = dirty \cup {p}
          /\ beforeImages' = [beforeImages EXCEPT ![p] = cleanSnapshots[p]]
          /\ dirtyTxn' = [dirtyTxn EXCEPT ![p] = currentTxnID]
      BY <2>2 DEF UnpinPage
    <3>2. CASE q = p
      BY <3>1, <3>2, <2>1, <1>1 DEF PoolTypeOK
    <3>3. CASE q # p
      <4>1. beforeImages'[q] = beforeImages[q] /\ dirtyTxn'[q] = dirtyTxn[q] /\ data'[q] = data[q]
        BY <3>1, <3>3, <1>1 DEF PoolTypeOK
      <4> QED
        BY <4>1, <3>1, <3>3, <2>1
    <3> QED
      BY <3>2, <3>3
  <2>3. CASE ~(d /\ p \notin dirty)
    <3>1. UNCHANGED <<dirty, beforeImages, dirtyTxn>>
      BY <2>3 DEF UnpinPage
    <3>2. ~d => v = data[p]
      BY DEF UnpinPage
    <3>3. q \notin dirty => data'[q] = data[q]
      BY <3>2, <2>3, <1>1 DEF PoolTypeOK
    <3> QED
      BY <3>1, <3>3, <2>1
  <2> QED
    BY <2>2, <2>3
<1>6. LogExplainsDisk'
  BY <1>1, UnloggedInv DEF PoolInv
<1>7. Midway'
  BY <1>1 DEF Midway
<1> QED
  BY <1>4, <1>5, <1>6, <1>7 DEF PoolInv

LEMMA FlushLogInv == ASSUME PoolInv, NEW p \in Pages, FlushLog(p) PROVE PoolInv'
<1> USE PoolAssumption
<1>1. /\ victim = NoPage /\ victim' = p /\ op = "flushing" /\ p \in dirty /\ writeWALUpdate(p)
      /\ UNCHANGED <<disk, cacheVars, currentTxnID, free, op, want>>
      /\ want \in Pages \cup {NoPage}
  BY DEF FlushLog, PoolInv, LruConsistent, PoolTypeOK
<1>2. /\ log' \in Seq(Record)
      /\ LogExplainsDisk'
      /\ \E i \in DOMAIN log' : /\ IsLastUpdate(i, p)'
                                /\ log'[i].before = disk'[p]
                                /\ log'[i].after = data'[p]
  BY <1>1, LoggedInv DEF PoolInv
<1>3. LruConsistent' /\ ImagesTrackDisk'
  BY <1>1, <1>2, FilesOnlyInv DEF PoolInv
<1>4. \A i : IsLastUpdate(i, victim)' <=> IsLastUpdate(i, p)'
  BY <1>1 DEF IsLastUpdate, IsUpdate
<1>5. Midway'
  BY <1>1, <1>2, <1>4 DEF Midway, cacheVars
<1> QED
  BY <1>2, <1>3, <1>5 DEF PoolInv

LEMMA FlushWriteInv == ASSUME PoolInv, FlushWrite PROVE PoolInv'
<1> USE PoolAssumption
<1>1. PoolTypeOK /\ victim \in dirty /\ victim \in Pages /\ Cached(victim) /\ victim # NoPage
  BY DEF PoolInv, LruConsistent, PoolTypeOK, Midway, FlushWrite, ImagesTrackDisk
<1>2. PoolTypeOK'
  <2>1. /\ disk' \in [Pages -> AllImages]
        /\ cleanSnapshots' \in [Pages -> AllImages \cup {NoImage}]
        /\ beforeImages' \in [Pages -> AllImages \cup {NoImage}]
    BY <1>1 DEF FlushWrite, PoolTypeOK, Cached
  <2>2. dirty' \in SUBSET Pages /\ dirtyTxn' \in [Pages -> TxnIDs \cup {NoTxn}]
    BY <1>1 DEF FlushWrite, PoolTypeOK
  <2> QED
    BY <2>1, <2>2, <1>1 DEF FlushWrite, PoolTypeOK
<1>3. LruConsistent'
  BY <1>2 DEF PoolInv, FlushWrite, LruConsistent, Cached
<1>4. ImagesTrackDisk'
  <2> SUFFICES ASSUME NEW q \in Pages
               PROVE  /\ Cached(q)' => cleanSnapshots'[q] = disk'[q]
                      /\ Cached(q)' /\ q \notin dirty' => data'[q] = disk'[q]
                      /\ q \in dirty' => Cached(q)' /\ beforeImages'[q] = disk'[q] /\ dirtyTxn'[q] # NoTxn
                      /\ q \notin dirty' => beforeImages'[q] = NoImage /\ dirtyTxn'[q] = NoTxn
    BY DEF ImagesTrackDisk
  <2>1. CASE q = victim
    BY <2>1, <1>1 DEF FlushWrite, PoolTypeOK
  <2>2. CASE q # victim
    BY <2>2, <1>1 DEF FlushWrite, PoolTypeOK, PoolInv, ImagesTrackDisk, Cached
  <2> QED
    BY <2>1, <2>2
<1>5. LogExplainsDisk'
  BY <1>1, WrittenInv DEF PoolInv, FlushWrite
<1>6. Midway'
  BY DEF FlushWrite, Midway
<1> QED
  BY <1>3, <1>4, <1>5, <1>6 DEF PoolInv

(* A page with a before-image and an owner is dirty, hence in the cache:   *)
(* RollbackTxn has nothing to restore in the file.                         *)
LEMMA RollbackTxnFrames ==
  ASSUME PoolInv, NEW t \in TxnIDs, op = "idle", RollbackTxn(t),
         log' \in Seq(Record), currentTxnID' \in TxnIDs
  PROVE  /\ LruConsistent' /\ ImagesTrackDisk'
         /\ UNCHANGED <<disk, op, victim>> /\ victim = NoPage
         /\ \A q \in Pages :
              View(q)' = IF q \in dirty /\ dirtyTxn[q] = t THEN disk[q] ELSE View(q)
         /\ \A q \in dirty' : q \in dirty /\ dirtyTxn'[q] = dirtyTxn[q]
<1> USE PoolAssumption
<1> DEFINE undone == {p \in Pages : dirtyTxn[p] = t /\ beforeImages[p] # NoImage}
<1>1. PoolTypeOK /\ victim = NoPage /\ undone \subseteq dirty
  BY DEF PoolInv, LruConsistent, Midway, ImagesTrackDisk
<1>2. \A q \in undone : Cached(q)
  BY <1>1 DEF PoolInv, ImagesTrackDisk
<1>3. /\ data' = [q \in Pages |-> IF q \in undone THEN beforeImages[q] ELSE data[q]]
      /\ dirty' = dirty \ undone
      /\ cleanSnapshots' = [q \in Pages |-> IF q \in undone THEN beforeImages[q] ELSE cleanSnapshots[q]]
      /\ disk' = [q \in Pages |-> disk[q]]
      /\ beforeImages' = [q \in Pages |-> IF q \in undone THEN NoImage ELSE beforeImages[q]]
      /\ dirtyTxn' = [q \in Pages |-> IF q \in undone THEN NoTxn ELSE dirtyTxn[q]]
      /\ UNCHANGED <<pinCount, lruList, free, op, victim, want>>
  <2>1. {q \in undone : Cached(q)} = undone /\ undone \ undone = {}
    BY <1>2
  <2> QED
    BY <2>1 DEF RollbackTxn
<1>4. disk' = disk
  BY <1>1, <1>3 DEF PoolTypeOK
<1> HIDE DEF undone
<1>5. PoolTypeOK'
  <2>1. /\ data' \in [Pages -> AllImages \cup {NoImage}]
        /\ cleanSnapshots' \in [Pages -> AllImages \cup {NoImage}]
        /\ beforeImages' \in [Pages -> AllImages \cup {NoImage}]
    BY <1>1, <1>3 DEF PoolTypeOK
  <2>2. dirty' \in SUBSET Pages /\ dirtyTxn' \in [Pages -> TxnIDs \cup {NoTxn}]
    BY <1>1, <1>3 DEF PoolTypeOK
  <2> QED
    BY <2>1, <2>2, <1>1, <1>3, <1>4 DEF PoolTypeOK
<1>6. \A q \in Pages : q \in undone => beforeImages[q] = disk[q] /\ beforeImages[q] # NoImage
  BY <1>1 DEF PoolInv, ImagesTrackDisk, undone
<1>7. \A q \in Pages : Cached(q)' <=> Cached(q)
  BY <1>2, <1>3, <1>6 DEF Cached
<1>8. LruConsistent'
  BY <1>3, <1>5, <1>7 DEF PoolInv, LruConsistent
<1>9. ImagesTrackDisk'
  BY <1>1, <1>3, <1>4, <1>6, <1>7 DEF PoolInv, ImagesTrackDisk
<1>10. \A q \in Pages : View(q)' = IF q \in dirty /\ dirtyTxn[q] = t THEN disk[q] ELSE View(q)
  <2> TAKE q \in Pages
  <2>1. q \in undone <=> q \in dirty /\ dirtyTxn[q] = t
    BY <1>1 DEF PoolInv, ImagesTrackDisk, undone, PoolTypeOK, AllImages
  <2>2. data'[q] = IF q \in undone THEN disk[q] ELSE data[q]
    BY <1>3, <1>6
  <2> QED
    BY <2>1, <2>2, <1>2, <1>4, <1>7 DEF View
<1>11. \A q \in dirty' : q \in dirty /\ dirtyTxn'[q] = dirtyTxn[q]
  BY <1>1, <1>3 DEF PoolTypeOK
<1> QED
  BY <1>1, <1>3, <1>4, <1>8, <1>9, <1>10, <1>11

LEMMA RollbackTxnInv ==
  ASSUME PoolInv, NEW t \in TxnIDs, op = "idle", RollbackTxn(t), UNCHANGED <<log, currentTxnID>>
  PROVE  PoolInv' /\ disk' = disk
<1>1. log' \in Seq(Record) /\ currentTxnID' \in TxnIDs
  BY DEF PoolInv, LruConsistent, PoolTypeOK
<1>2. LruConsistent' /\ ImagesTrackDisk' /\ UNCHANGED <<disk, op, victim>> /\ victim = NoPage
  BY <1>1, RollbackTxnFrames
<1>3. LogExplainsDisk'
  BY <1>2, UnloggedInv DEF PoolInv
<1>4. Midway'
  BY <1>2 DEF Midway
<1> QED
  BY <1>2, <1>3, <1>4 DEF PoolInv

LEMMA FreePageInv == ASSUME PoolInv, NEW p \in Pages, FreePage(p) PROVE PoolInv'
<1> USE PoolAssumption
<1>1. /\ PoolTypeOK /\ victim = NoPage
      /\ \A q \in Pages : Cached(q) <=> On(lruList, q)
      /\ Distinct(lruList)
      /\ Len(lruList) <= Capacity
      /\ lruList \in Seq(Pages) /\ Len(lruList) \in Nat
  <2>1. LruConsistent /\ Midway
    BY DEF PoolInv
  <2>2. victim = NoPage
    BY <2>1 DEF FreePage, Midway
  <2>3. /\ PoolTypeOK
        /\ \A q \in Pages : Cached(q) <=> On(lruList, q)
        /\ Distinct(lruList)
        /\ Len(lruList) <= Capacity
    BY <2>1, LruMeaning
  <2>4. lruList \in Seq(Pages) /\ Len(lruList) \in Nat
    BY <2>3 DEF PoolTypeOK
  <2> QED
    BY <2>2, <2>3, <2>4
<1>2. /\ lruList' \in Seq(Pages)
      /\ Distinct(lruList')
      /\ Len(lruList') <= Capacity
      /\ \A q \in Pages : On(lruList', q) <=> On(lruList, q) /\ q # p
  <2>1. CASE Cached(p)
    <3>1. lruList' = Without(lruList, p) /\ On(lruList, p)
      BY <2>1, <1>1 DEF FreePage
    <3>2. /\ Without(lruList, p) \in Seq(Pages)
          /\ Len(Without(lruList, p)) = Len(lruList) - 1
          /\ Distinct(Without(lruList, p))
          /\ \A q \in Pages : On(Without(lruList, p), q) <=> On(lruList, q) /\ q # p
      BY <3>1, <1>1, WithoutFacts
    <3> QED
      BY <3>1, <3>2, <1>1
  <2>2. CASE ~Cached(p)
    <3>1. lruList' = lruList /\ ~On(lruList, p)
      BY <2>2, <1>1 DEF FreePage
    <3> QED
      BY <3>1, <1>1
  <2> QED
    BY <2>1, <2>2
<1>3. PoolTypeOK'
  <2>1. /\ data' \in [Pages -> AllImages \cup {NoImage}]
        /\ cleanSnapshots' \in [Pages -> AllImages \cup {NoImage}]
        /\ beforeImages' \in [Pages -> AllImages \cup {NoImage}]
        /\ disk' \in [Pages -> AllImages]
    BY <1>1 DEF FreePage, PoolTypeOK, AllImages
  <2>2. /\ dirty' \in SUBSET Pages
        /\ pinCount' \in [Pages -> Nat]
        /\ dirtyTxn' \in [Pages -> TxnIDs \cup {NoTxn}]
        /\ free' \in SUBSET Pages
    BY <1>1 DEF FreePage, PoolTypeOK
  <2> QED
    BY <2>1, <2>2, <1>1, <1>2 DEF FreePage, PoolTypeOK
<1>4. \A q \in Pages : Cached(q)' <=> Cached(q) /\ q # p
  BY <1>1 DEF FreePage, Cached, PoolTypeOK
<1>5. LruConsistent'
  BY <1>1, <1>2, <1>3, <1>4 DEF LruConsistent, On, Distinct
<1>6. ImagesTrackDisk'
  <2> SUFFICES ASSUME NEW q \in Pages
               PROVE  /\ Cached(q)' => cleanSnapshots'[q] = disk'[q]
                      /\ Cached(q)' /\ q \notin dirty' => data'[q] = disk'[q]
                      /\ q \in dirty' => Cached(q)' /\ beforeImages'[q] = disk'[q] /\ dirtyTxn'[q] # NoTxn
                      /\ q \notin dirty' => beforeImages'[q] = NoImage /\ dirtyTxn'[q] = NoTxn
    BY DEF ImagesTrackDisk
  <2>1. CASE q = p
    BY <2>1, <1>1, <1>4 DEF FreePage, PoolTypeOK
  <2>2. CASE q # p
    BY <2>2, <1>1, <1>4 DEF FreePage, PoolTypeOK, PoolInv, ImagesTrackDisk
  <2> QED
    BY <2>1, <2>2
<1>7. LogExplainsDisk'
  <2>1. \A q \in Pages : disk'[q] \in {disk[q], LinkImage}
    BY <1>1 DEF FreePage, PoolTypeOK
  <2> QED
    BY <2>1, UnloggedInv DEF PoolInv, FreePage
<1>8. Midway'
  BY <1>1 DEF FreePage, Midway
<1> QED
  BY <1>5, <1>6, <1>7, <1>8 DEF PoolInv

(* The steps that touch neither the frames nor the files. *)
LEMMA OtherInv ==
  ASSUME PoolInv, UNCHANGED <<disk, log, cacheVars, victim, want>>,
         currentTxnID' \in TxnIDs, free' \in SUBSET Pages,
         \/ op = "idle" /\ op' \in {"idle", "flushing"}
         \/ op' = "idle" /\ victim = NoPage
         \/ op' = op
  PROVE  PoolInv'
<1>1. PoolTypeOK'
  BY DEF PoolInv, LruConsistent, PoolTypeOK, cacheVars
<1>2. LruConsistent'
  BY <1>1 DEF PoolInv, LruConsistent, Cached, cacheVars
<1>3. ImagesTrackDisk'
  BY DEF PoolInv, ImagesTrackDisk, Cached, cacheVars
<1>4. LogExplainsDisk'
  BY UnloggedInv DEF PoolInv
<1>5. \A i : IsLastUpdate(i, victim)' <=> IsLastUpdate(i, victim)
  BY DEF IsLastUpdate, IsUpdate
<1>6. Midway'
  BY <1>5 DEF PoolInv, Midway, Cached, cacheVars
<1> QED
  BY <1>2, <1>3, <1>4, <1>6 DEF PoolInv

LEMMA NextInv == PoolInv /\ [PoolNext]_poolVars => PoolInv'
<1> SUFFICES ASSUME PoolInv, [PoolNext]_poolVars PROVE PoolInv'
  OBVIOUS
<1>1. PoolTypeOK
  BY DEF PoolInv, LruConsistent
<1>2. ASSUME NEW p \in Pages, FetchHit(p) \/ FetchMiss(p) \/ FetchEvictLog(p) PROVE PoolInv'
  BY <1>2, FetchHitInv, FetchMissInv, FetchEvictLogInv
<1>3. CASE FetchEvictWrite
  BY <1>3, FetchEvictWriteInv
<1>4. ASSUME NEW p \in Pages, NEW d \in BOOLEAN, NEW v \in AllImages, UnpinPage(p, d, v) PROVE PoolInv'
  BY <1>4, UnpinPageInv
<1>5. ASSUME NEW p \in Pages, FreePage(p) PROVE PoolInv'
  BY <1>5, FreePageInv
<1>6. ASSUME NEW p \in Pages, AllocatePage(p) PROVE PoolInv'
  BY <1>1, <1>6, OtherInv DEF AllocatePage, PoolTypeOK
<1>7. CASE FlushBegin
  BY <1>1, <1>7, OtherInv DEF FlushBegin, PoolTypeOK
<1>8. CASE FlushStep
  BY <1>8, FlushLogInv, FlushWriteInv DEF FlushStep
<1>9. CASE FlushEnd
  BY <1>1, <1>9, OtherInv DEF FlushEnd, PoolTypeOK
<1>10. ASSUME NEW t \in TxnIDs, op = "idle", RollbackTxn(t), UNCHANGED <<log, currentTxnID>> PROVE PoolInv'
  BY <1>10, RollbackTxnInv
<1>11. ASSUME NEW t \in TxnIDs, op = "idle", SetTxnID(t),
              UNCHANGED <<disk, log, cacheVars, free, op, victim, want>>
       PROVE  PoolInv'
  BY <1>1, <1>11, OtherInv DEF SetTxnID, PoolTypeOK
<1>12. CASE UNCHANGED poolVars
  BY <1>1, <1>12, OtherInv DEF poolVars, cacheVars, PoolTypeOK
<1> QED
  BY <1>2, <1>3, <1>4, <1>5, <1>6, <1>7, <1>8, <1>9, <1>10, <1>11, <1>12 DEF PoolNext, PoolStep

-----------------------------------------------------------------------------
(* The theorems *)

(* The invariant of the pool. *)
THEOREM PoolInvariant == PoolSpec => []PoolInv
BY InitInv, NextInv, PTL DEF PoolSpec

(* The LRU list that FetchPage evicts from has every cached page exactly   *)
(* once and never more pages than the pool has frames, and all variables   *)
(* keep their types.                                                       *)
THEOREM LruAlwaysConsistent == PoolSpec => []LruConsistent
<1>1. PoolInv => LruConsistent
  BY DEF PoolInv
<1> QED
  BY <1>1, PoolInvariant, PTL

(* The snapshots, before-images and owners that UnpinPage and FlushAll     *)
(* keep are what the file holds, exactly for the dirty pages.              *)
THEOREM ImagesAlwaysTrackDisk == PoolSpec => []ImagesTrackDisk
<1>1. PoolInv => ImagesTrackDisk
  BY DEF PoolInv
<1> QED
  BY <1>1, PoolInvariant, PTL

(* The records that writeWALUpdate appends are chained, page by page, and  *)
(* end at what the file holds.                                             *)
THEOREM LogAlwaysExplainsDisk == PoolSpec => []LogExplainsDisk
<1>1. PoolInv => LogExplainsDisk
  BY DEF PoolInv
<1> QED
  BY <1>1, PoolInvariant, PTL

(* FetchPage and FlushAll write a page to the file only after the log has  *)
(* the record of that change.                                              *)
THEOREM LogWrittenAhead == PoolSpec => WriteAhead
<1> DEFINE Ahead == \A p \in Pages :
                      disk'[p] # disk[p] =>
                        \/ p \in free' \ free
                        \/ \E i \in DOMAIN log : /\ IsLastUpdate(i, p)
                                                /\ log[i].before = disk[p]
                                                /\ log[i].after = disk'[p]
<1>1. ASSUME PoolInv, [PoolNext]_poolVars PROVE [Ahead]_poolVars
  <2> SUFFICES ASSUME NEW p \in Pages, disk'[p] # disk[p]
               PROVE  \/ p \in free' \ free
                      \/ \E i \in DOMAIN log : /\ IsLastUpdate(i, p)
                                              /\ log[i].before = disk[p]
                                              /\ log[i].after = disk'[p]
    OBVIOUS
  <2>1. PoolTypeOK
    BY <1>1 DEF PoolInv, LruConsistent
  <2>2. CASE FetchEvictWrite \/ FlushWrite
    <3>1. victim \in Pages /\ victim # NoPage /\ disk' = [disk EXCEPT ![victim] = data[victim]]
      BY <1>1, <2>1, <2>2, PoolAssumption DEF FetchEvictWrite, FlushWrite, PoolInv, Midway, PoolTypeOK
    <3>2. p = victim /\ disk'[p] = data[victim]
      BY <3>1, <2>1 DEF PoolTypeOK
    <3> QED
      BY <1>1, <3>1, <3>2 DEF PoolInv, Midway
  <2>3. ASSUME NEW q \in Pages, FreePage(q) PROVE p \in free' \ free
    BY <2>1, <2>3 DEF FreePage, PoolTypeOK
  <2>4. ASSUME NEW t \in TxnIDs, op = "idle", RollbackTxn(t), UNCHANGED <<log, currentTxnID>> PROVE FALSE
    BY <1>1, <2>4, RollbackTxnInv
  <2>5. ~(UNCHANGED disk)
    OBVIOUS
  <2> QED
    BY <1>1, <2>2, <2>3, <2>4, <2>5
    DEF PoolNext, PoolStep, FlushStep, FetchHit, FetchMiss, FetchEvictLog, UnpinPage, AllocatePage,
        FlushBegin, FlushLog, FlushEnd, poolVars
<1> QED
  BY <1>1, PoolInvariant, PTL DEF PoolSpec, WriteAhead

(* FetchPage never evicts a pinned page: it leaves the pool only when the  *)
(* trees free it.                                                          *)
THEOREM PinnedAlwaysStays == PoolSpec => PinnedStays
<1> DEFINE Stay == \A p \in Pages : Cached(p) /\ pinCount[p] > 0 => Cached(p)' \/ p \in free' \ free
<1>1. ASSUME PoolInv, [PoolNext]_poolVars PROVE [Stay]_poolVars
  <2> SUFFICES ASSUME NEW p \in Pages, Cached(p), pinCount[p] > 0
               PROVE  Cached(p)' \/ p \in free' \ free
    OBVIOUS
  <2>1. PoolTypeOK
    BY <1>1 DEF PoolInv, LruConsistent
  <2>2. ASSUME NEW q \in Pages, FetchMiss(q) PROVE Cached(p)'
    <3>1. PICK v \in Pages \cup {NoPage} : Replace(v, q, disk) /\ (v = NoPage \/ IsVictim(v))
      BY <2>2 DEF FetchMiss
    <3>2. p # v
      BY <3>1, PoolAssumption DEF IsVictim
    <3>3. disk[q] # NoImage
      BY <2>1, PoolAssumption DEF PoolTypeOK, AllImages
    <3> QED
      BY <3>1, <3>2, <3>3 DEF Replace, Cached
  <2>3. CASE FetchEvictWrite
    <3>1. p # victim /\ want \in Pages
      <4>1. Midway /\ op = "evicting"
        BY <1>1, <2>3 DEF PoolInv, FetchEvictWrite
      <4> QED
        BY <4>1 DEF Midway
    <3>2. PoolInv'
      BY <1>1, NextInv
    <3>3. disk'[want] # NoImage
      BY <3>1, <3>2, PoolAssumption DEF PoolInv, LruConsistent, PoolTypeOK, AllImages
    <3> QED
      BY <2>3, <3>1, <3>3 DEF FetchEvictWrite, Replace, Cached
  <2>4. ASSUME NEW q \in Pages, NEW d \in BOOLEAN, NEW v \in AllImages, UnpinPage(q, d, v) PROVE Cached(p)'
    BY <2>1, <2>4, PoolAssumption DEF UnpinPage, Cached, PoolTypeOK, AllImages
  <2>5. ASSUME NEW q \in Pages, FreePage(q) PROVE Cached(p)' \/ p \in free' \ free
    BY <2>1, <2>5 DEF FreePage, Cached, PoolTypeOK
  <2>6. ASSUME NEW t \in TxnIDs, RollbackTxn(t) PROVE Cached(p)'
    BY <2>6 DEF RollbackTxn, Cached
  <2>7. CASE UNCHANGED data
    BY <2>7 DEF Cached
  <2> QED
    BY <1>1, <2>2, <2>3, <2>4, <2>5, <2>6, <2>7
    DEF PoolNext, PoolStep, FlushStep, FetchHit, FetchEvictLog, AllocatePage,
        FlushBegin, FlushLog, FlushWrite, FlushEnd, cacheVars, poolVars
<1> QED
  BY <1>1, PoolInvariant, PTL DEF PoolSpec, PinnedStays
=============================================================================
