----------------------------- MODULE BufferPool -----------------------------
(***************************************************************************)
(* The page cache of storage/buffer_pool.go, with the two files it writes: *)
(* the database file (disk) and the write-ahead log (log).                 *)
(*                                                                         *)
(* A page's 4096 bytes are one value: a member of Images when it is a node *)
(* of a tree, LinkImage when it is a link of the pager's free list. The    *)
(* process is single-threaded, so a method is one step, except that a      *)
(* dirty page goes out in two (first its log record, then the page): a     *)
(* crash may fall between them.                                            *)
(*                                                                         *)
(* The Go maps are functions on Pages with a value for "not in the map".   *)
(* frames, lruMap and lruList always have the same pages, so frames is     *)
(* data # NoImage.                                                         *)
(***************************************************************************)
EXTENDS Naturals, Sequences

CONSTANTS
  Pages,       \* page IDs
  Images,      \* contents of a page the trees use
  LinkImage,   \* content of a page on the free list
  NoImage,     \* "not in the map"
  NoPage,      \* "no page"
  TxnIDs,      \* transaction IDs; 0 is the ID outside any transaction
  NoTxn,       \* "not in the map"
  Capacity,    \* frames of the pool
  MaxLog,      \* bound on the length of the log
  MaxPin,      \* bound on a pin count
  Freeable     \* the pages the trees may give back to the pager

ASSUME PoolAssumption ==
  /\ LinkImage \notin Images
  /\ NoImage \notin Images \cup {LinkImage}
  /\ NoPage \notin Pages
  /\ 0 \in TxnIDs
  /\ NoTxn \notin TxnIDs
  /\ Capacity \in Nat \ {0}
  /\ MaxLog \in Nat
  /\ MaxPin \in Nat
  /\ Freeable \subseteq Pages

VARIABLES
  disk,            \* the database file
  log,             \* the records of the log file
  data,            \* frames: the content of each cached page
  dirty,           \* the cached pages marked dirty
  pinCount,
  lruList,         \* the cached pages, most recently used first
  cleanSnapshots,
  beforeImages,
  dirtyTxn,
  currentTxnID,
  free,            \* the pages on the pager's free list
  op,              \* the method in progress between two of its file writes
  victim,          \* its page whose record is in the log and is to be written
  want             \* the page the interrupted FetchPage is to load

poolVars == <<disk, log, data, dirty, pinCount, lruList, cleanSnapshots,
              beforeImages, dirtyTxn, currentTxnID, free, op, victim, want>>

\* The maps of the pool that only this module's methods read and write.
cacheVars == <<data, dirty, pinCount, lruList, cleanSnapshots, beforeImages, dirtyTxn>>

AllImages == Images \cup {LinkImage}

RecordUpdate == "update"
Record == [type : {RecordUpdate, "begin", "commit", "abort"}, txnID : TxnIDs,
           page : Pages \cup {NoPage}, before : AllImages \cup {NoImage},
           after : AllImages \cup {NoImage}]

\* The types of all variables.
PoolTypeOK ==
  /\ disk \in [Pages -> AllImages]
  /\ log \in Seq(Record)
  /\ data \in [Pages -> AllImages \cup {NoImage}]
  /\ dirty \in SUBSET Pages
  /\ pinCount \in [Pages -> Nat]
  /\ lruList \in Seq(Pages)
  /\ cleanSnapshots \in [Pages -> AllImages \cup {NoImage}]
  /\ beforeImages \in [Pages -> AllImages \cup {NoImage}]
  /\ dirtyTxn \in [Pages -> TxnIDs \cup {NoTxn}]
  /\ currentTxnID \in TxnIDs
  /\ free \in SUBSET Pages
  /\ op \in {"idle", "evicting", "flushing"}
  /\ victim \in Pages \cup {NoPage}
  /\ want \in Pages \cup {NoPage}

\* A new pool: nothing cached.
EmptyPool ==
  /\ data = [p \in Pages |-> NoImage]
  /\ dirty = {}
  /\ pinCount = [p \in Pages |-> 0]
  /\ lruList = <<>>
  /\ cleanSnapshots = [p \in Pages |-> NoImage]
  /\ beforeImages = [p \in Pages |-> NoImage]
  /\ dirtyTxn = [p \in Pages |-> NoTxn]
  /\ currentTxnID = 0

\* NewBufferPool, on the next Open.
NewBufferPool ==
  /\ data' = [p \in Pages |-> NoImage]
  /\ dirty' = {}
  /\ pinCount' = [p \in Pages |-> 0]
  /\ lruList' = <<>>
  /\ cleanSnapshots' = [p \in Pages |-> NoImage]
  /\ beforeImages' = [p \in Pages |-> NoImage]
  /\ dirtyTxn' = [p \in Pages |-> NoTxn]
  /\ currentTxnID' = 0

\* A database file whose free list is in order, and an empty log.
PoolInit ==
  /\ free \in SUBSET Freeable
  /\ disk \in [Pages -> AllImages]
  /\ \A p \in Pages : disk[p] = LinkImage <=> p \in free
  /\ log = <<>>
  /\ EmptyPool
  /\ op = "idle"
  /\ victim = NoPage
  /\ want = NoPage

Cached(p) == data[p] # NoImage

\* list.Remove, list.PushFront and list.MoveToFront on lruList.
Without(s, p) ==
  LET i == CHOOSE k \in DOMAIN s : s[k] = p
  IN [k \in 1 .. Len(s) - 1 |-> IF k < i THEN s[k] ELSE s[k + 1]]
PushFront(s, p) == <<p>> \o s
-----------------------------------------------------------------------------
(* Writing a dirty page out *)

\* Mutant: the test for a missing before-image is inverted.
writeWALUpdateInverted(p) ==
  log' = IF beforeImages[p] # NoImage THEN log
         ELSE Append(log, [type |-> RecordUpdate, txnID |-> dirtyTxn[p], page |-> p,
                           before |-> beforeImages[p], after |-> data[p]])

\* writeWALUpdate: the before-image is the one captured when the page became
\* dirty, or else the clean snapshot; a page with neither is not logged, and a
\* page without an owner is logged under ID 0.
writeWALUpdate(p) ==
  LET before == IF beforeImages[p] # NoImage THEN beforeImages[p] ELSE cleanSnapshots[p]
      owner == IF dirtyTxn[p] # NoTxn THEN dirtyTxn[p] ELSE 0
  IN log' = IF before = NoImage THEN log
            ELSE Append(log, [type |-> RecordUpdate, txnID |-> owner, page |-> p,
                              before |-> before, after |-> data[p]])

\* Mutant: the victim is the last page of the list, pinned or not.
IsVictimPinned(v) == lruList # <<>> /\ v = lruList[Len(lruList)]

\* The last unpinned page of the LRU list.
IsVictim(v) ==
  \E i \in DOMAIN lruList :
    /\ lruList[i] = v
    /\ pinCount[v] = 0
    /\ \A j \in DOMAIN lruList : j > i => pinCount[lruList[j]] # 0

\* Mutant: the victim's element stays in the LRU list.
ReplaceKeepsElement(v, p, d) ==
  /\ data' = [q \in Pages |-> IF q = p THEN d[p] ELSE IF q = v THEN NoImage ELSE data[q]]
  /\ cleanSnapshots' = [q \in Pages |-> IF q = p THEN d[p] ELSE IF q = v THEN NoImage
                                        ELSE cleanSnapshots[q]]
  /\ pinCount' = [q \in Pages |-> IF q = p THEN 1 ELSE IF q = v THEN 0 ELSE pinCount[q]]
  /\ lruList' = PushFront(lruList, p)
  /\ dirty' = dirty \ {v}
  /\ beforeImages' = [q \in Pages |-> IF q = v THEN NoImage ELSE beforeImages[q]]
  /\ dirtyTxn' = [q \in Pages |-> IF q = v THEN NoTxn ELSE dirtyTxn[q]]

\* Page v is evicted (NoPage: there was room) and page p loaded in its place,
\* from the file d.
Replace(v, p, d) ==
  /\ data' = [q \in Pages |-> IF q = p THEN d[p] ELSE IF q = v THEN NoImage ELSE data[q]]
  /\ cleanSnapshots' = [q \in Pages |-> IF q = p THEN d[p] ELSE IF q = v THEN NoImage
                                        ELSE cleanSnapshots[q]]
  /\ pinCount' = [q \in Pages |-> IF q = p THEN 1 ELSE IF q = v THEN 0 ELSE pinCount[q]]
  /\ lruList' = PushFront(IF v = NoPage THEN lruList ELSE Without(lruList, v), p)
  /\ dirty' = dirty \ {v}
  /\ beforeImages' = [q \in Pages |-> IF q = v THEN NoImage ELSE beforeImages[q]]
  /\ dirtyTxn' = [q \in Pages |-> IF q = v THEN NoTxn ELSE dirtyTxn[q]]
-----------------------------------------------------------------------------
(* The methods *)

\* FetchPage of a cached page.
FetchHit(p) ==
  /\ op = "idle"
  /\ Cached(p)
  /\ pinCount[p] < MaxPin
  /\ lruList' = PushFront(Without(lruList, p), p)
  /\ pinCount' = [pinCount EXCEPT ![p] = @ + 1]
  /\ UNCHANGED <<disk, log, data, dirty, cleanSnapshots, beforeImages, dirtyTxn,
                 currentTxnID, free, op, victim, want>>

\* FetchPage of a page that is not cached, when no dirty page has to leave: a
\* frame is unused, or the victim is clean. The trees never fetch a free page.
FetchMiss(p) ==
  /\ op = "idle"
  /\ p \notin free
  /\ ~Cached(p)
  /\ \/ /\ Len(lruList) < Capacity
        /\ Replace(NoPage, p, disk)
     \/ /\ Len(lruList) >= Capacity
        /\ \E v \in Pages \ dirty : IsVictim(v) /\ Replace(v, p, disk)
  /\ UNCHANGED <<disk, log, currentTxnID, free, op, victim, want>>

\* FetchPage that evicts a dirty page: first the victim's log record ...
FetchEvictLog(p) ==
  /\ op = "idle"
  /\ p \notin free
  /\ ~Cached(p)
  /\ Len(lruList) >= Capacity
  /\ Len(log) < MaxLog
  /\ \E v \in dirty : IsVictim(v) /\ writeWALUpdate(v) /\ victim' = v
  /\ op' = "evicting"
  /\ want' = p
  /\ UNCHANGED <<disk, cacheVars, currentTxnID, free>>

\* Mutant: the victim is dropped without being written.
FetchEvictWriteDropped ==
  /\ op = "evicting"
  /\ Replace(victim, want, disk)
  /\ op' = "idle"
  /\ victim' = NoPage
  /\ want' = NoPage
  /\ UNCHANGED <<disk, log, currentTxnID, free>>

\* ... then the victim itself; the wanted page takes its frame.
FetchEvictWrite ==
  /\ op = "evicting"
  /\ disk' = [disk EXCEPT ![victim] = data[victim]]
  /\ Replace(victim, want, disk')
  /\ op' = "idle"
  /\ victim' = NoPage
  /\ want' = NoPage
  /\ UNCHANGED <<log, currentTxnID, free>>

\* Mutant: every dirtying unpin captures the before-image, not only the first.
UnpinPageRecapture(p, d, v) ==
  /\ op = "idle"
  /\ Cached(p)
  /\ pinCount[p] > 0
  /\ IF d THEN v \in Images ELSE v = data[p]
  /\ pinCount' = [pinCount EXCEPT ![p] = @ - 1]
  /\ data' = [data EXCEPT ![p] = v]
  /\ dirty' = IF d THEN dirty \cup {p} ELSE dirty
  /\ beforeImages' = IF d THEN [beforeImages EXCEPT ![p] = data[p]] ELSE beforeImages
  /\ dirtyTxn' = IF d THEN [dirtyTxn EXCEPT ![p] = currentTxnID] ELSE dirtyTxn
  /\ UNCHANGED <<disk, log, lruList, cleanSnapshots, currentTxnID, free, op, victim, want>>

\* The caller has changed the content of its pinned page to v (to what it was,
\* when it passes dirty = FALSE) and calls UnpinPage.
UnpinPage(p, d, v) ==
  /\ op = "idle"
  /\ Cached(p)
  /\ pinCount[p] > 0
  /\ IF d THEN v \in Images ELSE v = data[p]
  /\ pinCount' = [pinCount EXCEPT ![p] = @ - 1]
  /\ data' = [data EXCEPT ![p] = v]
  /\ IF d /\ p \notin dirty
     THEN /\ dirty' = dirty \cup {p}
          /\ beforeImages' = [beforeImages EXCEPT ![p] = cleanSnapshots[p]]
          /\ dirtyTxn' = [dirtyTxn EXCEPT ![p] = currentTxnID]
     ELSE UNCHANGED <<dirty, beforeImages, dirtyTxn>>
  /\ UNCHANGED <<disk, log, lruList, cleanSnapshots, currentTxnID, free, op, victim, want>>

\* FlushAll visits the frames in any order; each dirty one is logged ...
FlushBegin ==
  /\ op = "idle"
  /\ op' = "flushing"
  /\ UNCHANGED <<disk, log, cacheVars, currentTxnID, free, victim, want>>

FlushLog(p) ==
  /\ op = "flushing"
  /\ victim = NoPage
  /\ p \in dirty
  /\ Len(log) < MaxLog
  /\ writeWALUpdate(p)
  /\ victim' = p
  /\ UNCHANGED <<disk, cacheVars, currentTxnID, free, op, want>>

\* ... and written, and its content becomes the clean snapshot.
FlushWrite ==
  /\ op = "flushing"
  /\ victim # NoPage
  /\ disk' = [disk EXCEPT ![victim] = data[victim]]
  /\ dirty' = dirty \ {victim}
  /\ cleanSnapshots' = [cleanSnapshots EXCEPT ![victim] = data[victim]]
  /\ beforeImages' = [beforeImages EXCEPT ![victim] = NoImage]
  /\ dirtyTxn' = [dirtyTxn EXCEPT ![victim] = NoTxn]
  /\ victim' = NoPage
  /\ UNCHANGED <<log, data, pinCount, lruList, currentTxnID, free, op, want>>

FlushEnd ==
  /\ op = "flushing"
  /\ victim = NoPage
  /\ dirty = {}
  /\ op' = "idle"
  /\ UNCHANGED <<disk, log, cacheVars, currentTxnID, free, victim, want>>

\* Mutant: every dirty page is restored, whoever dirtied it.
RollbackTxnAnyOwner(t) ==
  /\ data' = [p \in Pages |-> IF p \in dirty THEN beforeImages[p] ELSE data[p]]
  /\ dirty' = {}
  /\ beforeImages' = [p \in Pages |-> NoImage]
  /\ dirtyTxn' = [p \in Pages |-> NoTxn]
  /\ UNCHANGED <<disk, pinCount, lruList, cleanSnapshots, free, op, victim, want>>

\* RollbackTxn: the pages the transaction was the first to dirty get their
\* before-image back, in the cache or else in the file.
RollbackTxn(t) ==
  LET undone == {p \in Pages : dirtyTxn[p] = t /\ beforeImages[p] # NoImage}
      inCache == {p \in undone : Cached(p)}
  IN /\ data' = [p \in Pages |-> IF p \in inCache THEN beforeImages[p] ELSE data[p]]
     /\ dirty' = dirty \ inCache
     /\ cleanSnapshots' = [p \in Pages |-> IF p \in inCache THEN beforeImages[p]
                                           ELSE cleanSnapshots[p]]
     /\ disk' = [p \in Pages |-> IF p \in undone \ inCache THEN beforeImages[p] ELSE disk[p]]
     /\ beforeImages' = [p \in Pages |-> IF p \in undone THEN NoImage ELSE beforeImages[p]]
     /\ dirtyTxn' = [p \in Pages |-> IF p \in undone THEN NoTxn ELSE dirtyTxn[p]]
     /\ UNCHANGED <<pinCount, lruList, free, op, victim, want>>

SetTxnID(t) == currentTxnID' = t

\* FreePage: the frame is dropped, pinned and dirty or not, and the pager writes
\* the page's link over it, past the log.
FreePage(p) ==
  /\ op = "idle"
  /\ p \in Freeable \ free
  /\ data' = [data EXCEPT ![p] = NoImage]
  /\ dirty' = dirty \ {p}
  /\ pinCount' = [pinCount EXCEPT ![p] = 0]
  /\ lruList' = IF Cached(p) THEN Without(lruList, p) ELSE lruList
  /\ cleanSnapshots' = [cleanSnapshots EXCEPT ![p] = NoImage]
  /\ beforeImages' = [beforeImages EXCEPT ![p] = NoImage]
  /\ dirtyTxn' = [dirtyTxn EXCEPT ![p] = NoTxn]
  /\ disk' = [disk EXCEPT ![p] = LinkImage]
  /\ free' = free \cup {p}
  /\ UNCHANGED <<log, currentTxnID, op, victim, want>>

\* AllocatePage: the pager hands out a page of its free list as it is.
AllocatePage(p) ==
  /\ op = "idle"
  /\ p \in free
  /\ free' = free \ {p}
  /\ UNCHANGED <<disk, log, cacheVars, currentTxnID, op, victim, want>>

\* A step of a method the trees call.
PoolStep ==
  \/ \E p \in Pages : FetchHit(p) \/ FetchMiss(p) \/ FetchEvictLog(p)
  \/ FetchEvictWrite
  \/ \E p \in Pages, d \in BOOLEAN, v \in AllImages : UnpinPage(p, d, v)
  \/ \E p \in Pages : FreePage(p) \/ AllocatePage(p)

FlushStep == (\E p \in Pages : FlushLog(p)) \/ FlushWrite

\* The pool by itself: RollbackTxn and SetTxnID take any ID.
PoolNext ==
  \/ PoolStep
  \/ FlushBegin
  \/ FlushStep
  \/ FlushEnd
  \/ \E t \in TxnIDs : /\ op = "idle"
                       /\ RollbackTxn(t)
                       /\ UNCHANGED <<log, currentTxnID>>
  \/ \E t \in TxnIDs : /\ op = "idle"
                       /\ SetTxnID(t)
                       /\ UNCHANGED <<disk, log, cacheVars, free, op, victim, want>>

PoolSpec == PoolInit /\ [][PoolNext]_poolVars
-----------------------------------------------------------------------------
(* What the pool promises *)

IsUpdate(i, p) == log[i].type = RecordUpdate /\ log[i].page = p

\* The i-th record is the last update of page p in the log.
IsLastUpdate(i, p) ==
  /\ IsUpdate(i, p)
  /\ \A j \in DOMAIN log : j > i => ~IsUpdate(j, p)

\* What the trees see of a page: its frame, or else the file.
View(p) == IF Cached(p) THEN data[p] ELSE disk[p]

\* The LRU list that FetchPage chooses its victim from has every cached page
\* exactly once, and no more pages than the pool has frames (and all variables
\* have their types).
LruConsistent ==
  /\ PoolTypeOK
  /\ \A p \in Pages : Cached(p) <=> \E i \in DOMAIN lruList : lruList[i] = p
  /\ \A i, j \in DOMAIN lruList : lruList[i] = lruList[j] => i = j
  /\ Len(lruList) <= Capacity

\* The snapshot of a cached page is what the file holds, so the page is clean
\* exactly when its content is, and the before-image and the owner UnpinPage
\* captured are there exactly for the dirty pages. RollbackTxn and
\* writeWALUpdate restore and log nothing else.
ImagesTrackDisk ==
  \A p \in Pages :
    /\ Cached(p) => cleanSnapshots[p] = disk[p]
    /\ Cached(p) /\ p \notin dirty => data[p] = disk[p]
    /\ p \in dirty => Cached(p) /\ beforeImages[p] = disk[p] /\ dirtyTxn[p] # NoTxn
    /\ p \notin dirty => beforeImages[p] = NoImage /\ dirtyTxn[p] = NoTxn

\* Successive records of a page follow on from each other: each one starts from
\* where the one before ended, which is what makes undoing them in reverse order
\* (undoPass) lead back to the first before-image. A page that was on the free
\* list in between starts from its link.
LogChained ==
  \A i, j \in DOMAIN log :
    i < j /\ log[i].type = RecordUpdate /\ IsUpdate(j, log[i].page)
      /\ (\A k \in DOMAIN log : i < k /\ k < j => ~IsUpdate(k, log[i].page))
      => log[j].before \in {log[i].after, LinkImage}

\* The log accounts for the file: its records are chained, and the last update
\* record of a page has the page's content on disk as its after-image, or as its
\* before-image while FetchPage or FlushAll is between the record and the write.
\* Only a page the pager has put on the free list differs.
LogExplainsDisk ==
  /\ LogChained
  /\ \A p \in Pages : \A i \in DOMAIN log :
       IsLastUpdate(i, p) /\ disk[p] # LinkImage =>
         disk[p] = IF p = victim THEN log[i].before ELSE log[i].after

\* Write-ahead: FetchPage and FlushAll write a page only after the log has a
\* record of that very change; the only other write to the file is the pager's
\* link over a freed page.
WriteAhead ==
  [][\A p \in Pages :
       disk'[p] # disk[p] =>
         \/ p \in free' \ free
         \/ \E i \in DOMAIN log : /\ IsLastUpdate(i, p)
                                 /\ log[i].before = disk[p]
                                 /\ log[i].after = disk'[p]]_poolVars

\* A page that a caller has pinned is not evicted under it: it leaves the pool
\* only when it is freed.
PinnedStays ==
  [][\A p \in Pages :
       Cached(p) /\ pinCount[p] > 0 => Cached(p)' \/ p \in free' \ free]_poolVars
=============================================================================
