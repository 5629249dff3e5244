--------------------------- MODULE DatabaseProofs ---------------------------
(***************************************************************************)
(* The inductive invariant of a database, from session to session, and the *)
(* proof that the steps of a session keep it. RecoveryProofs has the end   *)
(* of a process, Recover and what follows.                                 *)
(*                                                                         *)
(* The invariant has one part for each stage of the life of a page's       *)
(* change: in the pool and the log of a session (Session, InFlight), in    *)
(* the log of a database that is down (Restorable), and between the log    *)
(* and the file while Recover redoes and undoes (Redoing, Undoing,         *)
(* Aborting).                                                              *)
(***************************************************************************)
EXTENDS Database, BufferPoolProofs

(* The transactions that the first n records of a log leave unfinished, as *)
(* analysisPass counts them, and those the whole log does.                 *)
UnfinishedIn(l, n) ==
  {t \in TxnIDs :
     \E i \in DOMAIN l :
       /\ i <= n /\ l[i].type = "begin" /\ l[i].txnID = t
       /\ \A j \in DOMAIN l :
            i < j /\ j <= n => ~(l[j].txnID = t /\ l[j].type # RecordUpdate)}
Unfinished == UnfinishedIn(log, Len(log))

(* undoPass undoes the i-th record, and it is one of page p. *)
IsUndone(i, p) == IsUpdate(i, p) /\ log[i].txnID \in Unfinished

(* Record i is the first of page p after record n that undoPass undoes.    *)
IsFirstUndone(i, p, n) ==
  /\ n < i /\ IsUndone(i, p)
  /\ \A j \in DOMAIN log : n < j /\ j < i => ~IsUndone(j, p)
NoneUndone(p, n) == \A i \in DOMAIN log : n < i => ~IsUndone(i, p)

(* The first record of the page that undoPass undoes has what it is to be. *)
FirstImage(p) == \E i \in DOMAIN log : IsFirstUndone(i, p, 0) /\ log[i].before = base[p]
-----------------------------------------------------------------------------
(* A session *)

(* An update record has a page and two images, and a page with an update   *)
(* has a last one.                                                         *)
UpdatesSound ==
  /\ \A i \in DOMAIN log :
       log[i].type = RecordUpdate =>
         log[i].page \in Pages /\ log[i].before \in AllImages /\ log[i].after \in AllImages
  /\ \A p \in Pages :
       (\E i \in DOMAIN log : IsUpdate(i, p)) => \E i \in DOMAIN log : IsLastUpdate(i, p)

(* The IDs in use are below the manager's next one, so the ID of a new     *)
(* transaction is neither in the log nor on a dirty page.                  *)
IDsBelowNext ==
  /\ \A i \in DOMAIN log : log[i].txnID < nextID
  /\ \A p \in dirty : dirtyTxn[p] < nextID
  /\ currentTxnID < nextID

Session ==
  /\ PoolInv
  /\ tail = "none"
  /\ IDsBelowNext
  /\ Unfinished = IF InTxn THEN {currentTxnID} ELSE {}
  /\ ~InTxn => touched = {} /\ owned = {} /\ stolen = {}

(* The page still holds what it held at BEGIN. *)
Untouched(p) ==
  /\ View(p) = base[p]
  /\ p \in dirty /\ dirtyTxn[p] = currentTxnID => disk[p] = base[p]
  /\ FirstImage(p) \/ NoneUndone(p, 0)

(* The page is dirty, and the transaction in flight was first to dirty it. *)
DirtiedFirst(p) == p \in dirty /\ dirtyTxn[p] = currentTxnID /\ disk[p] = base[p]

(* The transaction in flight found the page clean and changed it: its      *)
(* first record of the page has the image at BEGIN, or the page has not    *)
(* left the pool.                                                          *)
Owned(p) ==
  /\ p \in touched
  /\ FirstImage(p) \/ (NoneUndone(p, 0) /\ DirtiedFirst(p) /\ p # victim)
  /\ op # "flushing" /\ p \notin stolen => DirtiedFirst(p)

InFlight ==
  \A p \in Pages : /\ p \notin touched => Untouched(p)
                   /\ p \in owned => Owned(p)
-----------------------------------------------------------------------------
(* A database that is down, and Recover *)

(* Redoing the log leaves the page as it is to be. *)
Redone(p) ==
  \/ \E i \in DOMAIN log : IsLastUpdate(i, p) /\ log[i].after = base[p]
  \/ (\A i \in DOMAIN log : ~IsUpdate(i, p)) /\ disk[p] = base[p]

(* Redoing and then undoing the log does. *)
Undone(p) == FirstImage(p) \/ (NoneUndone(p, 0) /\ Redone(p))

(* The log names one transaction at most to undo. Once Recover has no more *)
(* abort records to write, it may or may not be undone again: the pages it *)
(* has touched are safe no longer should the process end then.             *)
Restorable ==
  /\ \A t, u \in Unfinished : t = u
  /\ \A p \in safe \ touched : Redone(p)
  /\ \A p \in safe : p \notin touched \/ ~(mode = "abort" /\ active = {}) => Undone(p)

(* The file has the updates of page p among the records before n. *)
RedoneTo(p, n) ==
  \/ \E i \in DOMAIN log : /\ i < n /\ IsUpdate(i, p) /\ disk[p] = log[i].after
                           /\ \A j \in DOMAIN log : i < j /\ j < n => ~IsUpdate(j, p)
  \/ \A i \in DOMAIN log : i < n => ~IsUpdate(i, p)

(* analysisPass. *)
Redoing ==
  /\ pos \in 1 .. Len(log) + 1
  /\ active = UnfinishedIn(log, pos - 1)
  /\ \A p \in safe : RedoneTo(p, pos)

(* undoPass. *)
Undoing ==
  /\ pos \in 0 .. Len(log)
  /\ active = Unfinished
  /\ \A p \in safe :
       \/ \E i \in DOMAIN log : IsFirstUndone(i, p, pos) /\ disk[p] = log[i].before
       \/ NoneUndone(p, pos) /\ RedoneTo(p, Len(log) + 1)

(* undoPass, once the pages are written. *)
Aborting ==
  /\ active # {} => active = Unfinished
  /\ \A p \in safe : disk[p] = base[p]

(* A process that is not in a session has an empty pool. *)
Restarted == EmptyPool /\ op = "idle" /\ victim = NoPage /\ want = NoPage /\ nextID = 1
-----------------------------------------------------------------------------
(* The invariant *)

TypeOK ==
  /\ PoolTypeOK
  /\ mode \in Modes
  /\ pos \in Nat
  /\ active \in SUBSET TxnIDs
  /\ tail \in {"none", "header", "body"}
  /\ nextID \in Nat \ {0}
  /\ base \in [Pages -> AllImages \cup {NoImage}]
  /\ touched \in SUBSET Pages /\ owned \in SUBSET Pages
  /\ stolen \in SUBSET Pages /\ safe \in SUBSET Pages

DatabaseInv ==
  /\ TypeOK
  /\ UpdatesSound
  /\ mode = "open" => Session /\ (InTxn => InFlight)
  /\ mode # "open" => Restarted /\ Restorable
  /\ mode = "down" => active = {}
  /\ mode = "redo" => Redoing
  /\ mode = "undo" => Undoing
  /\ mode = "abort" => Aborting
-----------------------------------------------------------------------------
(* The log *)

LEMMA LogDomain ==
  ASSUME NEW l \in Seq(Record)
  PROVE  DOMAIN l = 1 .. Len(l) /\ Len(l) \in Nat /\ \A i \in DOMAIN l : l[i] \in Record
OBVIOUS

(* The log says of a page what it did. *)
LEMMA LogKept ==
  ASSUME UNCHANGED log
  PROVE  /\ Unfinished' = Unfinished
         /\ \A i, p : /\ IsUpdate(i, p)' <=> IsUpdate(i, p)
                      /\ IsLastUpdate(i, p)' <=> IsLastUpdate(i, p)
                      /\ IsUndone(i, p)' <=> IsUndone(i, p)
         /\ \A p, n : NoneUndone(p, n)' <=> NoneUndone(p, n)
         /\ \A i, p, n : IsFirstUndone(i, p, n)' <=> IsFirstUndone(i, p, n)
         /\ UpdatesSound' <=> UpdatesSound
<1>1. Unfinished' = Unfinished
  BY DEF Unfinished
<1>2. \A i, p : /\ IsUpdate(i, p)' <=> IsUpdate(i, p)
                /\ IsLastUpdate(i, p)' <=> IsLastUpdate(i, p)
  BY DEF IsUpdate, IsLastUpdate
<1>3. \A i, p : IsUndone(i, p)' <=> IsUndone(i, p)
  BY <1>1, <1>2 DEF IsUndone
<1>4. \A p, n : NoneUndone(p, n)' <=> NoneUndone(p, n)
  BY <1>3 DEF NoneUndone
<1>5. \A i, p, n : IsFirstUndone(i, p, n)' <=> IsFirstUndone(i, p, n)
  BY <1>3 DEF IsFirstUndone
<1>6. UpdatesSound' <=> UpdatesSound
  BY <1>2 DEF UpdatesSound
<1> QED
  BY <1>1, <1>2, <1>3, <1>4, <1>5, <1>6

(* Records stay where they are when one is appended. *)
LEMMA AppendFacts ==
  ASSUME log \in Seq(Record), NEW r \in Record, log' = Append(log, r)
  PROVE  /\ log' \in Seq(Record)
         /\ Len(log) \in Nat /\ Len(log') = Len(log) + 1
         /\ DOMAIN log = 1 .. Len(log) /\ DOMAIN log' = 1 .. Len(log) + 1
         /\ log'[Len(log) + 1] = r
         /\ \A i \in DOMAIN log : log'[i] = log[i]
BY DEF Record

(* What a record does to the transactions analysisPass holds for           *)
(* unfinished.                                                             *)
AfterRecord(ts, r) ==
  CASE r.type = "begin" -> ts \cup {r.txnID}
    [] r.type \in {"commit", "abort"} -> ts \ {r.txnID}
    [] OTHER -> ts

LEMMA UnfinishedStep ==
  ASSUME NEW l \in Seq(Record), NEW n \in Nat, n + 1 \in DOMAIN l
  PROVE  UnfinishedIn(l, n + 1) = AfterRecord(UnfinishedIn(l, n), l[n + 1])
<1> DEFINE Ends(t, j) == l[j].txnID = t /\ l[j].type # RecordUpdate
<1>1. DOMAIN l = 1 .. Len(l) /\ Len(l) \in Nat /\ l[n + 1] \in Record
  OBVIOUS
<1>2. \A j \in DOMAIN l : /\ j <= n + 1 <=> j <= n \/ j = n + 1
                          /\ j = n + 1 => ~(j <= n) /\ n < j
  BY <1>1
<1>3. l[n + 1].txnID \in TxnIDs /\ l[n + 1].type \in {RecordUpdate, "begin", "commit", "abort"}
  BY <1>1 DEF Record
<1>4. ASSUME NEW t \in TxnIDs, ~Ends(t, n + 1)
      PROVE  t \in UnfinishedIn(l, n + 1) <=> t \in UnfinishedIn(l, n)
  <2>1. l[n + 1].txnID # t \/ l[n + 1].type # "begin"
    BY <1>4 DEF RecordUpdate
  <2> QED
    BY <1>2, <1>4, <2>1 DEF UnfinishedIn
<1>5. ASSUME NEW t \in TxnIDs, Ends(t, n + 1)
      PROVE  t \in UnfinishedIn(l, n + 1) <=> l[n + 1].type = "begin"
  <2>1. ASSUME l[n + 1].type = "begin" PROVE t \in UnfinishedIn(l, n + 1)
    <3>1. ~\E j \in DOMAIN l : n + 1 < j /\ j <= n + 1
      BY <1>1
    <3>2. n + 1 <= n + 1
      OBVIOUS
    <3> QED
      BY <2>1, <3>1, <3>2, <1>5 DEF UnfinishedIn
  <2>2. ASSUME t \in UnfinishedIn(l, n + 1), l[n + 1].type # "begin" PROVE FALSE
    <3>1. PICK i \in DOMAIN l : /\ i <= n + 1 /\ l[i].type = "begin"
                                /\ \A j \in DOMAIN l : i < j /\ j <= n + 1 => ~Ends(t, j)
      BY <2>2 DEF UnfinishedIn
    <3>2. i # n + 1
      BY <3>1, <2>2
    <3>3. i < n + 1 /\ n + 1 <= n + 1
      BY <3>1, <3>2, <1>1
    <3> QED
      BY <3>1, <3>3, <1>5
  <2> QED
    BY <2>1, <2>2
<1>6. UnfinishedIn(l, n) \subseteq TxnIDs /\ UnfinishedIn(l, n + 1) \subseteq TxnIDs
  BY DEF UnfinishedIn
<1>7. CASE l[n + 1].type = RecordUpdate
  BY <1>4, <1>6, <1>7 DEF AfterRecord, RecordUpdate
<1>8. CASE l[n + 1].type = "begin"
  BY <1>3, <1>4, <1>5, <1>6, <1>8 DEF AfterRecord, RecordUpdate
<1>9. CASE l[n + 1].type \in {"commit", "abort"}
  BY <1>3, <1>4, <1>5, <1>6, <1>9 DEF AfterRecord, RecordUpdate
<1> QED
  BY <1>3, <1>7, <1>8, <1>9

(* The same for a record that is appended. *)
LEMMA UnfinishedAppend ==
  ASSUME log \in Seq(Record), NEW r \in Record, log' = Append(log, r)
  PROVE  Unfinished' = AfterRecord(Unfinished, r)
<1>1. PICK n \in Nat : n = Len(log)
  OBVIOUS
<1>2. /\ log' \in Seq(Record) /\ Len(log') = n + 1
      /\ DOMAIN log = 1 .. n /\ DOMAIN log' = 1 .. n + 1
      /\ log'[n + 1] = r /\ \A i \in DOMAIN log : log'[i] = log[i]
  BY <1>1, AppendFacts
<1>3. UnfinishedIn(log', n) = UnfinishedIn(log, n)
  <2>1. \A i \in 1 .. n + 1 : i <= n <=> i \in 1 .. n
    OBVIOUS
  <2>2. \A i \in 1 .. n : i \in 1 .. n + 1
    OBVIOUS
  <2> QED
    BY <1>2, <2>1, <2>2 DEF UnfinishedIn
<1>4. UnfinishedIn(log', n + 1) = AfterRecord(UnfinishedIn(log', n), log'[n + 1])
  <2>1. n + 1 \in DOMAIN log'
    BY <1>2
  <2> QED
    BY <1>2, <2>1, UnfinishedStep
<1> QED
  BY <1>1, <1>2, <1>3, <1>4 DEF Unfinished

(* A record without images changes nothing of what the log says of pages.  *)
LEMMA OtherRecord ==
  ASSUME log \in Seq(Record), NEW r \in Record, r.type # RecordUpdate, log' = Append(log, r)
  PROVE  \A p : \A i \in DOMAIN log' : /\ IsUpdate(i, p)' <=> i \in DOMAIN log /\ IsUpdate(i, p)
                                       /\ IsLastUpdate(i, p)' <=> i \in DOMAIN log /\ IsLastUpdate(i, p)
<1>1. PICK n \in Nat : n = Len(log)
  OBVIOUS
<1>2. /\ DOMAIN log = 1 .. n /\ DOMAIN log' = 1 .. n + 1
      /\ log'[n + 1] = r /\ \A i \in DOMAIN log : log'[i] = log[i]
  BY <1>1, AppendFacts
<1>3. \A p : \A i \in DOMAIN log' : IsUpdate(i, p)' <=> i \in DOMAIN log /\ IsUpdate(i, p)
  <2>1. \A i \in 1 .. n + 1 : i = n + 1 \/ i \in 1 .. n
    OBVIOUS
  <2> QED
    BY <2>1, <1>2 DEF IsUpdate
<1>4. \A i \in 1 .. n : i \in 1 .. n + 1
  OBVIOUS
<1> QED
  BY <1>2, <1>3, <1>4 DEF IsLastUpdate

LEMMA OtherRecordSound ==
  ASSUME log \in Seq(Record), NEW r \in Record, r.type # RecordUpdate, log' = Append(log, r),
         UpdatesSound
  PROVE  UpdatesSound'
<1>1. \A p : \A i \in DOMAIN log' : /\ IsUpdate(i, p)' <=> i \in DOMAIN log /\ IsUpdate(i, p)
                                    /\ IsLastUpdate(i, p)' <=> i \in DOMAIN log /\ IsLastUpdate(i, p)
  BY OtherRecord
<1>2. /\ DOMAIN log = 1 .. Len(log) /\ DOMAIN log' = 1 .. Len(log) + 1 /\ Len(log) \in Nat
      /\ log'[Len(log) + 1] = r /\ \A i \in DOMAIN log : log'[i] = log[i]
  BY AppendFacts
<1>3. \A i \in DOMAIN log : i \in DOMAIN log'
  BY <1>2
<1>4. \A i \in DOMAIN log' : log'[i].type = RecordUpdate => i \in DOMAIN log /\ log'[i] = log[i]
  BY <1>2
<1> QED
  BY <1>1, <1>3, <1>4 DEF UpdatesSound

(* Nor does it change what it says of the file. *)
LEMMA OtherRecordExplains ==
  ASSUME log \in Seq(Record), NEW r \in Record, r.type # RecordUpdate, log' = Append(log, r),
         LogExplainsDisk, UNCHANGED <<disk, victim>>
  PROVE  LogExplainsDisk'
<1>1. \A p : \A i \in DOMAIN log' : /\ IsUpdate(i, p)' <=> i \in DOMAIN log /\ IsUpdate(i, p)
                                    /\ IsLastUpdate(i, p)' <=> i \in DOMAIN log /\ IsLastUpdate(i, p)
  BY OtherRecord
<1>2. /\ DOMAIN log = 1 .. Len(log) /\ DOMAIN log' = 1 .. Len(log) + 1 /\ Len(log) \in Nat
      /\ log'[Len(log) + 1] = r /\ \A i \in DOMAIN log : log'[i] = log[i]
  BY AppendFacts
<1>3. \A i \in DOMAIN log : i \in DOMAIN log'
  BY <1>2
<1>4. \A i \in DOMAIN log' : log'[i].type = RecordUpdate => i \in DOMAIN log /\ log'[i] = log[i]
  BY <1>2
<1>5. LogChained'
  <2> SUFFICES ASSUME NEW i \in DOMAIN log', NEW j \in DOMAIN log', i < j,
                      log'[i].type = RecordUpdate, IsUpdate(j, log[i].page)',
                      \A k \in DOMAIN log' : i < k /\ k < j => ~IsUpdate(k, log[i].page)'
               PROVE  log'[j].before \in {log'[i].after, LinkImage}
    BY DEF LogChained
  <2>1. i \in DOMAIN log /\ j \in DOMAIN log /\ log'[i] = log[i] /\ log'[j] = log[j]
    BY <1>4 DEF IsUpdate
  <2>2. IsUpdate(j, log[i].page)
    BY <2>1 DEF IsUpdate
  <2>3. \A k \in DOMAIN log : i < k /\ k < j => ~IsUpdate(k, log[i].page)
    BY <1>2, <1>3, <2>1 DEF IsUpdate
  <2> QED
    BY <2>1, <2>2, <2>3 DEF LogExplainsDisk, LogChained
<1> QED
  BY <1>1, <1>2, <1>5 DEF LogExplainsDisk

(* writeWALUpdate of a dirty page appends the change from the file to the  *)
(* frame, under the name of who dirtied the page.                          *)
LEMMA UpdateRecord ==
  ASSUME PoolInv, NEW v \in dirty, writeWALUpdate(v)
  PROVE  \E r \in Record : /\ r.type = RecordUpdate /\ r.page = v /\ r.txnID = dirtyTxn[v]
                           /\ r.before = disk[v] /\ r.after = data[v]
                           /\ r.before \in AllImages /\ r.after \in AllImages
                           /\ log' = Append(log, r)
<1> USE PoolAssumption
<1> DEFINE r == [type |-> RecordUpdate, txnID |-> dirtyTxn[v], page |-> v,
                 before |-> disk[v], after |-> data[v]]
<1>1. PoolTypeOK /\ v \in Pages
  BY DEF PoolInv, LruConsistent, PoolTypeOK
<1>2. /\ Cached(v) /\ beforeImages[v] = disk[v] /\ dirtyTxn[v] # NoTxn
      /\ disk[v] \in AllImages /\ disk[v] # NoImage /\ data[v] \in AllImages
      /\ dirtyTxn[v] \in TxnIDs
  BY <1>1 DEF PoolInv, ImagesTrackDisk, PoolTypeOK, AllImages, Cached
<1>3. log' = Append(log, r)
  BY <1>2 DEF writeWALUpdate
<1>4. r \in Record
  BY <1>1, <1>2 DEF Record
<1> QED
  BY <1>2, <1>3, <1>4

(* What an appended update says of the pages. *)
LEMMA UpdateAppended ==
  ASSUME log \in Seq(Record), NEW r \in Record, r.type = RecordUpdate, log' = Append(log, r)
  PROVE  /\ Unfinished' = Unfinished
         /\ \A p : \A i \in DOMAIN log' :
              /\ IsUpdate(i, p)' <=> (i \in DOMAIN log /\ IsUpdate(i, p)) \/ (i = Len(log) + 1 /\ r.page = p)
              /\ IsUndone(i, p)' <=> \/ i \in DOMAIN log /\ IsUndone(i, p)
                                     \/ i = Len(log) + 1 /\ r.page = p /\ r.txnID \in Unfinished
<1>1. Unfinished' = Unfinished
  BY UnfinishedAppend DEF AfterRecord, RecordUpdate
<1>2. PICK n \in Nat : n = Len(log)
  OBVIOUS
<1>3. /\ DOMAIN log = 1 .. n /\ DOMAIN log' = 1 .. n + 1
      /\ log'[n + 1] = r /\ \A i \in DOMAIN log : log'[i] = log[i]
  BY <1>2, AppendFacts
<1>4. \A i \in 1 .. n + 1 : (i = n + 1 /\ i \notin 1 .. n) \/ (i # n + 1 /\ i \in 1 .. n)
  OBVIOUS
<1>5. \A p : \A i \in DOMAIN log' :
         IsUpdate(i, p)' <=> (i \in DOMAIN log /\ IsUpdate(i, p)) \/ (i = n + 1 /\ r.page = p)
  BY <1>3, <1>4 DEF IsUpdate
<1> QED
  BY <1>1, <1>2, <1>3, <1>4, <1>5 DEF IsUndone

(* The first record that undoPass undoes stays the first one, and is the   *)
(* new record if there was none.                                           *)
LEMMA FirstImageKept ==
  ASSUME log \in Seq(Record), NEW r \in Record, r.type = RecordUpdate, log' = Append(log, r),
         UNCHANGED base, NEW p \in Pages
  PROVE  /\ FirstImage(p) => FirstImage(p)'
         /\ NoneUndone(p, 0) /\ ~(r.page = p /\ r.txnID \in Unfinished) => NoneUndone(p, 0)'
         /\ NoneUndone(p, 0) /\ r.page = p /\ r.txnID \in Unfinished /\ r.before = base[p]
              => FirstImage(p)'
<1>1. PICK n \in Nat : n = Len(log)
  OBVIOUS
<1>2. /\ DOMAIN log = 1 .. n /\ DOMAIN log' = 1 .. n + 1
      /\ log'[n + 1] = r /\ \A i \in DOMAIN log : log'[i] = log[i]
  BY <1>1, AppendFacts
<1>3. \A i \in DOMAIN log' : IsUndone(i, p)' <=> \/ i \in DOMAIN log /\ IsUndone(i, p)
                                                 \/ i = n + 1 /\ r.page = p /\ r.txnID \in Unfinished
  BY <1>1, UpdateAppended
<1>4. \A i \in 1 .. n : i \in 1 .. n + 1 /\ i # n + 1 /\ i < n + 1 /\ 0 < i
  OBVIOUS
<1>5. ASSUME FirstImage(p) PROVE FirstImage(p)'
  <2>1. PICK i \in DOMAIN log : IsFirstUndone(i, p, 0) /\ log[i].before = base[p]
    BY <1>5 DEF FirstImage
  <2>2. i \in DOMAIN log' /\ log'[i].before = base'[p]
    BY <2>1, <1>2, <1>4
  <2>3. IsUndone(i, p)' /\ 0 < i
    BY <2>1, <2>2, <1>3 DEF IsFirstUndone
  <2>4. \A j \in DOMAIN log' : j < i => j \in DOMAIN log /\ j # n + 1
    BY <1>2, <2>1
  <2>5. IsFirstUndone(i, p, 0)'
    BY <2>1, <2>3, <2>4, <1>3 DEF IsFirstUndone
  <2> QED
    BY <2>2, <2>5 DEF FirstImage
<1>6. ASSUME NoneUndone(p, 0), ~(r.page = p /\ r.txnID \in Unfinished) PROVE NoneUndone(p, 0)'
  BY <1>3, <1>6 DEF NoneUndone
<1>7. ASSUME NoneUndone(p, 0), r.page = p, r.txnID \in Unfinished, r.before = base[p]
      PROVE  FirstImage(p)'
  <2>1. n + 1 \in DOMAIN log' /\ IsUndone(n + 1, p)' /\ log'[n + 1].before = base'[p] /\ 0 < n + 1
    BY <1>2, <1>3, <1>7
  <2>2. \A j \in DOMAIN log' : j < n + 1 => ~IsUndone(j, p)'
    BY <1>2, <1>3, <1>4, <1>7 DEF NoneUndone
  <2>3. IsFirstUndone(n + 1, p, 0)'
    BY <2>1, <2>2 DEF IsFirstUndone
  <2> QED
    BY <2>1, <2>3 DEF FirstImage
<1> QED
  BY <1>5, <1>6, <1>7

(* An appended update of a page is the last one of the page. *)
LEMMA UpdateAppendedSound ==
  ASSUME log \in Seq(Record), NEW r \in Record, r.type = RecordUpdate, log' = Append(log, r),
         r.page \in Pages, r.before \in AllImages, r.after \in AllImages, UpdatesSound
  PROVE  UpdatesSound'
<1>1. PICK n \in Nat : n = Len(log)
  OBVIOUS
<1>2. /\ DOMAIN log = 1 .. n /\ DOMAIN log' = 1 .. n + 1
      /\ log'[n + 1] = r /\ \A i \in DOMAIN log : log'[i] = log[i]
  BY <1>1, AppendFacts
<1>3. \A p : \A i \in DOMAIN log' :
         IsUpdate(i, p)' <=> (i \in DOMAIN log /\ IsUpdate(i, p)) \/ (i = n + 1 /\ r.page = p)
  BY <1>1, UpdateAppended
<1>4. \A i \in 1 .. n + 1 : i = n + 1 \/ i \in 1 .. n
  OBVIOUS
<1>5. ASSUME NEW p \in Pages, NEW i \in DOMAIN log', IsUpdate(i, p)'
      PROVE  \E j \in DOMAIN log' : IsLastUpdate(j, p)'
  <2>1. CASE r.page = p
    <3>1. n + 1 \in DOMAIN log' /\ IsUpdate(n + 1, p)' /\ ~\E j \in DOMAIN log' : j > n + 1
      BY <2>1, <1>2, <1>3
    <3> QED
      BY <3>1 DEF IsLastUpdate
  <2>2. CASE r.page # p
    <3>1. PICK j \in DOMAIN log : IsLastUpdate(j, p)
      BY <2>2, <1>3, <1>5 DEF UpdatesSound
    <3>2. j \in DOMAIN log' /\ IsUpdate(j, p)'
      BY <3>1, <1>2, <1>3 DEF IsLastUpdate
    <3>3. IsLastUpdate(j, p)'
      BY <2>2, <3>1, <3>2, <1>3 DEF IsLastUpdate
    <3> QED
      BY <3>2, <3>3
  <2> QED
    BY <2>1, <2>2
<1>6. \A i \in DOMAIN log' :
        log'[i].type = RecordUpdate =>
          log'[i].page \in Pages /\ log'[i].before \in AllImages /\ log'[i].after \in AllImages
  BY <1>2, <1>4 DEF UpdatesSound
<1> QED
  BY <1>5, <1>6 DEF UpdatesSound
-----------------------------------------------------------------------------
(* The transaction in flight *)

(* A step that writes no record keeps InFlight, when every page that is    *)
(* not touched by now shows what it did, and every owned page that was not *)
(* logged before is dirty under the transaction's name.                    *)
LEMMA FramesInFlight ==
  ASSUME InFlight, UNCHANGED <<log, base, currentTxnID>>, touched \subseteq touched',
         \A p \in Pages \ touched' :
           /\ View(p)' = View(p)
           /\ p \in dirty' /\ dirtyTxn'[p] = currentTxnID => disk'[p] = base[p],
         \A p \in Pages : p \in owned' =>
           /\ p \in touched' /\ (p \in owned \/ p \notin touched)
           /\ FirstImage(p) \/ (DirtiedFirst(p)' /\ p # victim')
           /\ op' # "flushing" /\ p \notin stolen' => DirtiedFirst(p)'
  PROVE  InFlight'
<1>1. /\ \A p : FirstImage(p)' <=> FirstImage(p)
      /\ \A p : NoneUndone(p, 0)' <=> NoneUndone(p, 0)
  BY DEF FirstImage, NoneUndone, IsFirstUndone, IsUndone, IsUpdate, Unfinished, UnfinishedIn
<1>2. ASSUME NEW p \in Pages \ touched' PROVE Untouched(p)'
  <2>1. Untouched(p)
    BY <1>2 DEF InFlight
  <2> QED
    BY <1>1, <1>2, <2>1 DEF Untouched
<1>3. ASSUME NEW p \in Pages, p \in owned' PROVE Owned(p)'
  <2>1. FirstImage(p) \/ NoneUndone(p, 0)
    BY <1>3 DEF InFlight, Owned, Untouched
  <2> QED
    BY <1>1, <1>3, <2>1 DEF Owned
<1> QED
  BY <1>2, <1>3 DEF InFlight

(* The steps of a statement that write no record. *)
LEMMA StatementInFlight ==
  ASSUME PoolInv, PoolInv', InTxn, InFlight, owned \subseteq touched, Statement, UNCHANGED log
  PROVE  InFlight'
<1> USE PoolAssumption
<1> DEFINE changed == {p \in Pages : InTxn /\ Cached(p) /\ Cached(p)' /\ data'[p] # data[p]}
           freed == {p \in free' \ free : InTxn}
<1>1. /\ touched' = touched \cup changed \cup freed
      /\ owned' = (owned \cup {p \in changed \ touched : p \notin dirty}) \ freed
      /\ stolen' = stolen \cup {p \in touched : Cached(p) /\ ~Cached(p)'}
      /\ UNCHANGED base
  BY DEF Statement
<1>2. PoolTypeOK /\ PoolTypeOK' /\ touched \subseteq touched' /\ owned' \subseteq touched'
  BY <1>1 DEF PoolInv, LruConsistent
<1>3. \A p \in Pages : p \in owned => p \in touched /\ Owned(p)
  BY DEF InFlight
<1>4. ASSUME UNCHANGED <<disk, data, dirty, dirtyTxn, currentTxnID, victim, op>>,
             free' \subseteq free
      PROVE  InFlight'
  <2>1. changed = {} /\ freed = {}
    BY <1>4
  <2>2. touched' = touched /\ owned' = owned /\ stolen \subseteq stolen'
    BY <1>1, <2>1
  <2>3. \A p \in Pages : /\ View(p)' = View(p)
                         /\ DirtiedFirst(p)' <=> DirtiedFirst(p)
    BY <1>1, <1>4 DEF View, Cached, DirtiedFirst
  <2>4. \A p \in Pages \ touched' : Untouched(p)
    BY <2>2 DEF InFlight
  <2> QED
    BY <1>1, <1>3, <1>4, <2>2, <2>3, <2>4, FramesInFlight DEF Untouched, Owned
<1>5. ASSUME NEW v, NEW q \in Pages, v # q, Replace(v, q, disk'), ~Cached(q),
             v \in Pages => Cached(v) /\ disk'[v] = data[v] /\ (v \in dirty => v = victim),
             \A p \in Pages \ {v} : disk'[p] = disk[p],
             UNCHANGED <<currentTxnID, free>>, op # "flushing", op' # "flushing",
             victim' = NoPage
      PROVE  InFlight'
  <2>1. /\ \A p \in Pages : data'[p] = IF p = q THEN disk'[q] ELSE IF p = v THEN NoImage ELSE data[p]
        /\ dirty' = dirty \ {v}
        /\ \A p \in Pages : dirtyTxn'[p] = IF p = v THEN NoTxn ELSE dirtyTxn[p]
    BY <1>5 DEF Replace
  <2>2. changed = {} /\ freed = {}
    <3>1. \A p \in Pages : Cached(p) /\ Cached(p)' => data'[p] = data[p]
      BY <1>5, <2>1 DEF Cached
    <3> QED
      BY <1>5, <3>1
  <2>3. touched' = touched /\ owned' = owned /\ stolen \subseteq stolen'
    BY <1>1, <2>2
  <2>4. ASSUME NEW p \in Pages PROVE View(p)' = View(p)
    <3>1. disk'[p] # NoImage
      BY <1>2 DEF PoolTypeOK, AllImages
    <3>2. CASE p = v
      BY <1>5, <2>1, <3>2 DEF View, Cached
    <3>3. CASE p # v
      BY <1>5, <2>1, <3>1, <3>3 DEF View, Cached
    <3> QED
      BY <3>2, <3>3
  <2>5. ASSUME NEW p \in Pages, p # v PROVE DirtiedFirst(p)' <=> DirtiedFirst(p)
    BY <1>1, <1>5, <2>1, <2>5 DEF DirtiedFirst
  <2>6. ASSUME NEW p \in Pages \ touched', p \in dirty', dirtyTxn'[p] = currentTxnID
        PROVE  disk'[p] = base[p]
    <3>1. p # v /\ p \in dirty /\ dirtyTxn[p] = currentTxnID /\ Untouched(p)
      BY <2>1, <2>3, <2>6 DEF InFlight
    <3> QED
      BY <3>1, <1>5 DEF Untouched
  <2>7. ASSUME NEW p \in Pages, p \in owned'
        PROVE  /\ FirstImage(p) \/ (DirtiedFirst(p)' /\ p # victim')
               /\ op' # "flushing" /\ p \notin stolen' => DirtiedFirst(p)'
    <3>1. p \in touched /\ Owned(p)
      BY <1>3, <2>3, <2>7
    <3>2. CASE p = v
      <4>1. ~Cached(p)' /\ p \in stolen'
        BY <1>1, <1>5, <2>1, <3>1, <3>2 DEF Cached
      <4>2. ~(DirtiedFirst(p) /\ p # victim)
        BY <1>5, <3>2 DEF DirtiedFirst
      <4> QED
        BY <3>1, <4>1, <4>2 DEF Owned
    <3>3. CASE p # v
      BY <1>5, <2>3, <2>5, <3>1, <3>3 DEF Owned
    <3> QED
      BY <3>2, <3>3
  <2> QED
    BY <1>1, <1>2, <1>5, <2>3, <2>4, <2>6, <2>7, FramesInFlight
<1>6. ASSUME NEW q \in Pages, NEW d \in BOOLEAN, NEW v \in AllImages, UnpinPage(q, d, v) PROVE InFlight'
  <2>1. /\ Cached(q) /\ UNCHANGED <<disk, currentTxnID, free, op, victim>> /\ victim = NoPage
        /\ data' = [data EXCEPT ![q] = v]
        /\ op = "idle" /\ v # NoImage
    BY <1>6 DEF UnpinPage, PoolInv, Midway, AllImages
  <2>2. \A p \in Pages : p # q => data'[p] = data[p]
    BY <1>2, <2>1 DEF PoolTypeOK
  <2>3. \A p \in Pages : Cached(p)' <=> Cached(p)
    BY <1>2, <2>1 DEF PoolTypeOK, Cached
  <2>4. freed = {} /\ stolen' = stolen /\ touched' = touched \cup changed
        /\ owned' = owned \cup {p \in changed \ touched : p \notin dirty}
    <3>1. freed = {}
      BY <2>1
    <3>2. \A p \in touched : ~(Cached(p) /\ ~Cached(p)')
      BY <2>1 DEF Cached, PoolTypeOK
    <3> QED
      BY <1>1, <3>1, <3>2
  <2>5. /\ \A p \in Pages : p \in dirty => p \in dirty' /\ dirtyTxn'[p] = dirtyTxn[p]
        /\ \A p \in Pages : p \in dirty' \ dirty => p = q /\ dirtyTxn'[p] = currentTxnID
        /\ data'[q] # data[q] => q \in dirty'
    <3>1. CASE d /\ q \notin dirty
      <4>1. dirty' = dirty \cup {q} /\ dirtyTxn' = [dirtyTxn EXCEPT ![q] = currentTxnID]
        BY <1>6, <3>1 DEF UnpinPage
      <4>2. \A p \in Pages : dirtyTxn'[p] = IF p = q THEN currentTxnID ELSE dirtyTxn[p]
        BY <1>2, <4>1 DEF PoolTypeOK
      <4> QED
        BY <3>1, <4>1, <4>2
    <3>2. CASE ~(d /\ q \notin dirty)
      <4>1. UNCHANGED <<dirty, dirtyTxn>> /\ (~d => v = data[q])
        BY <1>6, <3>2 DEF UnpinPage
      <4>2. data'[q] = v
        BY <1>2, <2>1 DEF PoolTypeOK
      <4> QED
        BY <3>2, <4>1, <4>2
    <3> QED
      BY <3>1, <3>2
  <2>6. ASSUME NEW p \in Pages, p \notin touched PROVE p \notin dirty => disk[p] = base[p]
    <3>1. Untouched(p)
      BY <2>6 DEF InFlight
    <3> QED
      BY <3>1 DEF Untouched, View, PoolInv, ImagesTrackDisk
  <2>7. ASSUME NEW p \in Pages \ touched'
        PROVE  /\ View(p)' = View(p)
               /\ p \in dirty' /\ dirtyTxn'[p] = currentTxnID => disk'[p] = base[p]
    <3>1. p \notin touched /\ p \notin changed /\ Untouched(p)
      BY <2>4, <2>7 DEF InFlight
    <3>2. data'[p] = data[p]
      BY <3>1, <2>1, <2>2, <2>3
    <3> QED
      BY <2>1, <2>3, <2>5, <2>6, <3>1, <3>2 DEF View, Untouched
  <2>8. ASSUME NEW p \in Pages, p \in owned'
        PROVE  /\ FirstImage(p) \/ (DirtiedFirst(p)' /\ p # victim')
               /\ op' # "flushing" /\ p \notin stolen' => DirtiedFirst(p)'
               /\ p \in owned \/ p \notin touched
    <3>1. DirtiedFirst(p) => DirtiedFirst(p)'
      BY <1>1, <2>1, <2>5 DEF DirtiedFirst
    <3>2. CASE p \in owned
      BY <1>3, <2>1, <2>4, <3>1, <3>2 DEF Owned
    <3>3. CASE p \notin owned
      <4>1. p \in changed /\ p \notin touched /\ p \notin dirty
        BY <2>4, <2>8, <3>3
      <4>2. p = q
        BY <2>2, <4>1
      <4>3. DirtiedFirst(p)'
        BY <1>1, <2>1, <2>5, <2>6, <4>1, <4>2 DEF DirtiedFirst
      <4> QED
        BY <2>1, <4>1, <4>3
    <3> QED
      BY <3>2, <3>3
  <2> HIDE DEF changed, freed
  <2> QED
    BY <1>1, <1>2, <2>1, <2>7, <2>8, FramesInFlight
<1>7. ASSUME NEW q \in Pages, FreePage(q) PROVE InFlight'
  <2>1. /\ UNCHANGED <<currentTxnID, op, victim>> /\ victim = NoPage /\ freed = {q}
        /\ dirty' = dirty \ {q}
        /\ \A p \in Pages \ {q} :
             disk'[p] = disk[p] /\ data'[p] = data[p] /\ dirtyTxn'[p] = dirtyTxn[p]
        /\ ~Cached(q)'
    <3>1. victim = NoPage /\ freed = {q}
      BY <1>7 DEF FreePage, PoolInv, Midway
    <3>2. UNCHANGED <<currentTxnID, op, victim>> /\ dirty' = dirty \ {q}
      BY <1>7 DEF FreePage
    <3>3. \A p \in Pages \ {q} :
             disk'[p] = disk[p] /\ data'[p] = data[p] /\ dirtyTxn'[p] = dirtyTxn[p]
      BY <1>2, <1>7 DEF FreePage, PoolTypeOK
    <3>4. ~Cached(q)'
      BY <1>2, <1>7 DEF FreePage, PoolTypeOK, Cached
    <3> QED
      BY <3>1, <3>2, <3>3, <3>4
  <2>2. changed = {}
    BY <2>1
  <2>3. touched' = touched \cup {q} /\ owned' = owned \ {q} /\ stolen \subseteq stolen'
    BY <1>1, <2>1, <2>2
  <2>4. ASSUME NEW p \in Pages \ {q}
        PROVE  View(p)' = View(p) /\ (DirtiedFirst(p)' <=> DirtiedFirst(p))
    BY <1>1, <2>1 DEF View, Cached, DirtiedFirst
  <2>5. ASSUME NEW p \in Pages \ touched'
        PROVE  /\ View(p)' = View(p)
               /\ p \in dirty' /\ dirtyTxn'[p] = currentTxnID => disk'[p] = base[p]
    <3>1. p # q /\ Untouched(p)
      BY <2>3, <2>5 DEF InFlight
    <3> QED
      BY <2>1, <2>4, <3>1 DEF Untouched
  <2>6. ASSUME NEW p \in Pages, p \in owned'
        PROVE  /\ FirstImage(p) \/ (DirtiedFirst(p)' /\ p # victim')
               /\ op' # "flushing" /\ p \notin stolen' => DirtiedFirst(p)'
    BY <1>3, <2>1, <2>3, <2>4, <2>6 DEF Owned
  <2> QED
    BY <1>1, <1>2, <2>1, <2>3, <2>5, <2>6, FramesInFlight
<1>8. ASSUME NEW q \in Pages, FetchMiss(q) PROVE InFlight'
  <2>1. /\ UNCHANGED <<disk, currentTxnID, free, op, victim>> /\ op = "idle" /\ victim = NoPage
        /\ ~Cached(q)
    BY <1>8 DEF FetchMiss, PoolInv, Midway
  <2>2. CASE Replace(NoPage, q, disk)
    BY <1>5, <2>1, <2>2
  <2>3. ASSUME NEW v \in Pages \ dirty, IsVictim(v), Replace(v, q, disk) PROVE InFlight'
    <3>1. Cached(v) /\ v # q
      BY <2>1, <2>3 DEF IsVictim, PoolInv, LruConsistent
    <3>2. disk'[v] = data[v] /\ v \notin dirty
      BY <2>1, <2>3, <3>1 DEF PoolInv, ImagesTrackDisk
    <3> QED
      BY <1>5, <2>1, <2>3, <3>1, <3>2
  <2> QED
    BY <1>8, <2>2, <2>3 DEF FetchMiss
<1>9. CASE FetchEvictWrite
  <2>1. /\ victim \in Pages /\ want \in Pages /\ ~Cached(want) /\ Cached(victim)
        /\ op = "evicting" /\ op' = "idle" /\ victim' = NoPage /\ UNCHANGED <<currentTxnID, free>>
        /\ Replace(victim, want, disk') /\ disk' = [disk EXCEPT ![victim] = data[victim]]
    BY <1>9 DEF FetchEvictWrite, PoolInv, Midway, ImagesTrackDisk
  <2>2. disk'[victim] = data[victim] /\ \A p \in Pages \ {victim} : disk'[p] = disk[p]
    BY <1>2, <2>1 DEF PoolTypeOK
  <2> QED
    BY <1>5, <2>1, <2>2
<1>10. ASSUME NEW q \in Pages, FetchEvictLog(q) PROVE FALSE
  <2>1. PICK v \in dirty : writeWALUpdate(v)
    BY <1>10 DEF FetchEvictLog
  <2>2. PICK r \in Record : log' = Append(log, r)
    BY <2>1, UpdateRecord
  <2>3. Len(log') = Len(log) + 1 /\ Len(log) \in Nat
    BY <1>2, <2>2, AppendFacts DEF PoolTypeOK
  <2> QED
    BY <2>3
<1>11. ASSUME NEW q \in Pages, FetchHit(q) \/ AllocatePage(q) PROVE InFlight'
  BY <1>4, <1>11 DEF FetchHit, AllocatePage, cacheVars
<1> HIDE DEF changed, freed
<1> QED
  BY <1>6, <1>7, <1>8, <1>9, <1>10, <1>11 DEF Statement, PoolStep

(* A dirty page that is logged: its record has the image at BEGIN, if the  *)
(* transaction in flight is to undo the page.                              *)
LEMMA LoggedInFlight ==
  ASSUME PoolInv, InFlight, Unfinished = {currentTxnID},
         NEW v \in dirty, writeWALUpdate(v), victim' = v,
         UNCHANGED <<disk, cacheVars, currentTxnID, base, touched, owned, stolen>>,
         op = "flushing" => op' = "flushing"
  PROVE  InFlight'
<1>1. PICK r \in Record : /\ r.type = RecordUpdate /\ r.page = v /\ r.txnID = dirtyTxn[v]
                          /\ r.before = disk[v] /\ log' = Append(log, r)
  BY UpdateRecord
<1>2. log \in Seq(Record)
  BY DEF PoolInv, LruConsistent, PoolTypeOK
<1>3. ASSUME NEW p \in Pages
      PROVE  /\ FirstImage(p) => FirstImage(p)'
             /\ NoneUndone(p, 0) /\ ~(v = p /\ dirtyTxn[v] = currentTxnID) => NoneUndone(p, 0)'
             /\ NoneUndone(p, 0) /\ v = p /\ dirtyTxn[v] = currentTxnID /\ disk[p] = base[p]
                  => FirstImage(p)'
  BY <1>1, <1>2, FirstImageKept
<1>4. ASSUME NEW p \in Pages PROVE View(p)' = View(p) /\ (DirtiedFirst(p)' <=> DirtiedFirst(p))
  BY DEF View, Cached, DirtiedFirst, cacheVars
<1>5. ASSUME NEW p \in Pages, p \notin touched' PROVE Untouched(p)'
  <2>1. Untouched(p)
    BY <1>5 DEF InFlight
  <2> QED
    BY <1>3, <1>4, <2>1 DEF Untouched, cacheVars
<1>6. ASSUME NEW p \in Pages, p \in owned' PROVE Owned(p)'
  <2>1. Owned(p)
    BY <1>6 DEF InFlight
  <2>2. FirstImage(p)' \/ (NoneUndone(p, 0)' /\ DirtiedFirst(p)' /\ p # v)
    <3>1. CASE FirstImage(p)
      BY <1>3, <3>1
    <3>2. CASE NoneUndone(p, 0) /\ DirtiedFirst(p)
      BY <1>3, <1>4, <3>2 DEF DirtiedFirst
    <3> QED
      BY <2>1, <3>1, <3>2 DEF Owned
  <2> QED
    BY <1>4, <2>1, <2>2 DEF Owned
<1> QED
  BY <1>5, <1>6 DEF InFlight

(* FlushAll. *)
LEMMA FlushInFlight ==
  ASSUME PoolInv, InFlight, FlushBegin \/ FlushWrite, UNCHANGED history
  PROVE  InFlight'
<1> USE PoolAssumption
<1>1. /\ UNCHANGED <<log, currentTxnID, data, base, touched, owned, stolen>> /\ op' = "flushing"
      /\ PoolTypeOK
  BY DEF FlushBegin, FlushWrite, cacheVars, history, PoolInv, LruConsistent
<1>2. \A p \in Pages : p \in owned => Owned(p)
  BY DEF InFlight
<1>3. \A p \in Pages \ touched : Untouched(p)
  BY DEF InFlight
<1>4. CASE FlushBegin
  <2>1. UNCHANGED <<disk, dirty, dirtyTxn, victim>>
    BY <1>4 DEF FlushBegin, cacheVars
  <2> QED
    BY <1>1, <1>2, <1>3, <2>1, FramesInFlight DEF View, Cached, DirtiedFirst, Owned, Untouched
<1>5. CASE FlushWrite
  <2>1. /\ victim \in Pages /\ Cached(victim) /\ dirty' = dirty \ {victim} /\ victim' = NoPage
        /\ \A p \in Pages \ {victim} : disk'[p] = disk[p] /\ dirtyTxn'[p] = dirtyTxn[p]
    BY <1>1, <1>5 DEF FlushWrite, PoolInv, Midway, ImagesTrackDisk, PoolTypeOK
  <2>2. \A p \in Pages : View(p)' = View(p)
    BY <1>1, <2>1 DEF View, Cached
  <2>3. \A p \in Pages \ {victim} : DirtiedFirst(p) => DirtiedFirst(p)'
    BY <1>1, <2>1 DEF DirtiedFirst
  <2>4. \A p \in Pages \ touched' :
           /\ View(p)' = View(p)
           /\ p \in dirty' /\ dirtyTxn'[p] = currentTxnID => disk'[p] = base[p]
    BY <1>1, <1>3, <2>1, <2>2 DEF Untouched
  <2>5. \A p \in Pages : p \in owned' =>
           /\ p \in touched' /\ (p \in owned \/ p \notin touched)
           /\ FirstImage(p) \/ (DirtiedFirst(p)' /\ p # victim')
    BY <1>1, <1>2, <2>1, <2>3 DEF Owned
  <2> QED
    BY <1>1, <2>4, <2>5, FramesInFlight
<1> QED
  BY <1>4, <1>5
-----------------------------------------------------------------------------
(* The steps of a session *)

(* The pool's steps in a session: they keep the transaction's ID, write no *)
(* record or one of a dirty page, and dirty pages in the transaction's     *)
(* name.                                                                   *)
SessionStep == PoolStep \/ FlushBegin \/ FlushStep

LEMMA SessionStepFacts ==
  ASSUME PoolInv, SessionStep
  PROVE  /\ PoolInv'
         /\ currentTxnID' = currentTxnID
         /\ \/ log' = log
            \/ \E v \in dirty : /\ writeWALUpdate(v) /\ victim' = v
                                /\ UNCHANGED <<disk, cacheVars, free>>
                                /\ op = "flushing" => op' = "flushing"
         /\ \A p \in dirty' : \/ p \in dirty /\ dirtyTxn'[p] = dirtyTxn[p]
                              \/ dirtyTxn'[p] = currentTxnID
<1>1. PoolInv'
  BY NextInv DEF SessionStep, PoolNext
<1>2. PoolTypeOK
  BY DEF PoolInv, LruConsistent
<1> DEFINE Kind == /\ currentTxnID' = currentTxnID
                   /\ \/ log' = log
                      \/ \E v \in dirty : /\ writeWALUpdate(v) /\ victim' = v
                                          /\ UNCHANGED <<disk, cacheVars, free>>
                                          /\ op = "flushing" => op' = "flushing"
           Names == \A p \in dirty' : \/ p \in dirty /\ dirtyTxn'[p] = dirtyTxn[p]
                                      \/ dirtyTxn'[p] = currentTxnID
<1>3. ASSUME NEW p \in Pages, FetchHit(p) \/ FetchMiss(p) \/ FetchEvictLog(p) PROVE Kind /\ Names
  <2>1. CASE FetchHit(p)
    BY <2>1 DEF FetchHit
  <2>2. CASE FetchMiss(p)
    <3>1. PICK v : Replace(v, p, disk)
      BY <2>2 DEF FetchMiss
    <3>2. Names
      BY <1>2, <3>1 DEF Replace, PoolTypeOK
    <3> QED
      BY <2>2, <3>2 DEF FetchMiss
  <2>3. CASE FetchEvictLog(p)
    BY <2>3 DEF FetchEvictLog, cacheVars
  <2> QED
    BY <1>3, <2>1, <2>2, <2>3
<1>4. ASSUME FetchEvictWrite PROVE Kind /\ Names
  BY <1>2, <1>4 DEF FetchEvictWrite, Replace, PoolTypeOK
<1>5. ASSUME NEW p \in Pages, NEW d \in BOOLEAN, NEW v \in AllImages, UnpinPage(p, d, v)
      PROVE  Kind /\ Names
  BY <1>2, <1>5 DEF UnpinPage, PoolTypeOK
<1>6. ASSUME NEW p \in Pages, FreePage(p) PROVE Kind /\ Names
  BY <1>2, <1>6 DEF FreePage, PoolTypeOK
<1>7. ASSUME NEW p \in Pages, AllocatePage(p) PROVE Kind /\ Names
  BY <1>7 DEF AllocatePage, cacheVars
<1>8. ASSUME FlushBegin PROVE Kind /\ Names
  BY <1>8 DEF FlushBegin, cacheVars
<1>9. ASSUME NEW p \in Pages, FlushLog(p) PROVE Kind /\ Names
  BY <1>9 DEF FlushLog, cacheVars
<1>10. ASSUME FlushWrite PROVE Kind /\ Names
  BY <1>2, <1>10 DEF FlushWrite, PoolTypeOK
<1>11. Kind /\ Names
  <2> HIDE DEF Kind, Names
  <2> QED
    BY <1>3, <1>4, <1>5, <1>6, <1>7, <1>8, <1>9, <1>10 DEF SessionStep, PoolStep, FlushStep
<1> QED
  BY <1>1, <1>11

(* The log and the IDs of a session stay in order. *)
LEMMA SessionStepKeeps ==
  ASSUME TypeOK, UpdatesSound, PoolInv, IDsBelowNext, SessionStep, UNCHANGED nextID
  PROVE  UpdatesSound' /\ IDsBelowNext' /\ Unfinished' = Unfinished
<1>1. /\ currentTxnID' = currentTxnID
      /\ log' = log \/ \E v \in dirty : writeWALUpdate(v)
      /\ \A p \in dirty' : \/ p \in dirty /\ dirtyTxn'[p] = dirtyTxn[p]
                           \/ dirtyTxn'[p] = currentTxnID
  BY SessionStepFacts
<1>2. \A p \in dirty' : dirtyTxn'[p] < nextID'
  BY <1>1 DEF IDsBelowNext
<1>3. CASE log' = log
  <2>1. UpdatesSound' /\ Unfinished' = Unfinished
    BY <1>3, LogKept
  <2> QED
    BY <1>1, <1>2, <1>3, <2>1 DEF IDsBelowNext
<1>4. ASSUME NEW v \in dirty, writeWALUpdate(v)
      PROVE  UpdatesSound' /\ IDsBelowNext' /\ Unfinished' = Unfinished
  <2>1. PICK r \in Record : /\ r.type = RecordUpdate /\ r.page = v /\ r.txnID = dirtyTxn[v]
                            /\ r.before \in AllImages /\ r.after \in AllImages
                            /\ log' = Append(log, r)
    BY <1>4, UpdateRecord
  <2>2. log \in Seq(Record) /\ v \in Pages
    BY DEF TypeOK, PoolTypeOK
  <2>3. UpdatesSound'
    BY <2>1, <2>2, UpdateAppendedSound
  <2>4. Unfinished' = Unfinished
    BY <2>1, <2>2, UpdateAppended
  <2>5. \A i \in DOMAIN log' : log'[i].txnID < nextID
    <3>1. /\ DOMAIN log = 1 .. Len(log) /\ DOMAIN log' = 1 .. Len(log) + 1 /\ Len(log) \in Nat
          /\ log'[Len(log) + 1] = r /\ \A i \in DOMAIN log : log'[i] = log[i]
      BY <2>1, <2>2, AppendFacts
    <3>2. \A i \in DOMAIN log' : i \in DOMAIN log \/ i = Len(log) + 1
      BY <3>1
    <3> QED
      BY <2>1, <3>1, <3>2 DEF IDsBelowNext
  <2> QED
    BY <1>1, <1>2, <2>3, <2>4, <2>5 DEF IDsBelowNext
<1> QED
  BY <1>1, <1>3, <1>4

LEMMA StatementInv == ASSUME DatabaseInv, Statement PROVE DatabaseInv'
<1> DEFINE changed == {p \in Pages : InTxn /\ Cached(p) /\ Cached(p)' /\ data'[p] # data[p]}
           freed == {p \in free' \ free : InTxn}
<1>1. /\ mode = "open" /\ mode' = "open" /\ TypeOK /\ UpdatesSound /\ Session
      /\ InTxn => InFlight
      /\ SessionStep /\ UNCHANGED <<sessionVars, base, safe>>
  BY DEF DatabaseInv, Statement, SessionStep, sessionVars
<1>2. /\ touched' = touched \cup changed \cup freed
      /\ owned' = (owned \cup {p \in changed \ touched : p \notin dirty}) \ freed
      /\ stolen' = stolen \cup {p \in touched : Cached(p) /\ ~Cached(p)'}
  BY DEF Statement
<1>3. /\ PoolInv' /\ currentTxnID' = currentTxnID
      /\ \/ log' = log
         \/ \E v \in dirty : /\ writeWALUpdate(v) /\ victim' = v
                             /\ UNCHANGED <<disk, cacheVars, free>>
                             /\ op = "flushing" => op' = "flushing"
  BY <1>1, SessionStepFacts DEF Session
<1>4. UpdatesSound' /\ IDsBelowNext' /\ Unfinished' = Unfinished
  BY <1>1, SessionStepKeeps DEF Session, sessionVars
<1>5. TypeOK'
  <2>1. PoolTypeOK'
    BY <1>3 DEF PoolInv, LruConsistent
  <2>2. touched' \subseteq Pages /\ owned' \subseteq Pages /\ stolen' \subseteq Pages
    BY <1>1, <1>2, <2>1 DEF TypeOK, PoolTypeOK
  <2> QED
    BY <1>1, <2>1, <2>2 DEF TypeOK, sessionVars
<1>6. Session'
  <2>1. ~InTxn => touched' = {} /\ owned' = {} /\ stolen' = {}
    BY <1>1, <1>2 DEF Session
  <2> QED
    BY <1>1, <1>3, <1>4, <2>1 DEF Session, InTxn, sessionVars
<1>7. ASSUME InTxn PROVE InFlight'
  <2>1. CASE log' = log
    <3>1. owned \subseteq touched
      BY <1>1, <1>7 DEF InFlight, Owned, TypeOK
    <3> QED
      BY <1>1, <1>3, <1>7, <2>1, <3>1, StatementInFlight DEF Session
  <2>2. ASSUME NEW v \in dirty, writeWALUpdate(v), victim' = v,
               UNCHANGED <<disk, cacheVars, free>>, op = "flushing" => op' = "flushing"
        PROVE  InFlight'
    <3>1. changed = {} /\ freed = {} /\ \A p : Cached(p)' = Cached(p)
      BY <2>2 DEF cacheVars, Cached
    <3>2. UNCHANGED <<touched, owned, stolen>>
      BY <1>2, <3>1
    <3>3. Unfinished = {currentTxnID}
      BY <1>1, <1>7 DEF Session
    <3> QED
      BY <1>1, <1>3, <1>7, <2>2, <3>2, <3>3, LoggedInFlight DEF Session
  <2> QED
    BY <1>3, <2>1, <2>2
<1> QED
  BY <1>1, <1>3, <1>4, <1>5, <1>6, <1>7 DEF DatabaseInv, InTxn

LEMMA FlushesInv == ASSUME DatabaseInv, CloseFlush \/ Flush PROVE DatabaseInv'
<1>1. /\ mode = "open" /\ mode' = "open" /\ TypeOK /\ UpdatesSound /\ Session
      /\ InTxn => InFlight
      /\ FlushBegin \/ FlushStep
      /\ UNCHANGED <<sessionVars, history>>
  BY DEF DatabaseInv, CloseFlush, Flush, AtStatement, sessionVars
<1>2. /\ PoolInv' /\ currentTxnID' = currentTxnID
      /\ UpdatesSound' /\ IDsBelowNext' /\ Unfinished' = Unfinished
  BY <1>1, SessionStepFacts, SessionStepKeeps DEF Session, SessionStep, sessionVars
<1>3. TypeOK'
  <2>1. PoolTypeOK'
    BY <1>2 DEF PoolInv, LruConsistent
  <2> QED
    BY <1>1, <2>1 DEF TypeOK, sessionVars, history
<1>4. Session'
  BY <1>1, <1>2 DEF Session, InTxn, sessionVars, history
<1>5. ASSUME InTxn PROVE InFlight'
  <2>1. CASE FlushBegin \/ FlushWrite
    BY <1>1, <1>5, <2>1, FlushInFlight DEF Session
  <2>2. ASSUME NEW p \in Pages, FlushLog(p) PROVE InFlight'
    <3>1. Unfinished = {currentTxnID}
      BY <1>1, <1>5 DEF Session
    <3>2. /\ p \in dirty /\ writeWALUpdate(p) /\ victim' = p
          /\ UNCHANGED <<disk, cacheVars, currentTxnID, base, touched, owned, stolen, op>>
      BY <1>1, <2>2 DEF FlushLog, history
    <3> QED
      BY <1>1, <1>5, <3>1, <3>2, LoggedInFlight DEF Session
  <2> QED
    BY <1>1, <2>1, <2>2 DEF FlushStep
<1> QED
  BY <1>1, <1>2, <1>3, <1>4, <1>5 DEF DatabaseInv, InTxn

(* BEGIN, COMMIT and ROLLBACK write one record, and the pool knows the     *)
(* transaction's ID by the time they return.                               *)
LEMMA TransactionRecord ==
  ASSUME TypeOK, tail = "none", NEW type \in {"begin", "commit", "abort"}, NEW t \in TxnIDs,
         WriteRecord(type, t)
  PROVE  \E r \in Record : r.type = type /\ r.txnID = t /\ log' = Append(log, r)
BY PoolAssumption DEF WriteRecord, Record, AllImages

(* A record without images in a session whose frames are in order.         *)
LEMMA TransactionKeeps ==
  ASSUME TypeOK, UpdatesSound, Session, NEW r \in Record, r.type # RecordUpdate,
         log' = Append(log, r), r.txnID < nextID', nextID' \in Nat, nextID <= nextID',
         LruConsistent', ImagesTrackDisk', UNCHANGED <<disk, op, victim>>, op = "idle",
         \A p \in dirty' : p \in dirty /\ dirtyTxn'[p] = dirtyTxn[p],
         currentTxnID' < nextID'
  PROVE  PoolInv' /\ UpdatesSound' /\ IDsBelowNext'
<1>1. log \in Seq(Record) /\ PoolInv /\ TypeOK /\ nextID \in Nat
  BY DEF TypeOK, PoolTypeOK, Session
<1>2. LogExplainsDisk' /\ UpdatesSound'
  BY <1>1, OtherRecordExplains, OtherRecordSound DEF PoolInv
<1>3. Midway'
  BY <1>1 DEF PoolInv, Midway
<1>4. /\ DOMAIN log = 1 .. Len(log) /\ DOMAIN log' = 1 .. Len(log) + 1 /\ Len(log) \in Nat
      /\ log'[Len(log) + 1] = r /\ \A i \in DOMAIN log : log'[i] = log[i]
  BY <1>1, AppendFacts
<1>5. ASSUME NEW i \in DOMAIN log' PROVE log'[i].txnID < nextID'
  <2>1. CASE i = Len(log) + 1
    BY <1>4, <2>1
  <2>2. CASE i \in DOMAIN log
    <3>1. log[i].txnID \in Nat /\ log[i].txnID < nextID
      <4>1. log[i] \in Record
        BY <1>1, <2>2, LogDomain
      <4>2. log[i].txnID \in TxnIDs
        BY <4>1 DEF Record
      <4>3. log[i].txnID < nextID
        BY <2>2 DEF Session, IDsBelowNext
      <4> QED
        BY <4>2, <4>3, DatabaseAssumption
    <3> QED
      BY <1>1, <1>4, <2>2, <3>1
  <2> QED
    BY <1>4, <2>1, <2>2
<1>6. ASSUME NEW p \in dirty' PROVE dirtyTxn'[p] < nextID'
  <2>1. p \in dirty /\ p \in Pages /\ dirtyTxn[p] \in TxnIDs
    BY <1>1 DEF TypeOK, PoolTypeOK, PoolInv, ImagesTrackDisk
  <2>2. dirtyTxn[p] \in Nat /\ dirtyTxn[p] < nextID
    BY <2>1, DatabaseAssumption DEF Session, IDsBelowNext
  <2> QED
    BY <1>1, <2>2
<1> QED
  BY <1>2, <1>3, <1>5, <1>6 DEF PoolInv, IDsBelowNext

LEMMA BeginInv == ASSUME DatabaseInv, Begin PROVE DatabaseInv'
<1> USE PoolAssumption, DatabaseAssumption
<1>1. /\ mode = "open" /\ TypeOK /\ UpdatesSound /\ Session /\ PoolInv
      /\ ~InTxn /\ nextID \in TxnIDs /\ nextID \in Nat \ {0} /\ tail = "none"
  BY DEF DatabaseInv, Begin, AtStatement, Session, TypeOK
<1>2. /\ op = "idle" /\ nextID' = nextID + 1 /\ currentTxnID' = nextID /\ base' = Views
      /\ WriteRecord("begin", nextID)
      /\ UNCHANGED <<disk, cacheVars, free, op, victim, want, mode, pos, active, tail, crashes,
                     touched, owned, stolen, safe>>
  BY DEF Begin, AtStatement, SetTxnID
<1>3. PICK r \in Record : r.type = "begin" /\ r.txnID = nextID /\ log' = Append(log, r)
  BY <1>1, <1>2, TransactionRecord
<1>4. log \in Seq(Record) /\ log' \in Seq(Record) /\ r.type # RecordUpdate
  BY <1>1, <1>3, AppendFacts DEF TypeOK, PoolTypeOK, RecordUpdate
<1>5. PoolTypeOK'
  BY <1>1, <1>2, <1>4 DEF TypeOK, PoolTypeOK, cacheVars
<1>6. LruConsistent' /\ ImagesTrackDisk'
  BY <1>1, <1>2, <1>5 DEF PoolInv, LruConsistent, ImagesTrackDisk, Cached, cacheVars
<1>7. PoolInv' /\ UpdatesSound' /\ IDsBelowNext'
  <2>1. r.txnID < nextID' /\ nextID' \in Nat /\ nextID <= nextID' /\ currentTxnID' < nextID'
    BY <1>1, <1>2, <1>3
  <2>2. \A p \in dirty' : p \in dirty /\ dirtyTxn'[p] = dirtyTxn[p]
    BY <1>2 DEF cacheVars
  <2> QED
    BY <1>1, <1>2, <1>3, <1>4, <1>6, <2>1, <2>2, TransactionKeeps
<1>8. Unfinished' = {nextID}
  <2>1. Unfinished = {}
    BY <1>1 DEF Session
  <2> QED
    BY <1>3, <1>4, <2>1, UnfinishedAppend DEF AfterRecord
<1>9. \A p \in Pages : View(p) \in AllImages /\ View(p)' = View(p) /\ base'[p] = View(p)
  BY <1>1, <1>2 DEF View, Views, Cached, cacheVars, TypeOK, PoolTypeOK
<1>10. TypeOK'
  <2>1. base' \in [Pages -> AllImages \cup {NoImage}]
    BY <1>2, <1>9 DEF Views
  <2>2. nextID' \in Nat \ {0}
    BY <1>1, <1>2
  <2> QED
    BY <1>1, <1>2, <1>5, <2>1, <2>2 DEF TypeOK
<1>11. Session'
  BY <1>1, <1>2, <1>7, <1>8 DEF Session, InTxn
<1>12. InFlight'
  <2>1. touched' = {} /\ owned' = {}
    BY <1>1, <1>2 DEF Session
  <2>2. ASSUME NEW p \in Pages PROVE Untouched(p)'
    <3>1. ~(p \in dirty' /\ dirtyTxn'[p] = currentTxnID')
      <4>1. p \in dirty => dirtyTxn[p] < nextID
        BY <1>1 DEF Session, IDsBelowNext
      <4>2. dirtyTxn' = dirtyTxn /\ dirty' = dirty
        BY <1>2 DEF cacheVars
      <4> QED
        BY <1>1, <1>2, <4>1, <4>2
    <3>2. NoneUndone(p, 0)'
      <4> SUFFICES ASSUME NEW i \in DOMAIN log', IsUndone(i, p)' PROVE FALSE
        BY DEF NoneUndone
      <4>1. i \in DOMAIN log /\ IsUpdate(i, p)
        BY <1>3, <1>4, OtherRecord DEF IsUndone
      <4>2. log'[i] = log[i] /\ log[i].txnID = nextID
        BY <1>3, <1>4, <1>8, <4>1, AppendFacts DEF IsUndone
      <4>3. log[i].txnID < nextID
        BY <1>1, <4>1 DEF Session, IDsBelowNext
      <4> QED
        BY <1>1, <4>2, <4>3
    <3> QED
      BY <1>9, <3>1, <3>2 DEF Untouched
  <2> QED
    BY <2>1, <2>2 DEF InFlight
<1> QED
  BY <1>1, <1>2, <1>7, <1>10, <1>11, <1>12 DEF DatabaseInv

LEMMA Positive == ASSUME NEW n \in Nat \ {0} PROVE 0 < n /\ n <= n /\ n \in Nat
OBVIOUS

(* COMMIT and ROLLBACK: after their record no transaction is in flight.    *)
LEMMA TransactionOver ==
  ASSUME DatabaseInv, mode = "open", op = "idle", InTxn,
         NEW r \in Record, r.type \in {"commit", "abort"}, r.txnID = currentTxnID,
         log' = Append(log, r), SetTxnID(0),
         NoTransaction, UNCHANGED <<disk, op, victim, sessionVars, safe>>,
         log' \in Seq(Record) /\ currentTxnID' \in TxnIDs => LruConsistent' /\ ImagesTrackDisk',
         \A p \in dirty' : p \in dirty /\ dirtyTxn'[p] = dirtyTxn[p]
  PROVE  DatabaseInv'
<1> USE PoolAssumption
<1>1. /\ mode' = "open" /\ TypeOK /\ UpdatesSound /\ Session
      /\ nextID \in Nat \ {0} /\ tail = "none" /\ currentTxnID \in TxnIDs
      /\ currentTxnID' = 0 /\ currentTxnID < nextID
  BY DEF DatabaseInv, Session, TypeOK, PoolTypeOK, SetTxnID, sessionVars, IDsBelowNext
<1>2. log \in Seq(Record) /\ r.type # RecordUpdate
  BY <1>1 DEF TypeOK, PoolTypeOK, RecordUpdate
<1>3. log' \in Seq(Record) /\ currentTxnID' \in TxnIDs
  BY <1>1, <1>2, AppendFacts
<1>4. PoolInv' /\ UpdatesSound' /\ IDsBelowNext'
  <2>1. nextID' = nextID
    BY DEF sessionVars
  <2>2. currentTxnID' < nextID' /\ nextID <= nextID' /\ nextID' \in Nat
    BY <1>1, <2>1, Positive, Zenon
  <2>3. r.txnID < nextID'
    BY <1>1, <2>1, Zenon
  <2>4. LruConsistent' /\ ImagesTrackDisk'
    BY <1>1, <1>3, Zenon
  <2>5. UNCHANGED <<disk, op, victim>>
    OBVIOUS
  <2> QED
    BY <1>1, <1>2, <2>2, <2>3, <2>4, <2>5, TransactionKeeps, Zenon
<1>5. Unfinished' = {}
  <2>1. Unfinished = {currentTxnID}
    BY <1>1 DEF Session
  <2> QED
    BY <1>2, <1>3, <2>1, UnfinishedAppend DEF AfterRecord
<1>6. TypeOK'
  <2>1. PoolTypeOK'
    BY <1>4 DEF PoolInv, LruConsistent
  <2>2. base' \in [Pages -> AllImages \cup {NoImage}]
    BY DEF NoTransaction
  <2> QED
    BY <1>1, <2>1, <2>2 DEF TypeOK, sessionVars, NoTransaction
<1>7. Session' /\ ~InTxn'
  BY <1>1, <1>4, <1>5 DEF Session, InTxn, sessionVars, NoTransaction
<1> QED
  BY <1>1, <1>4, <1>6, <1>7 DEF DatabaseInv

LEMMA CommitInv == ASSUME DatabaseInv, Commit PROVE DatabaseInv'
<1>1. /\ mode = "open" /\ op = "idle" /\ InTxn /\ WriteRecord("commit", currentTxnID)
      /\ SetTxnID(0) /\ NoTransaction
      /\ UNCHANGED <<disk, cacheVars, free, op, victim, want, sessionVars, safe>>
  BY DEF Commit, AtStatement
<1>2. PoolInv /\ TypeOK
  BY <1>1 DEF DatabaseInv, Session
<1>3. ASSUME log' \in Seq(Record), currentTxnID' \in TxnIDs PROVE LruConsistent' /\ ImagesTrackDisk'
  <2>1. PoolTypeOK'
    BY <1>1, <1>2, <1>3 DEF TypeOK, PoolTypeOK, cacheVars
  <2> QED
    BY <1>1, <1>2, <2>1 DEF PoolInv, LruConsistent, ImagesTrackDisk, Cached, cacheVars
<1>4. \A p \in dirty' : p \in dirty /\ dirtyTxn'[p] = dirtyTxn[p]
  BY <1>1 DEF cacheVars
<1>5. PICK r \in Record : r.type = "commit" /\ r.txnID = currentTxnID /\ log' = Append(log, r)
  <2>1. tail = "none" /\ currentTxnID \in TxnIDs
    BY <1>1, <1>2 DEF DatabaseInv, Session, TypeOK, PoolTypeOK
  <2> QED
    BY <1>1, <1>2, <2>1, TransactionRecord
<1> QED
  BY <1>1, <1>3, <1>4, <1>5, TransactionOver

LEMMA RollbackInv == ASSUME DatabaseInv, Rollback PROVE DatabaseInv'
<1>1. /\ mode = "open" /\ op = "idle" /\ InTxn /\ WriteRecord("abort", currentTxnID)
      /\ SetTxnID(0) /\ NoTransaction /\ RollbackTxn(currentTxnID)
      /\ UNCHANGED <<sessionVars, safe>>
  BY DEF Rollback, AtStatement
<1>2. PoolInv /\ currentTxnID \in TxnIDs
  BY <1>1 DEF DatabaseInv, Session, TypeOK, PoolTypeOK
<1>3. TypeOK /\ tail = "none" /\ log \in Seq(Record)
  BY <1>1 DEF DatabaseInv, Session, TypeOK, PoolTypeOK
<1>4. PICK r \in Record : r.type = "abort" /\ r.txnID = currentTxnID /\ log' = Append(log, r)
  BY <1>1, <1>2, <1>3, TransactionRecord
<1>5. log' \in Seq(Record) /\ currentTxnID' \in TxnIDs
  BY <1>1, <1>3, <1>4, AppendFacts, PoolAssumption DEF SetTxnID
<1>6. /\ LruConsistent' /\ ImagesTrackDisk' /\ UNCHANGED <<disk, op, victim>>
      /\ \A p \in dirty' : p \in dirty /\ dirtyTxn'[p] = dirtyTxn[p]
  BY <1>1, <1>2, <1>5, RollbackTxnFrames
<1> QED
  BY <1>1, <1>4, <1>6, TransactionOver
=============================================================================
