--------------------------- MODULE RecoveryProofs ---------------------------
(***************************************************************************)
(* What a database keeps when the process ends and Recover runs, also when *)
(* Recover is cut off and starts again; with the steps of a session, which *)
(* DatabaseProofs has, the properties of Database for any number of pages, *)
(* frames, transactions and crashes, and a log of any length.              *)
(***************************************************************************)
EXTENDS DatabaseProofs
-----------------------------------------------------------------------------
(* The end of a process *)

LEMMA ImagesKept ==
  ASSUME UNCHANGED log, NEW p, base'[p] = base[p]
  PROVE  /\ FirstImage(p)' <=> FirstImage(p)
         /\ disk'[p] = disk[p] => (Redone(p)' <=> Redone(p)) /\ (Undone(p)' <=> Undone(p))
<1>1. FirstImage(p)' <=> FirstImage(p)
  BY LogKept DEF FirstImage
<1>2. disk'[p] = disk[p] => (Redone(p)' <=> Redone(p))
  BY LogKept DEF Redone
<1> QED
  BY <1>1, <1>2, LogKept DEF Undone

(* When a session ends, redo and undo lead from its log to what history    *)
(* says the page is to be.                                                 *)
LEMMA SessionEnds ==
  ASSUME DatabaseInv, mode = "open", Down, UNCHANGED log
  PROVE  Restorable'
<1> USE PoolAssumption
<1> DEFINE left == IF InTxn THEN base ELSE Views
<1>1. TypeOK /\ UpdatesSound /\ Session /\ PoolInv /\ (InTxn => InFlight) /\ PoolTypeOK
  BY DEF DatabaseInv, Session, TypeOK
<1>2. /\ mode' = "down" /\ UNCHANGED <<disk, touched>>
      /\ base' = [p \in Pages |-> IF p \in touched \ owned THEN NoImage ELSE left[p]]
      /\ safe' = {p \in Pages \ free : left[p] # LinkImage /\
                   (p \in owned \/ (p \notin touched /\ (p \notin dirty \/ p = victim)))}
  BY DEF Down
<1>3. \A t, u \in Unfinished' : t = u
  BY <1>1, LogKept DEF Session
<1>4. ASSUME NEW p \in Pages, p # victim, disk[p] # LinkImage, disk[p] = base'[p]
      PROVE  Redone(p)'
  <2>1. CASE \E i \in DOMAIN log : IsUpdate(i, p)
    <3>1. PICK i \in DOMAIN log : IsLastUpdate(i, p)
      BY <1>1, <2>1 DEF UpdatesSound
    <3>2. disk[p] = log[i].after
      BY <1>1, <1>4, <3>1 DEF PoolInv, LogExplainsDisk
    <3> QED
      BY <1>4, <3>1, <3>2, LogKept DEF Redone
  <2>2. CASE ~\E i \in DOMAIN log : IsUpdate(i, p)
    BY <1>2, <1>4, <2>2, LogKept DEF Redone
  <2> QED
    BY <2>1, <2>2
<1>5. ASSUME NEW p \in safe', p \notin touched PROVE Redone(p)' /\ Undone(p)'
  <2>1. p \in Pages /\ left[p] # LinkImage /\ (p \notin dirty \/ p = victim) /\ base'[p] = left[p]
    BY <1>1, <1>2, <1>5 DEF Session, InFlight, Owned
  <2>2. View(p) = left[p]
    BY <1>1, <1>5, <2>1 DEF InFlight, Untouched, Views
  <2>3. Redone(p)'
    <3>1. CASE p = victim
      <4>1. PICK i \in DOMAIN log : IsLastUpdate(i, p) /\ log[i].after = data[p]
        BY <1>1, <2>1, <3>1 DEF PoolInv, Midway
      <4>2. Cached(p)
        BY <1>1, <2>1, <3>1 DEF PoolInv, Midway, ImagesTrackDisk
      <4>3. log[i].after = base'[p]
        BY <2>1, <2>2, <4>1, <4>2 DEF View
      <4> QED
        BY <4>1, <4>3, LogKept DEF Redone
    <3>2. CASE p # victim
      <4>1. disk[p] = View(p)
        BY <1>1, <2>1, <3>2 DEF PoolInv, ImagesTrackDisk, View
      <4> QED
        BY <1>4, <2>1, <2>2, <3>2, <4>1
    <3> QED
      BY <3>1, <3>2
  <2>4. CASE InTxn
    <3>1. FirstImage(p) \/ NoneUndone(p, 0)
      BY <1>1, <1>5, <2>1, <2>4 DEF InFlight, Untouched
    <3>2. base'[p] = base[p]
      BY <2>1, <2>4
    <3> QED
      BY <2>3, <3>1, <3>2, LogKept, ImagesKept DEF Undone
  <2>5. CASE ~InTxn
    <3>1. NoneUndone(p, 0)
      BY <1>1, <2>5 DEF Session, NoneUndone, IsUndone
    <3> QED
      BY <2>3, <3>1, LogKept DEF Undone
  <2> QED
    BY <2>3, <2>4, <2>5
<1>6. ASSUME NEW p \in safe', p \in touched PROVE Undone(p)'
  <2>1. p \in Pages /\ p \in owned /\ InTxn /\ base'[p] = base[p] /\ base[p] # LinkImage
    BY <1>1, <1>2, <1>6 DEF Session
  <2>2. FirstImage(p) \/ (NoneUndone(p, 0) /\ DirtiedFirst(p) /\ p # victim)
    BY <1>1, <2>1 DEF InFlight, Owned
  <2>3. CASE FirstImage(p)
    BY <2>1, <2>3, ImagesKept DEF Undone
  <2>4. CASE NoneUndone(p, 0) /\ DirtiedFirst(p) /\ p # victim
    <3>1. Redone(p)'
      BY <1>4, <2>1, <2>4 DEF DirtiedFirst
    <3> QED
      BY <2>4, <3>1, LogKept DEF Undone
  <2> QED
    BY <2>2, <2>3, <2>4
<1> QED
  BY <1>2, <1>3, <1>5, <1>6 DEF Restorable

(* When Recover is cut off, it starts again from the same log. *)
LEMMA RecoverEnds ==
  ASSUME DatabaseInv, mode # "open", Down, UNCHANGED log
  PROVE  Restorable'
<1>1. /\ mode' = "down" /\ UNCHANGED <<disk, touched, base>>
      /\ safe' = IF mode = "abort" /\ active = {} THEN safe \ touched ELSE safe
  BY DEF Down
<1>2. Restorable
  BY DEF DatabaseInv
<1>3. \A p : (Redone(p)' <=> Redone(p)) /\ (Undone(p)' <=> Undone(p))
  BY <1>1, ImagesKept
<1>4. \A t, u \in Unfinished' : t = u
  BY <1>2, LogKept DEF Restorable
<1> QED
  BY <1>1, <1>2, <1>3, <1>4 DEF Restorable

LEMMA DownInv ==
  ASSUME DatabaseInv, Down, UNCHANGED log, tail' \in {"none", "header", "body"}
  PROVE  DatabaseInv'
<1> USE PoolAssumption
<1>1. TypeOK /\ UpdatesSound /\ mode' = "down"
  BY DEF DatabaseInv, Down
<1>2. PoolTypeOK'
  <2>1. << >> \in Seq(Pages)
    OBVIOUS
  <2> QED
    BY <1>1, <2>1 DEF Down, NewBufferPool, TypeOK, PoolTypeOK
<1>3. TypeOK'
  <2>1. base' \in [Pages -> AllImages \cup {NoImage}]
    <3>1. CASE mode = "open"
      <4>1. \A p \in Pages : View(p) \in AllImages
        BY <1>1 DEF TypeOK, PoolTypeOK, View, Cached
      <4> QED
        BY <1>1, <3>1, <4>1 DEF Down, TypeOK, Views
    <3>2. CASE mode # "open"
      BY <1>1, <3>2 DEF Down, TypeOK
    <3> QED
      BY <3>1, <3>2
  <2>2. safe' \in SUBSET Pages
    <3>1. CASE mode = "open"
      BY <3>1 DEF Down
    <3>2. CASE mode # "open"
      BY <1>1, <3>2 DEF Down, TypeOK
    <3> QED
      BY <3>1, <3>2
  <2> QED
    BY <1>1, <1>2, <2>1, <2>2 DEF Down, TypeOK, Modes
<1>4. Restarted'
  BY DEF Down, NewBufferPool, Restarted, EmptyPool
<1>5. Restorable'
  BY SessionEnds, RecoverEnds
<1>6. UpdatesSound' /\ active' = {}
  BY <1>1, LogKept DEF Down
<1> QED
  BY <1>1, <1>3, <1>4, <1>5, <1>6 DEF DatabaseInv

LEMMA ProcessEndsInv == ASSUME DatabaseInv, CloseFiles \/ Crash PROVE DatabaseInv'
<1>1. Down /\ UNCHANGED log /\ tail' \in {"none", "header", "body"}
  BY DEF CloseFiles, Crash, DatabaseInv, TypeOK
<1> QED
  BY <1>1, DownInv
-----------------------------------------------------------------------------
(* Recover *)

(* Most of the invariant concerns neither the file nor where Recover is.   *)
LEMMA RecoverKeeps ==
  ASSUME DatabaseInv, mode # "open", mode' \in Modes \ {"open"}, pos' \in Nat, active' \in SUBSET TxnIDs,
         UNCHANGED <<log, cacheVars, currentTxnID, free, op, victim, want, tail, nextID,
                     base, touched, owned, stolen>>,
         disk' \in [Pages -> AllImages], safe' \in SUBSET safe
  PROVE  TypeOK' /\ UpdatesSound' /\ Restarted'
<1>1. TypeOK /\ UpdatesSound /\ Restarted
  BY DEF DatabaseInv
<1>2. PoolTypeOK'
  BY <1>1 DEF TypeOK, PoolTypeOK, cacheVars
<1>3. TypeOK'
  BY <1>1, <1>2 DEF TypeOK
<1>4. Restarted'
  BY <1>1 DEF Restarted, EmptyPool, cacheVars
<1> QED
  BY <1>1, <1>3, <1>4, LogKept

LEMMA ReadAllInv == ASSUME DatabaseInv, ReadAll PROVE DatabaseInv'
<1>1. /\ mode = "down" /\ mode' = "redo" /\ pos' = 1
      /\ UNCHANGED <<poolVars, active, tail, nextID, history>>
      /\ TypeOK /\ Restorable
  BY DEF ReadAll, DatabaseInv
<1>2. TypeOK' /\ UpdatesSound' /\ Restarted'
  <2>1. disk' \in [Pages -> AllImages] /\ active' \in SUBSET TxnIDs
    BY <1>1 DEF TypeOK, PoolTypeOK, poolVars
  <2> QED
    BY <1>1, <2>1, RecoverKeeps DEF poolVars, cacheVars, history, Modes
<1>3. Restorable'
  <2>1. UNCHANGED <<log, disk, base, touched, safe>>
    BY <1>1 DEF poolVars, history
  <2> QED
    BY <1>1, <2>1, LogKept, ImagesKept DEF Restorable
<1>4. Redoing'
  <2>1. pos' \in 1 .. Len(log') + 1 /\ DOMAIN log' = 1 .. Len(log')
    <3>1. log' \in Seq(Record)
      BY <1>2 DEF TypeOK, PoolTypeOK
    <3> QED
      BY <1>1, <3>1
  <2>2. \A i \in DOMAIN log' : ~(i < 1) /\ ~(i <= 0)
    BY <2>1
  <2>3. active' = {} /\ pos' - 1 = 0
    BY <1>1 DEF DatabaseInv
  <2>4. UnfinishedIn(log', 0) = {}
    BY <2>2 DEF UnfinishedIn
  <2> QED
    BY <1>1, <2>1, <2>2, <2>3, <2>4 DEF Redoing, RedoneTo
<1> QED
  BY <1>1, <1>2, <1>3, <1>4 DEF DatabaseInv

(* Redo and undo write only pages of which the log has a record, so they   *)
(* may be cut off anywhere.                                                *)
LEMMA RestorableKept ==
  ASSUME Restorable, mode # "abort", UNCHANGED <<log, base, touched>>, safe' \in SUBSET safe,
         \A p \in safe : disk'[p] # disk[p] => \E i \in DOMAIN log : IsUpdate(i, p)
  PROVE  Restorable'
<1>1. ASSUME NEW p \in safe, Redone(p) PROVE Redone(p)'
  <2>1. CASE disk'[p] = disk[p]
    BY <1>1, <2>1, ImagesKept
  <2>2. CASE disk'[p] # disk[p]
    <3>1. \E i \in DOMAIN log : IsLastUpdate(i, p) /\ log[i].after = base[p]
      BY <1>1, <2>2 DEF Redone
    <3> QED
      BY <3>1, LogKept DEF Redone
  <2> QED
    BY <2>1, <2>2
<1>2. ASSUME NEW p \in safe PROVE Undone(p)'
  <2>1. Undone(p)
    BY DEF Restorable
  <2> QED
    BY <1>1, <2>1, LogKept, ImagesKept DEF Undone
<1> QED
  BY <1>1, <1>2, LogKept DEF Restorable

LEMMA AnalysisPassInv == ASSUME DatabaseInv, AnalysisPass PROVE DatabaseInv'
<1> DEFINE r == log[pos]
<1>1. /\ mode = "redo" /\ mode' = "redo" /\ pos <= Len(log) /\ pos' = pos + 1
      /\ disk' = IF r.type = RecordUpdate THEN [disk EXCEPT ![r.page] = r.after] ELSE disk
      /\ active' = AfterRecord(active, r)
      /\ UNCHANGED <<log, cacheVars, currentTxnID, free, op, victim, want, mode, tail, nextID,
                     history>>
      /\ TypeOK /\ UpdatesSound /\ Restorable /\ Redoing
  BY DEF AnalysisPass, DatabaseInv, AfterRecord
<1>2. /\ log \in Seq(Record) /\ Len(log) \in Nat /\ pos \in Nat /\ pos > 0
      /\ pos \in DOMAIN log /\ DOMAIN log = 1 .. Len(log)
      /\ disk \in [Pages -> AllImages]
  BY <1>1 DEF TypeOK, PoolTypeOK, Redoing
<1>3. r.type = RecordUpdate => r.page \in Pages /\ r.after \in AllImages
  BY <1>1, <1>2 DEF UpdatesSound
<1>4. active' = UnfinishedIn(log, pos)
  <2>1. PICK n \in Nat : n = pos - 1 /\ n + 1 = pos
    BY <1>2
  <2> QED
    BY <1>1, <1>2, <2>1, UnfinishedStep DEF Redoing
<1>5. \A p \in Pages : disk'[p] = IF IsUpdate(pos, p) THEN r.after ELSE disk[p]
  BY <1>1, <1>2, <1>3 DEF IsUpdate
<1> HIDE DEF r
<1>6. TypeOK' /\ UpdatesSound' /\ Restarted'
  <2>1. disk' \in [Pages -> AllImages]
    BY <1>1, <1>2, <1>3
  <2>2. active' \in SUBSET TxnIDs /\ pos' \in Nat
    BY <1>1, <1>2, <1>4 DEF UnfinishedIn
  <2>3. UNCHANGED <<base, touched, owned, stolen>> /\ safe' = safe
    BY <1>1 DEF history
  <2> QED
    BY <1>1, <2>1, <2>2, <2>3, RecoverKeeps DEF Modes
<1>7. Restorable'
  <2>1. \A p \in safe : disk'[p] # disk[p] => \E i \in DOMAIN log : IsUpdate(i, p)
    BY <1>1, <1>2, <1>5 DEF TypeOK
  <2> QED
    BY <1>1, <2>1, RestorableKept DEF history
<1>8. ASSUME NEW p \in Pages, RedoneTo(p, pos) PROVE RedoneTo(p, pos)'
  <2>1. \A j \in DOMAIN log : j < pos' <=> j < pos \/ j = pos
    BY <1>1, <1>2
  <2>2. \A j \in DOMAIN log : ~(pos < j /\ j < pos')
    BY <1>1, <1>2
  <2>3. \A i : IsUpdate(i, p)' <=> IsUpdate(i, p)
    BY <1>1, LogKept
  <2>4. CASE IsUpdate(pos, p)
    <3>1. disk'[p] = log'[pos].after /\ pos < pos'
      BY <1>1, <1>2, <1>5, <2>4 DEF r
    <3> QED
      BY <1>1, <1>2, <2>2, <2>3, <2>4, <3>1 DEF RedoneTo
  <2>5. CASE ~IsUpdate(pos, p)
    <3>1. disk'[p] = disk[p]
      BY <1>5, <2>5
    <3> QED
      BY <1>1, <1>8, <2>1, <2>3, <2>5, <3>1 DEF RedoneTo
  <2> QED
    BY <2>4, <2>5
<1>9. Redoing'
  <2>1. pos' \in 1 .. Len(log') + 1 /\ pos' - 1 = pos
    BY <1>1, <1>2
  <2>2. active' = UnfinishedIn(log', pos' - 1)
    BY <1>1, <1>4, <2>1
  <2>3. \A p \in safe' : p \in Pages /\ RedoneTo(p, pos)
    BY <1>1 DEF Redoing, TypeOK, history
  <2> QED
    BY <1>8, <2>1, <2>2, <2>3 DEF Redoing
<1> QED
  BY <1>1, <1>6, <1>7, <1>9 DEF DatabaseInv

LEMMA AnalysisDoneInv == ASSUME DatabaseInv, AnalysisDone PROVE DatabaseInv'
<1>1. /\ mode = "redo" /\ mode' = "undo" /\ pos > Len(log) /\ pos' = Len(log)
      /\ UNCHANGED <<poolVars, active, tail, nextID, history>>
      /\ TypeOK /\ Restorable /\ Redoing
  BY DEF AnalysisDone, DatabaseInv
<1>2. /\ log \in Seq(Record) /\ Len(log) \in Nat /\ DOMAIN log = 1 .. Len(log)
      /\ pos = Len(log) + 1 /\ pos - 1 = Len(log)
      /\ UNCHANGED <<log, disk, base, touched, safe>>
  BY <1>1 DEF TypeOK, PoolTypeOK, Redoing, poolVars, history
<1>3. TypeOK' /\ UpdatesSound' /\ Restarted'
  <2>1. disk' \in [Pages -> AllImages] /\ active' \in SUBSET TxnIDs /\ pos' \in Nat
    BY <1>1, <1>2 DEF TypeOK, PoolTypeOK
  <2> QED
    BY <1>1, <2>1, RecoverKeeps DEF poolVars, cacheVars, history, Modes
<1>4. Restorable'
  BY <1>1, <1>2, RestorableKept
<1>5. active' = Unfinished'
  <2>1. active = UnfinishedIn(log, Len(log))
    BY <1>1, <1>2 DEF Redoing
  <2> QED
    BY <1>1, <1>2, <2>1 DEF Unfinished
<1>6. ASSUME NEW p \in safe' PROVE NoneUndone(p, pos)' /\ RedoneTo(p, Len(log) + 1)'
  <2>1. \A i \in DOMAIN log' : ~(pos' < i)
    BY <1>1, <1>2
  <2>2. RedoneTo(p, pos)
    BY <1>1, <1>2 DEF Redoing
  <2>3. RedoneTo(p, Len(log) + 1)
    BY <1>2, <2>2
  <2>4. RedoneTo(p, Len(log) + 1)'
    BY <1>2, <2>3 DEF RedoneTo, IsUpdate
  <2> QED
    BY <2>1, <2>4 DEF NoneUndone
<1>7. Undoing'
  <2>1. pos' \in 0 .. Len(log')
    BY <1>1, <1>2
  <2> QED
    BY <1>5, <1>6, <2>1 DEF Undoing
<1> QED
  BY <1>1, <1>3, <1>4, <1>7 DEF DatabaseInv

LEMMA UndoPassInv == ASSUME DatabaseInv, UndoPass PROVE DatabaseInv'
<1> DEFINE r == log[pos]
<1>1. /\ mode = "undo" /\ mode' = "undo" /\ pos > 0 /\ pos' = pos - 1
      /\ disk' = IF r.type = RecordUpdate /\ r.txnID \in active
                 THEN [disk EXCEPT ![r.page] = r.before] ELSE disk
      /\ UNCHANGED <<log, cacheVars, currentTxnID, free, op, victim, want, active, tail, nextID,
                     history>>
      /\ TypeOK /\ UpdatesSound /\ Restorable /\ Undoing
  BY DEF UndoPass, DatabaseInv
<1>2. /\ log \in Seq(Record) /\ Len(log) \in Nat /\ pos \in Nat
      /\ pos \in DOMAIN log /\ DOMAIN log = 1 .. Len(log)
      /\ disk \in [Pages -> AllImages] /\ active = Unfinished
  BY <1>1 DEF TypeOK, PoolTypeOK, Undoing
<1>3. r.type = RecordUpdate => r.page \in Pages /\ r.before \in AllImages
  BY <1>1, <1>2 DEF UpdatesSound
<1>4. \A p \in Pages : disk'[p] = IF IsUndone(pos, p) THEN r.before ELSE disk[p]
  BY <1>1, <1>2, <1>3 DEF IsUndone, IsUpdate
<1> HIDE DEF r
<1>5. TypeOK' /\ UpdatesSound' /\ Restarted'
  <2>1. disk' \in [Pages -> AllImages]
    BY <1>1, <1>2, <1>3
  <2>2. active' \in SUBSET TxnIDs /\ pos' \in Nat
    BY <1>1, <1>2 DEF TypeOK
  <2>3. UNCHANGED <<base, touched, owned, stolen>> /\ safe' = safe
    BY <1>1 DEF history
  <2> QED
    BY <1>1, <2>1, <2>2, <2>3, RecoverKeeps DEF Modes
<1>6. Restorable'
  <2>1. \A p \in safe : disk'[p] # disk[p] => \E i \in DOMAIN log : IsUpdate(i, p)
    BY <1>1, <1>2, <1>4 DEF TypeOK, IsUndone
  <2> QED
    BY <1>1, <2>1, RestorableKept DEF history
<1>7. \A j \in DOMAIN log : pos' < j <=> pos < j \/ j = pos
  BY <1>1, <1>2
<1>8. ASSUME NEW p \in Pages,
             \/ \E i \in DOMAIN log : IsFirstUndone(i, p, pos) /\ disk[p] = log[i].before
             \/ NoneUndone(p, pos) /\ RedoneTo(p, Len(log) + 1)
      PROVE  \/ \E i \in DOMAIN log' : IsFirstUndone(i, p, pos)' /\ disk'[p] = log'[i].before
             \/ NoneUndone(p, pos)' /\ RedoneTo(p, Len(log) + 1)'
  <2>1. \A i : IsUndone(i, p)' <=> IsUndone(i, p)
    BY <1>1, LogKept
  <2>2. CASE IsUndone(pos, p)
    <3>1. disk'[p] = log'[pos].before
      BY <1>1, <1>4, <2>2 DEF r
    <3>2. \A j \in DOMAIN log : ~(pos' < j /\ j < pos) /\ pos' < pos
      BY <1>1, <1>2
    <3>3. IsFirstUndone(pos, p, pos')
      BY <1>2, <2>2, <3>2 DEF IsFirstUndone
    <3>4. \E i \in DOMAIN log : IsFirstUndone(i, p, pos') /\ disk'[p] = log'[i].before
      BY <1>2, <3>1, <3>3
    <3> QED
      BY <1>1, <2>1, <3>4 DEF IsFirstUndone
  <2>3. CASE ~IsUndone(pos, p)
    <3>1. disk'[p] = disk[p]
      BY <1>4, <2>3
    <3>2. ASSUME NEW i \in DOMAIN log, IsFirstUndone(i, p, pos), disk[p] = log[i].before
          PROVE  IsFirstUndone(i, p, pos)' /\ disk'[p] = log'[i].before
      BY <1>1, <1>2, <1>7, <2>1, <2>3, <3>1, <3>2 DEF IsFirstUndone
    <3>3. ASSUME NoneUndone(p, pos), RedoneTo(p, Len(log) + 1)
          PROVE  NoneUndone(p, pos)' /\ RedoneTo(p, Len(log) + 1)'
      <4>1. NoneUndone(p, pos)'
        BY <1>1, <1>7, <2>1, <2>3, <3>3 DEF NoneUndone
      <4>2. RedoneTo(p, Len(log) + 1)'
        BY <1>1, <3>1, <3>3 DEF RedoneTo, IsUpdate
      <4> QED
        BY <4>1, <4>2
    <3> QED
      BY <1>1, <1>8, <3>2, <3>3
  <2> QED
    BY <2>2, <2>3
<1>9. Undoing'
  <2>1. pos' \in 0 .. Len(log')
    <3>1. Len(log) \in Nat /\ pos \in 0 .. Len(log) /\ pos > 0 /\ pos' = pos - 1 /\ log' = log
      BY <1>1, <1>2 DEF Undoing
    <3> QED
      BY <3>1
  <2>2. active' = Unfinished'
    BY <1>1, <1>2, LogKept
  <2>3. \A p \in safe' : p \in Pages /\ p \in safe
    BY <1>1 DEF TypeOK, history
  <2>4. \A p \in safe : \/ \E i \in DOMAIN log : IsFirstUndone(i, p, pos) /\ disk[p] = log[i].before
                        \/ NoneUndone(p, pos) /\ RedoneTo(p, Len(log) + 1)
    BY <1>1 DEF Undoing
  <2> QED
    BY <1>8, <2>1, <2>2, <2>3, <2>4 DEF Undoing
<1> QED
  BY <1>1, <1>5, <1>6, <1>9 DEF DatabaseInv

LEMMA Places ==
  ASSUME log \in Seq(Record), NEW n \in Nat
  PROVE  \A i \in DOMAIN log : i \in Nat /\ 0 < i /\ i < Len(log) + 1 /\ (i <= n \/ n < i)
OBVIOUS

(* Where undoPass has nothing more to undo, the page is what it is to be:  *)
(* it has the first image undone, or nothing of it was undone.             *)
LEMMA FirstImageOnDisk ==
  ASSUME log \in Seq(Record), NEW p, NEW n \in Nat, Undone(p),
         \A i \in DOMAIN log : i <= n => ~IsUndone(i, p),
         NEW i \in DOMAIN log, IsFirstUndone(i, p, n), disk[p] = log[i].before
  PROVE  disk[p] = base[p]
<1>1. \A j \in DOMAIN log : j \in Nat /\ 0 < j /\ (j <= n \/ n < j)
  BY Places
<1>2. IsFirstUndone(i, p, 0)
  BY <1>1 DEF IsFirstUndone
<1>3. ~NoneUndone(p, 0)
  BY <1>2 DEF NoneUndone, IsFirstUndone
<1>4. PICK k \in DOMAIN log : IsFirstUndone(k, p, 0) /\ log[k].before = base[p]
  BY <1>3 DEF Undone, FirstImage
<1>5. i = k
  <2>1. IsUndone(i, p) /\ IsUndone(k, p) /\ 0 < i /\ 0 < k
    BY <1>2, <1>4 DEF IsFirstUndone
  <2>2. ~(i < k) /\ ~(k < i)
    BY <1>2, <1>4, <2>1 DEF IsFirstUndone
  <2>3. i \in Nat /\ k \in Nat
    BY <1>1
  <2> QED
    BY <2>2, <2>3
<1> QED
  BY <1>4, <1>5

LEMMA RedoneOnDisk ==
  ASSUME log \in Seq(Record), NEW p, NEW n \in Nat, Undone(p),
         \A i \in DOMAIN log : i <= n => ~IsUndone(i, p),
         NoneUndone(p, n), RedoneTo(p, Len(log) + 1)
  PROVE  disk[p] = base[p]
<1>1. \A i \in DOMAIN log : i \in Nat /\ i < Len(log) + 1 /\ (i <= n \/ n < i)
  BY Places
<1>2. \A i \in DOMAIN log : ~IsUndone(i, p)
  BY <1>1 DEF NoneUndone
<1>3. Redone(p)
  BY <1>2 DEF Undone, FirstImage, IsFirstUndone
<1>4. CASE \A i \in DOMAIN log : ~IsUpdate(i, p)
  BY <1>3, <1>4 DEF Redone, IsLastUpdate
<1>5. CASE \E i \in DOMAIN log : IsUpdate(i, p)
  <2>1. PICK k \in DOMAIN log : IsLastUpdate(k, p) /\ log[k].after = base[p]
    BY <1>3, <1>5 DEF Redone
  <2>2. ~\A i \in DOMAIN log : i < Len(log) + 1 => ~IsUpdate(i, p)
    BY <1>1, <1>5
  <2>3. PICK i \in DOMAIN log :
          /\ IsUpdate(i, p) /\ disk[p] = log[i].after
          /\ \A j \in DOMAIN log : i < j /\ j < Len(log) + 1 => ~IsUpdate(j, p)
    BY <2>2 DEF RedoneTo
  <2>4. IsUpdate(k, p) /\ ~(i < k) /\ ~(k < i)
    BY <1>1, <2>1, <2>3 DEF IsLastUpdate
  <2>5. i \in Nat /\ k \in Nat
    BY <1>1
  <2>6. i = k
    BY <2>4, <2>5
  <2> QED
    BY <2>1, <2>3, <2>6
<1> QED
  BY <1>4, <1>5

LEMMA UndoneOnDisk ==
  ASSUME log \in Seq(Record), NEW p, NEW n \in Nat, Undone(p),
         \A i \in DOMAIN log : i <= n => ~IsUndone(i, p),
         \/ \E i \in DOMAIN log : IsFirstUndone(i, p, n) /\ disk[p] = log[i].before
         \/ NoneUndone(p, n) /\ RedoneTo(p, Len(log) + 1)
  PROVE  disk[p] = base[p]
BY FirstImageOnDisk, RedoneOnDisk

LEMMA UndoDoneInv == ASSUME DatabaseInv, UndoDone PROVE DatabaseInv'
<1>1. /\ mode = "undo" /\ mode' = "abort" /\ pos = 0
      /\ UNCHANGED <<poolVars, pos, active, tail, nextID, history>>
      /\ TypeOK /\ Restorable /\ Undoing
  BY DEF UndoDone, DatabaseInv
<1>2. /\ log \in Seq(Record) /\ \A i \in DOMAIN log : ~(i <= 0)
      /\ UNCHANGED <<log, disk, base, touched, safe>>
  BY <1>1 DEF TypeOK, PoolTypeOK, poolVars, history
<1>3. TypeOK' /\ UpdatesSound' /\ Restarted'
  <2>1. disk' \in [Pages -> AllImages] /\ active' \in SUBSET TxnIDs /\ pos' \in Nat
    BY <1>1, <1>2 DEF TypeOK, PoolTypeOK
  <2> QED
    BY <1>1, <2>1, RecoverKeeps DEF poolVars, cacheVars, history, Modes
<1>4. Restorable'
  BY <1>1, <1>2, RestorableKept
<1>5. ASSUME NEW p \in safe PROVE disk[p] = base[p]
  <2>1. Undone(p)
    BY <1>1 DEF Restorable
  <2>2. \/ \E i \in DOMAIN log : IsFirstUndone(i, p, 0) /\ disk[p] = log[i].before
        \/ NoneUndone(p, 0) /\ RedoneTo(p, Len(log) + 1)
    BY <1>1 DEF Undoing
  <2> QED
    BY <1>2, <2>1, <2>2, UndoneOnDisk
<1>6. Aborting'
  <2>1. active' = Unfinished'
    BY <1>1, <1>2, LogKept DEF Undoing
  <2> QED
    BY <1>2, <1>5, <2>1 DEF Aborting
<1> QED
  BY <1>1, <1>3, <1>4, <1>6 DEF DatabaseInv

LEMMA UndoFailsInv == ASSUME DatabaseInv, UndoFails PROVE DatabaseInv'
<1>1. /\ mode = "undo" /\ mode' = "abort" /\ pos > 0 /\ active' = {}
      /\ safe' = {p \in safe : \A i \in 1 .. pos :
                    log[i].page = p /\ log[i].type = RecordUpdate => log[i].txnID \notin active}
      /\ UNCHANGED <<poolVars, pos, tail, nextID, base, touched, owned, stolen>>
      /\ TypeOK /\ Restorable /\ Undoing
  BY DEF UndoFails, DatabaseInv
<1>2. /\ log \in Seq(Record) /\ pos \in Nat /\ DOMAIN log = 1 .. Len(log) /\ Len(log) \in Nat
      /\ UNCHANGED <<log, disk, base, touched>> /\ safe' \in SUBSET safe
  <2>1. log \in Seq(Record) /\ pos \in Nat
    BY <1>1 DEF TypeOK, PoolTypeOK
  <2>2. DOMAIN log = 1 .. Len(log) /\ Len(log) \in Nat
    BY <2>1, LogDomain
  <2>3. UNCHANGED <<log, disk, base, touched>>
    BY <1>1 DEF poolVars
  <2>4. safe' \in SUBSET safe
    BY <1>1
  <2> QED
    BY <2>1, <2>2, <2>3, <2>4
<1>3. TypeOK' /\ UpdatesSound' /\ Restarted'
  <2>1. disk' \in [Pages -> AllImages] /\ active' \in SUBSET TxnIDs /\ pos' \in Nat
    BY <1>1, <1>2 DEF TypeOK, PoolTypeOK
  <2> QED
    BY <1>1, <1>2, <2>1, RecoverKeeps DEF poolVars, cacheVars, Modes
<1>4. Restorable'
  BY <1>1, <1>2, RestorableKept
<1>5. ASSUME NEW p \in safe' PROVE disk[p] = base[p]
  <2>1. Undone(p) /\ p \in safe
    BY <1>1, <1>2 DEF Restorable
  <2>2. \/ \E i \in DOMAIN log : IsFirstUndone(i, p, pos) /\ disk[p] = log[i].before
        \/ NoneUndone(p, pos) /\ RedoneTo(p, Len(log) + 1)
    BY <1>1, <2>1 DEF Undoing
  <2>3. ASSUME NEW i \in DOMAIN log, i <= pos PROVE ~IsUndone(i, p)
    <3>1. i \in 1 .. pos /\ active = Unfinished
      <4>1. pos \in Nat /\ Len(log) \in Nat /\ i \in 1 .. Len(log) /\ i <= pos
        BY <1>2, <2>3
      <4>2. active = Unfinished
        BY <1>1 DEF Undoing
      <4> QED
        BY <4>1, <4>2
    <3> QED
      BY <1>1, <1>5, <3>1 DEF IsUndone, IsUpdate
  <2> QED
    BY <1>2, <2>1, <2>2, <2>3, UndoneOnDisk
<1>6. Aborting'
  BY <1>1, <1>2, <1>5 DEF Aborting
<1> QED
  BY <1>1, <1>3, <1>4, <1>6 DEF DatabaseInv

(* An abort record: the transaction is not undone again, which is right    *)
(* for the pages it has not touched.                                       *)
LEMMA AbortRecordInv ==
  ASSUME DatabaseInv, NEW t \in TxnIDs, AbortRecord(t) PROVE DatabaseInv'
<1>1. /\ mode = "abort" /\ mode' = "abort" /\ t \in active /\ active' = active \ {t}
      /\ WriteRecord("abort", t)
      /\ UNCHANGED <<disk, cacheVars, currentTxnID, free, op, victim, want, pos, tail, nextID, history>>
      /\ TypeOK /\ UpdatesSound /\ Restarted /\ Restorable /\ Aborting
  BY DEF AbortRecord, DatabaseInv
<1>2. Unfinished = {t} /\ active' = {}
  BY <1>1 DEF Aborting, Restorable
<1>3. log \in Seq(Record) /\ safe \subseteq Pages /\ UNCHANGED <<base, touched, safe>>
  BY <1>1 DEF TypeOK, PoolTypeOK, history
<1>4. ASSUME log' \in Seq(Record), UpdatesSound', \A x, y \in Unfinished' : x = y,
             \A p \in safe \ touched : Redone(p)' /\ Undone(p)'
      PROVE  DatabaseInv'
  <2>1. PoolTypeOK'
    BY <1>1, <1>4 DEF TypeOK, PoolTypeOK, cacheVars
  <2>2. TypeOK'
    BY <1>1, <1>2, <2>1 DEF TypeOK, history
  <2>3. Restarted'
    BY <1>1 DEF Restarted, EmptyPool, cacheVars
  <2>4. Restorable'
    BY <1>1, <1>2, <1>3, <1>4 DEF Restorable
  <2>5. Aborting'
    BY <1>1, <1>2, <1>3 DEF Aborting
  <2> QED
    BY <1>1, <1>4, <2>2, <2>3, <2>4, <2>5 DEF DatabaseInv
<1>5. CASE tail # "none"
  <2>1. log' = log
    BY <1>1, <1>5 DEF WriteRecord
  <2>2. \A p \in safe \ touched : Redone(p)' /\ Undone(p)'
    BY <1>1, <1>3, <2>1, ImagesKept DEF Restorable
  <2> QED
    BY <1>1, <1>2, <1>3, <1>4, <2>1, <2>2, LogKept
<1>6. CASE tail = "none"
  <2>1. PICK r \in Record : r.type = "abort" /\ r.txnID = t /\ log' = Append(log, r)
    BY <1>1, <1>6, TransactionRecord
  <2>2. log' \in Seq(Record) /\ r.type # RecordUpdate
    BY <1>3, <2>1, AppendFacts DEF RecordUpdate
  <2>3. UpdatesSound'
    BY <1>1, <1>3, <2>1, <2>2, OtherRecordSound
  <2>4. Unfinished' = {}
    BY <1>2, <1>3, <2>1, UnfinishedAppend DEF AfterRecord
  <2>5. ASSUME NEW p \in safe \ touched PROVE Redone(p)' /\ Undone(p)'
    <3>1. Redone(p)
      BY <1>1 DEF Restorable
    <3>2. \A q : \A i \in DOMAIN log' : /\ IsUpdate(i, q)' <=> i \in DOMAIN log /\ IsUpdate(i, q)
                                        /\ IsLastUpdate(i, q)' <=> i \in DOMAIN log /\ IsLastUpdate(i, q)
      BY <1>3, <2>1, <2>2, OtherRecord
    <3>3. \A i \in DOMAIN log : i \in DOMAIN log' /\ log'[i] = log[i]
      <4>1. /\ Len(log) \in Nat /\ DOMAIN log = 1 .. Len(log) /\ DOMAIN log' = 1 .. Len(log) + 1
            /\ \A i \in DOMAIN log : log'[i] = log[i]
        BY <1>3, <2>1, AppendFacts
      <4> QED
        BY <4>1
    <3>4. Redone(p)'
      BY <1>1, <1>3, <3>1, <3>2, <3>3 DEF Redone
    <3>5. NoneUndone(p, 0)'
      BY <2>4 DEF NoneUndone, IsUndone
    <3> QED
      BY <3>4, <3>5 DEF Undone
  <2> QED
    BY <1>4, <2>2, <2>3, <2>4, <2>5
<1> QED
  BY <1>5, <1>6

LEMMA AbortFailsInv == ASSUME DatabaseInv, AbortFails PROVE DatabaseInv'
<1>1. /\ mode = "abort" /\ mode' = "abort" /\ active' = {}
      /\ UNCHANGED <<poolVars, pos, tail, nextID, history>>
      /\ TypeOK /\ Restorable /\ Aborting
  BY DEF AbortFails, DatabaseInv
<1>2. UNCHANGED <<log, disk, base, touched, safe>>
  BY <1>1 DEF poolVars, history
<1>3. TypeOK' /\ UpdatesSound' /\ Restarted'
  <2>1. disk' \in [Pages -> AllImages] /\ active' \in SUBSET TxnIDs /\ pos' \in Nat
    BY <1>1, <1>2 DEF TypeOK, PoolTypeOK
  <2> QED
    BY <1>1, <2>1, RecoverKeeps DEF poolVars, cacheVars, history, Modes
<1>4. Restorable'
  BY <1>1, <1>2, LogKept, ImagesKept DEF Restorable
<1>5. Aborting'
  BY <1>1, <1>2 DEF Aborting
<1> QED
  BY <1>1, <1>3, <1>4, <1>5 DEF DatabaseInv

LEMMA CheckpointInv == ASSUME DatabaseInv, Checkpoint PROVE DatabaseInv'
<1> USE PoolAssumption
<1>1. /\ mode' = "open" /\ log' = << >> /\ tail' = "none" /\ NoTransaction /\ safe' = {}
      /\ UNCHANGED <<disk, cacheVars, currentTxnID, free, op, victim, want, pos, active, nextID>>
      /\ TypeOK /\ Restarted
  BY DEF Checkpoint, DatabaseInv
<1>2. DOMAIN log' = {} /\ log' \in Seq(Record) /\ Len(log') = 0
  BY <1>1
<1>3. EmptyPool' /\ op' = "idle" /\ victim' = NoPage /\ nextID' = 1
  BY <1>1 DEF Restarted, EmptyPool, cacheVars
<1>4. PoolTypeOK'
  BY <1>1, <1>2 DEF TypeOK, PoolTypeOK, cacheVars
<1>5. PoolInv'
  <2>1. DOMAIN lruList' = {} /\ Len(lruList') = 0
    BY <1>3 DEF EmptyPool
  <2>2. LruConsistent'
    BY <1>3, <1>4, <2>1 DEF LruConsistent, Cached, EmptyPool
  <2>3. ImagesTrackDisk'
    BY <1>3 DEF ImagesTrackDisk, Cached, EmptyPool
  <2>4. LogExplainsDisk' /\ Midway'
    BY <1>2, <1>3 DEF LogExplainsDisk, LogChained, Midway
  <2> QED
    BY <2>2, <2>3, <2>4 DEF PoolInv
<1>6. TypeOK'
  BY <1>1, <1>4 DEF TypeOK, NoTransaction, Modes
<1>7. IDsBelowNext'
  BY <1>2, <1>3 DEF IDsBelowNext, EmptyPool
<1>8. Unfinished' = {}
  BY <1>2 DEF Unfinished, UnfinishedIn
<1>9. Session' /\ ~InTxn'
  BY <1>1, <1>3, <1>5, <1>7, <1>8 DEF Session, InTxn, EmptyPool, NoTransaction
<1>10. UpdatesSound'
  BY <1>2 DEF UpdatesSound
<1> QED
  BY <1>1, <1>6, <1>9, <1>10 DEF DatabaseInv
-----------------------------------------------------------------------------
(* The invariant holds *)

LEMMA DatabaseInitInv == Init => DatabaseInv
<1> SUFFICES ASSUME Init PROVE DatabaseInv
  OBVIOUS
<1> USE PoolAssumption
<1>1. PoolInv /\ EmptyPool /\ log = << >> /\ currentTxnID = 0
  BY InitInv DEF Init, PoolInit, EmptyPool
<1>2. DOMAIN log = {}
  BY <1>1
<1>3. TypeOK
  <2>1. PoolTypeOK
    BY <1>1 DEF PoolInv, LruConsistent
  <2> QED
    BY <2>1 DEF Init, TypeOK, Modes
<1>4. UpdatesSound
  BY <1>2 DEF UpdatesSound
<1>5. IDsBelowNext
  <2>1. dirty = {} /\ nextID = 1
    BY <1>1 DEF Init, EmptyPool
  <2> QED
    BY <1>1, <1>2, <2>1 DEF IDsBelowNext
<1>6. Unfinished = {}
  BY <1>2 DEF Unfinished, UnfinishedIn
<1>7. Session /\ ~InTxn
  BY <1>1, <1>5, <1>6 DEF Session, InTxn, Init
<1> QED
  BY <1>3, <1>4, <1>7 DEF DatabaseInv, Init

LEMMA DatabaseNextInv == DatabaseInv /\ [Next]_vars => DatabaseInv'
<1> SUFFICES ASSUME DatabaseInv, [Next]_vars PROVE DatabaseInv'
  OBVIOUS
<1>1. CASE Statement
  BY <1>1, StatementInv
<1>2. CASE Begin \/ Commit \/ Rollback
  BY <1>2, BeginInv, CommitInv, RollbackInv
<1>3. CASE CloseFlush \/ Flush
  BY <1>3, FlushesInv
<1>4. CASE CloseFiles \/ Crash
  BY <1>4, ProcessEndsInv
<1>5. CASE Recovery
  BY <1>5, ReadAllInv, AnalysisPassInv, AnalysisDoneInv, UndoPassInv, UndoDoneInv,
     AbortRecordInv, CheckpointInv DEF Recovery
<1>6. CASE UndoFails \/ AbortFails
  BY <1>6, UndoFailsInv, AbortFailsInv
<1>7. CASE UNCHANGED vars
  <2>1. UNCHANGED <<poolVars, sessionVars, history>>
    BY <1>7 DEF vars
  <2>2. UNCHANGED <<disk, log, data, dirty, pinCount, lruList, cleanSnapshots, beforeImages,
                    dirtyTxn, currentTxnID, free, op, victim, want, mode, pos, active, tail,
                    nextID, base, touched, owned, stolen, safe>>
    BY <2>1 DEF poolVars, sessionVars, history
  <2>3. TypeOK' <=> TypeOK
    <3>1. PoolTypeOK' <=> PoolTypeOK
      BY <2>2 DEF PoolTypeOK
    <3> QED
      BY <2>2, <3>1 DEF TypeOK
  <2>4. UpdatesSound' <=> UpdatesSound
    BY <2>2, LogKept
  <2>5. \A p : /\ FirstImage(p)' <=> FirstImage(p)
               /\ Redone(p)' <=> Redone(p)
               /\ Undone(p)' <=> Undone(p)
    BY <2>2, ImagesKept
  <2>6. Unfinished' = Unfinished
    BY <2>2, LogKept
  <2>7. Session => Session'
    <3>1. PoolInv => PoolInv'
      BY <2>1, NextInv
    <3> QED
      BY <2>2, <2>6, <3>1 DEF Session, IDsBelowNext, InTxn
  <2>8. InFlight' <=> InFlight
    BY <2>2, <2>5, <2>6 DEF InFlight, Untouched, Owned, DirtiedFirst, View, Cached, NoneUndone,
       IsUndone, IsUpdate
  <2>9. Restarted' <=> Restarted
    BY <2>2 DEF Restarted, EmptyPool
  <2>10. Restorable' <=> Restorable
    BY <2>2, <2>5, <2>6 DEF Restorable
  <2>11. Redoing' <=> Redoing
    <3>1. UNCHANGED <<log, disk, pos, active, safe>>
      BY <2>2
    <3>2. \A p : RedoneTo(p, pos)' <=> RedoneTo(p, pos)
      BY <3>1 DEF RedoneTo, IsUpdate
    <3> QED
      BY <3>1, <3>2 DEF Redoing
  <2>12. Undoing' <=> Undoing
    <3>1. UNCHANGED <<log, disk, pos, active, safe>>
      BY <2>2
    <3>2. \A p : /\ RedoneTo(p, Len(log) + 1)' <=> RedoneTo(p, Len(log) + 1)
                 /\ NoneUndone(p, pos)' <=> NoneUndone(p, pos)
      BY <2>6, <3>1 DEF RedoneTo, NoneUndone, IsUndone, IsUpdate
    <3>3. \A i, p : IsFirstUndone(i, p, pos)' <=> IsFirstUndone(i, p, pos)
      BY <2>6, <3>1 DEF IsFirstUndone, IsUndone, IsUpdate
    <3> QED
      BY <2>6, <3>1, <3>2, <3>3 DEF Undoing
  <2>13. Aborting' <=> Aborting
    BY <2>2, <2>6 DEF Aborting
  <2> QED
    BY <2>2, <2>3, <2>4, <2>7, <2>8, <2>9, <2>10, <2>11, <2>12, <2>13 DEF DatabaseInv, InTxn
<1> QED
  BY <1>1, <1>2, <1>3, <1>4, <1>5, <1>6, <1>7 DEF Next

(* The inductive invariant of the database, in sessions, down and in       *)
(* Recover, whatever crashes or fails.                                     *)
THEOREM DatabaseInvariant == Spec => []DatabaseInv
BY DatabaseInitInv, DatabaseNextInv, PTL DEF Spec
-----------------------------------------------------------------------------
(* What follows *)

(* In every session the LRU list, the before-images and the log are in     *)
(* order, and analysisPass would find no transaction unfinished but the    *)
(* one in flight, after any number of rollbacks, crashes and recoveries.   *)
THEOREM SessionsAlwaysTrackDisk == Spec => []SessionTracksDisk
<1>1. ASSUME DatabaseInv PROVE SessionTracksDisk
  <2> SUFFICES ASSUME mode = "open"
               PROVE  LruConsistent /\ ImagesTrackDisk /\ LogExplainsDisk /\ OneUnfinished
    BY DEF SessionTracksDisk
  <2>1. PoolInv /\ Unfinished = (IF InTxn THEN {currentTxnID} ELSE {})
    BY <1>1 DEF DatabaseInv, Session
  <2>2. DOMAIN log = 1 .. Len(log) /\ Len(log) \in Nat
    <3>1. log \in Seq(Record)
      BY <1>1 DEF DatabaseInv, TypeOK, PoolTypeOK
    <3> QED
      BY <3>1, LogDomain
  <2>3. Unfinished = {t \in TxnIDs :
          \E i \in DOMAIN log :
            /\ log[i].type = "begin" /\ log[i].txnID = t
            /\ \A j \in DOMAIN log : j > i => ~(log[j].txnID = t /\ log[j].type # RecordUpdate)}
    <3>1. \A i \in DOMAIN log : i <= Len(log)
      BY <2>2
    <3>2. \A i, j \in DOMAIN log : j > i <=> i < j
      BY <2>2
    <3> QED
      BY <3>1, <3>2 DEF Unfinished, UnfinishedIn
  <2> QED
    BY <2>1, <2>3 DEF PoolInv, OneUnfinished
<1> QED
  BY <1>1, DatabaseInvariant, PTL

(* No step of a session but ROLLBACK ends the log with an abort record. *)
LEMMA OnlyRollbackAborts ==
  ASSUME DatabaseInv, [Next]_vars, RolledBack PROVE Rollback
<1>1. /\ mode = "open" /\ mode' = "open" /\ InTxn
      /\ log'[Len(log')].type = "abort"
      /\ TypeOK /\ tail = "none" /\ PoolInv /\ log \in Seq(Record)
  <2>1. mode = "open" /\ mode' = "open" /\ InTxn /\ log'[Len(log')].type = "abort"
    BY DEF RolledBack
  <2>2. TypeOK /\ tail = "none" /\ PoolInv
    BY <2>1 DEF DatabaseInv, Session
  <2>3. log \in Seq(Record)
    BY <2>2 DEF TypeOK, PoolTypeOK
  <2> QED
    BY <2>1, <2>2, <2>3
<1>2. log' # log
  <2>1. Len(log) \in Nat /\ Len(log') > Len(log)
    BY <1>1 DEF RolledBack
  <2> QED
    BY <2>1
<1>3. ASSUME SessionStep PROVE FALSE
  <2>1. PICK v \in dirty : writeWALUpdate(v)
    BY <1>1, <1>2, <1>3, SessionStepFacts
  <2>2. PICK r \in Record : r.type = RecordUpdate /\ log' = Append(log, r)
    BY <1>1, <2>1, UpdateRecord
  <2> QED
    BY <1>1, <2>2, AppendFacts DEF RecordUpdate
<1>4. ~Statement /\ ~CloseFlush /\ ~Flush
  BY <1>3 DEF Statement, CloseFlush, Flush, SessionStep
<1>5. ~Begin
  BY <1>1 DEF Begin
<1>6. ASSUME Commit PROVE FALSE
  <2>1. PICK r \in Record : r.type = "commit" /\ log' = Append(log, r)
    BY <1>1, <1>6, TransactionRecord DEF Commit, TypeOK, PoolTypeOK
  <2> QED
    BY <1>1, <2>1, AppendFacts
<1>7. ~CloseFiles /\ ~Crash
  BY <1>1 DEF CloseFiles, Crash, Down
<1>8. ~Recovery /\ ~UndoFails /\ ~AbortFails
  BY <1>1 DEF Recovery, ReadAll, AnalysisPass, AnalysisDone, UndoPass, UndoDone, AbortRecord,
     Checkpoint, UndoFails, AbortFails
<1>9. ~UNCHANGED vars
  BY <1>2 DEF vars, poolVars
<1> QED
  BY <1>4, <1>5, <1>6, <1>7, <1>8, <1>9 DEF Next

(* RollbackTxn gives back what BEGIN found of every page that the          *)
(* transaction dirtied first and that stayed in the pool, and of every     *)
(* page it did not touch.                                                  *)
THEOREM RollbackAlwaysRestores == Spec => RollbackRestores
<1>1. ASSUME DatabaseInv, [Next]_vars, RolledBack, NEW p \in Pages \ stolen,
             p \in owned \/ p \notin touched
      PROVE  View(p)' = base[p]
  <2>1. Rollback /\ mode = "open" /\ InTxn
    BY <1>1, OnlyRollbackAborts DEF RolledBack
  <2>2. op = "idle" /\ RollbackTxn(currentTxnID) /\ DatabaseInv'
    BY <1>1, <2>1, RollbackInv DEF Rollback, AtStatement
  <2>3. PoolInv /\ currentTxnID \in TxnIDs /\ log' \in Seq(Record) /\ currentTxnID' \in TxnIDs
    BY <1>1, <2>1, <2>2 DEF DatabaseInv, Session, TypeOK, PoolTypeOK
  <2>4. View(p)' = IF p \in dirty /\ dirtyTxn[p] = currentTxnID THEN disk[p] ELSE View(p)
    BY <2>2, <2>3, RollbackTxnFrames
  <2>5. InFlight
    BY <1>1, <2>1 DEF DatabaseInv
  <2>6. CASE p \in owned
    BY <1>1, <2>2, <2>4, <2>5, <2>6 DEF InFlight, Owned, DirtiedFirst
  <2>7. CASE p \notin touched
    BY <2>4, <2>5, <2>7 DEF InFlight, Untouched
  <2> QED
    BY <1>1, <2>6, <2>7
<1>2. DatabaseInv /\ [Next]_vars =>
        [RolledBack => \A p \in Pages \ stolen :
           p \in owned \/ p \notin touched => View(p)' = base[p]]_vars
  BY <1>1
<1> QED
  BY <1>2, DatabaseInvariant, PTL DEF Spec, RollbackRestores

(* Recover leaves in the file what the finished transactions left of every *)
(* page that the log knows all about, also when it was cut off before and  *)
(* started again, and when undoPass gave up on other pages.                *)
THEOREM RecoveryAlwaysRestores == Spec => RecoveryRestores
<1>1. ASSUME DatabaseInv, [Next]_vars, Recovered, NEW p \in safe PROVE disk'[p] = base[p]
  <2>1. mode = "abort" /\ mode' = "open" /\ Aborting
    BY <1>1 DEF Recovered, DatabaseInv
  <2>2. Checkpoint
    <3>1. /\ ~Statement /\ ~CloseFlush /\ ~Flush /\ ~Begin /\ ~Commit /\ ~Rollback
          /\ ~CloseFiles /\ ~Crash
      BY <2>1 DEF Statement, CloseFlush, Flush, Begin, Commit, Rollback, CloseFiles, Crash, Down,
         AtStatement
    <3>2. Recovery => Checkpoint
      BY <2>1 DEF Recovery, ReadAll, AnalysisPass, AnalysisDone, UndoPass, UndoDone, AbortRecord
    <3>3. ~UndoFails /\ ~AbortFails /\ ~UNCHANGED vars
      BY <2>1 DEF UndoFails, AbortFails, vars, sessionVars
    <3> QED
      BY <1>1, <3>1, <3>2, <3>3 DEF Next
  <2> QED
    BY <2>1, <2>2 DEF Checkpoint, Aborting
<1>2. DatabaseInv /\ [Next]_vars => [Recovered => \A p \in safe : disk'[p] = base[p]]_vars
  BY <1>1
<1> QED
  BY <1>2, DatabaseInvariant, PTL DEF Spec, RecoveryRestores

(* Every step of Recover brings it nearer to its end, by a count that is   *)
(* never negative: two passes over the log and one abort record at most,   *)
(* whatever log a session or a Recover that was cut off has left.          *)
THEOREM RecoverAdvances ==
  Spec => [][Recovery => StepsLeft' \in Nat /\ StepsLeft' < StepsLeft]_vars
<1>1. ASSUME DatabaseInv, Recovery PROVE StepsLeft' \in Nat /\ StepsLeft' < StepsLeft
  <2>1. Len(log) \in Nat /\ pos \in Nat
    <3>1. log \in Seq(Record) /\ pos \in Nat
      BY <1>1 DEF DatabaseInv, TypeOK, PoolTypeOK
    <3> QED
      BY <3>1, LogDomain
  <2>2. CASE ReadAll
    <3>1. StepsLeft = 2 * Len(log) + 5
      BY <2>2 DEF ReadAll, StepsLeft
    <3>2. StepsLeft' = Len(log) + Len(log) + 4
      BY <2>1, <2>2 DEF ReadAll, StepsLeft, poolVars
    <3> QED
      BY <2>1, <3>1, <3>2
  <2>3. CASE AnalysisPass
    <3>1. mode = "redo" /\ mode' = "redo" /\ pos <= Len(log) /\ pos' = pos + 1 /\ log' = log
      BY <2>3 DEF AnalysisPass
    <3>2. StepsLeft = (Len(log) + 1 - pos) + Len(log) + 4
      BY <3>1 DEF StepsLeft
    <3>3. StepsLeft' = (Len(log) + 1 - (pos + 1)) + Len(log) + 4
      BY <3>1 DEF StepsLeft
    <3> QED
      BY <2>1, <3>1, <3>2, <3>3
  <2>4. CASE AnalysisDone
    <3>1. mode = "redo" /\ mode' = "undo" /\ pos > Len(log) /\ pos' = Len(log)
      BY <2>4 DEF AnalysisDone
    <3>2. pos = Len(log) + 1
      BY <1>1, <2>1, <3>1 DEF DatabaseInv, Redoing
    <3>3. StepsLeft = (Len(log) + 1 - pos) + Len(log) + 4
      BY <3>1 DEF StepsLeft
    <3>4. StepsLeft' = Len(log) + 2 + (IF active' = {} THEN 0 ELSE 1)
      BY <3>1 DEF StepsLeft
    <3> QED
      BY <2>1, <3>2, <3>3, <3>4
  <2>5. CASE UndoPass
    <3>1. mode = "undo" /\ mode' = "undo" /\ pos > 0 /\ pos' = pos - 1 /\ active' = active
      BY <2>5 DEF UndoPass
    <3>2. /\ StepsLeft = pos + 2 + (IF active = {} THEN 0 ELSE 1)
          /\ StepsLeft' = (pos - 1) + 2 + (IF active = {} THEN 0 ELSE 1)
      BY <3>1 DEF StepsLeft
    <3> QED
      BY <2>1, <3>1, <3>2
  <2>6. CASE UndoDone
    <3>1. mode = "undo" /\ mode' = "abort" /\ pos = 0 /\ active' = active
      BY <2>6 DEF UndoDone
    <3>2. /\ StepsLeft = 0 + 2 + (IF active = {} THEN 0 ELSE 1)
          /\ StepsLeft' = 1 + (IF active = {} THEN 0 ELSE 1)
      BY <3>1 DEF StepsLeft
    <3> QED
      BY <3>2
  <2>7. ASSUME NEW t \in TxnIDs, AbortRecord(t)
        PROVE  StepsLeft' \in Nat /\ StepsLeft' < StepsLeft
    <3>1. mode = "abort" /\ mode' = "abort" /\ t \in active /\ active' = active \ {t}
      BY <2>7 DEF AbortRecord
    <3>2. active' = {}
      BY <1>1, <3>1 DEF DatabaseInv, Aborting, Restorable
    <3>3. StepsLeft = 2 /\ StepsLeft' = 1
      BY <3>1, <3>2 DEF StepsLeft
    <3> QED
      BY <3>3
  <2>8. CASE Checkpoint
    <3>1. mode = "abort" /\ mode' = "open" /\ active = {}
      BY <2>8 DEF Checkpoint
    <3>2. StepsLeft = 1 /\ StepsLeft' = 0
      BY <3>1 DEF StepsLeft
    <3> QED
      BY <3>2
  <2> QED
    BY <1>1, <2>2, <2>3, <2>4, <2>5, <2>6, <2>7, <2>8 DEF Recovery
<1>2. DatabaseInv /\ [Next]_vars =>
        [Recovery => StepsLeft' \in Nat /\ StepsLeft' < StepsLeft]_vars
  BY <1>1
<1> QED
  BY <1>2, DatabaseInvariant, PTL DEF Spec
=============================================================================
