------------------------------ MODULE Database ------------------------------
(***************************************************************************)
(* A database from Open to Close or a crash, and again: the buffer pool,   *)
(* the transactions of txn/txn.go as executor/executor.go drives them, the *)
(* log file of wal/wal.go and the recovery of wal/recovery.go that         *)
(* db.go runs on every Open.                                               *)
(*                                                                         *)
(* A crash ends the process: what was written to the two files stays, and  *)
(* the pool and the transaction manager are lost. It may leave a partial   *)
(* record at the end of the log: cut in its 21-byte header, or after it.   *)
(* One session runs at a time and currentTxnID # 0 is the executor's       *)
(* currentTxn # nil. A record's LSN is its place in the log: the log is    *)
(* empty after every Open and is only appended to.                         *)
(***************************************************************************)
EXTENDS BufferPool

CONSTANTS
  MaxCrashes,  \* bound on the number of crashes and failed writes
  Autocommit   \* whether statements run outside BEGIN and COMMIT too

ASSUME DatabaseAssumption ==
  /\ MaxCrashes \in Nat
  /\ Autocommit \in BOOLEAN
  /\ TxnIDs \subseteq Nat

VARIABLES
  mode,     \* open, down, or the pass of Recover: redo, undo, abort
  pos,      \* the record the pass is at
  active,   \* the transactions analysisPass found unfinished
  tail,     \* the partial record at the end of the log file
  nextID,   \* the transaction manager's
  crashes   \* how many there were, failed writes included

(* History: what the properties compare the database with. *)
VARIABLES
  base,     \* the pages as the finished transactions left them
  touched,  \* the pages the transaction in flight has changed or freed
  owned,    \* those of them that were clean when it changed them first
  stolen,   \* those of them evicted since
  safe      \* when it ended: the pages the log holds all there is to know of

sessionVars == <<mode, pos, active, tail, nextID, crashes>>
history == <<base, touched, owned, stolen, safe>>
vars == <<poolVars, sessionVars, history>>

Modes == {"open", "down", "redo", "undo", "abort"}

Init ==
  /\ PoolInit
  /\ mode = "open"
  /\ pos = 0
  /\ active = {}
  /\ tail = "none"
  /\ nextID = 1
  /\ crashes = 0
  /\ base = [p \in Pages |-> NoImage]
  /\ touched = {} /\ owned = {} /\ stolen = {}
  /\ safe = {}

InTxn == currentTxnID # 0
Views == [p \in Pages |-> View(p)]

\* The history of a transaction that is over.
NoTransaction ==
  /\ base' = [p \in Pages |-> NoImage]
  /\ touched' = {} /\ owned' = {} /\ stolen' = {}

\* WriteRecord of a record without images. What follows a partial record cannot
\* be read back.
WriteRecord(type, t) ==
  log' = IF tail # "none" THEN log
         ELSE Append(log, [type |-> type, txnID |-> t, page |-> NoPage,
                           before |-> NoImage, after |-> NoImage])
-----------------------------------------------------------------------------
(* A session *)

\* Between statements no page is pinned and no method is in progress.
AtStatement == mode = "open" /\ op = "idle" /\ \A p \in Pages : pinCount[p] = 0

\* A step of a statement that reads or changes pages.
Statement ==
  /\ mode = "open"
  /\ Autocommit \/ InTxn
  /\ PoolStep
  /\ LET changed == {p \in Pages : InTxn /\ Cached(p) /\ Cached(p)' /\ data'[p] # data[p]}
         freed == {p \in free' \ free : InTxn}
     IN /\ touched' = touched \cup changed \cup freed
        /\ owned' = (owned \cup {p \in changed \ touched : p \notin dirty}) \ freed
        /\ stolen' = stolen \cup {p \in touched : Cached(p) /\ ~Cached(p)'}
  /\ UNCHANGED <<sessionVars, base, safe>>

\* BEGIN
Begin ==
  /\ AtStatement
  /\ ~InTxn
  /\ nextID \in TxnIDs
  /\ Len(log) < MaxLog
  /\ WriteRecord("begin", nextID)
  /\ nextID' = nextID + 1
  /\ SetTxnID(nextID)
  /\ base' = Views
  /\ UNCHANGED <<disk, cacheVars, free, op, victim, want, mode, pos, active, tail, crashes,
                 touched, owned, stolen, safe>>

\* COMMIT: a record, and nothing else is written.
Commit ==
  /\ AtStatement
  /\ InTxn
  /\ Len(log) < MaxLog
  /\ WriteRecord("commit", currentTxnID)
  /\ SetTxnID(0)
  /\ NoTransaction
  /\ UNCHANGED <<disk, cacheVars, free, op, victim, want, sessionVars, safe>>

\* ROLLBACK: the pool's before-images, then a record.
Rollback ==
  /\ AtStatement
  /\ InTxn
  /\ Len(log) < MaxLog
  /\ RollbackTxn(currentTxnID)
  /\ WriteRecord("abort", currentTxnID)
  /\ SetTxnID(0)
  /\ NoTransaction
  /\ UNCHANGED <<sessionVars, safe>>

\* Close: FlushAll, and the files are closed; the log is not truncated.
CloseFlush ==
  /\ AtStatement
  /\ FlushBegin
  /\ UNCHANGED <<sessionVars, history>>

Flush ==
  /\ mode = "open"
  /\ FlushStep
  /\ UNCHANGED <<sessionVars, history>>

\* The end of a session: the memory is gone, and history notes what the next
\* Open has to restore. A page that holds a node is safe if the transaction in
\* flight dirtied it first, or if that transaction did not touch it and its content is
\* on disk or in the log. When Recover itself is cut off after its last abort
\* record, the pages of the transaction it undid are no longer safe.
Down ==
  /\ mode' = "down"
  /\ NewBufferPool
  /\ op' = "idle" /\ victim' = NoPage /\ want' = NoPage
  /\ nextID' = 1
  /\ pos' = 0
  /\ active' = {}
  /\ IF mode = "open"
     THEN LET left == IF InTxn THEN base ELSE Views
          IN /\ base' = [p \in Pages |-> IF p \in touched \ owned THEN NoImage ELSE left[p]]
             /\ safe' = {p \in Pages \ free : left[p] # LinkImage /\
                          (p \in owned \/ (p \notin touched /\ (p \notin dirty \/ p = victim)))}
     ELSE /\ safe' = IF mode = "abort" /\ active = {} THEN safe \ touched ELSE safe
          /\ UNCHANGED base
  /\ owned' = {} /\ stolen' = {}
  /\ UNCHANGED <<disk, free, touched>>

CloseFiles ==
  /\ mode = "open"
  /\ op = "flushing"
  /\ victim = NoPage
  /\ dirty = {}
  /\ Down
  /\ UNCHANGED <<log, tail, crashes>>

\* The next thing the process does may be to write a record.
BeforeWriteRecord ==
  \/ mode = "open" /\ victim = NoPage /\ (op = "flushing" => dirty # {})
  \/ mode = "abort" /\ active # {}

Crash ==
  /\ mode # "down"
  /\ crashes < MaxCrashes
  /\ crashes' = crashes + 1
  /\ \/ UNCHANGED tail
     \/ tail = "none" /\ BeforeWriteRecord /\ tail' \in {"header", "body"}
  /\ Down
  /\ UNCHANGED log
-----------------------------------------------------------------------------
(* Recover, on every Open *)

\* Mutant: any partial record is an error.
ReadAllStrict ==
  /\ mode = "down"
  /\ tail = "none"
  /\ mode' = "redo"
  /\ pos' = 1
  /\ UNCHANGED <<poolVars, active, tail, nextID, crashes, history>>

\* Open and ReadAll. A log that ends within a header cannot be read: Open fails,
\* now and every time.
ReadAll ==
  /\ mode = "down"
  /\ tail # "header"
  /\ mode' = "redo"
  /\ pos' = 1
  /\ UNCHANGED <<poolVars, active, tail, nextID, crashes, history>>

\* A step of analysisPass, which also redoes every update there is.
AnalysisPass ==
  /\ mode = "redo"
  /\ pos <= Len(log)
  /\ LET r == log[pos]
     IN /\ disk' = IF r.type = RecordUpdate THEN [disk EXCEPT ![r.page] = r.after] ELSE disk
        /\ active' = CASE r.type = "begin" -> active \cup {r.txnID}
                       [] r.type \in {"commit", "abort"} -> active \ {r.txnID}
                       [] OTHER -> active
  /\ pos' = pos + 1
  /\ UNCHANGED <<log, cacheVars, currentTxnID, free, op, victim, want, mode, tail, nextID,
                 crashes, history>>

AnalysisDone ==
  /\ mode = "redo"
  /\ pos > Len(log)
  /\ mode' = "undo"
  /\ pos' = Len(log)
  /\ UNCHANGED <<poolVars, active, tail, nextID, crashes, history>>

\* Mutant: the updates are undone from the first record to the last.
UndoPassForward ==
  /\ mode = "undo"
  /\ pos > 0
  /\ LET r == log[Len(log) + 1 - pos]
     IN disk' = IF r.type = RecordUpdate /\ r.txnID \in active
                THEN [disk EXCEPT ![r.page] = r.before] ELSE disk
  /\ pos' = pos - 1
  /\ UNCHANGED <<log, cacheVars, currentTxnID, free, op, victim, want, mode, active, tail,
                 nextID, crashes, history>>

\* A step of undoPass, from the last record to the first.
UndoPass ==
  /\ mode = "undo"
  /\ pos > 0
  /\ LET r == log[pos]
     IN disk' = IF r.type = RecordUpdate /\ r.txnID \in active
                THEN [disk EXCEPT ![r.page] = r.before] ELSE disk
  /\ pos' = pos - 1
  /\ UNCHANGED <<log, cacheVars, currentTxnID, free, op, victim, want, mode, active, tail,
                 nextID, crashes, history>>

UndoDone ==
  /\ mode = "undo"
  /\ pos = 0
  /\ mode' = "abort"
  /\ UNCHANGED <<poolVars, pos, active, tail, nextID, crashes, history>>

\* undoPass ends with an abort record for each of the transactions it undid.
AbortRecord(t) ==
  /\ mode = "abort"
  /\ t \in active
  /\ WriteRecord("abort", t)
  /\ active' = active \ {t}
  /\ UNCHANGED <<disk, cacheVars, currentTxnID, free, op, victim, want, mode, pos, tail,
                 nextID, crashes, history>>

\* Mutant: the update records stay in the log.
CheckpointKeepsUpdates ==
  LET IsUpdateRecord(r) == r.type = RecordUpdate
  IN /\ mode = "abort"
     /\ active = {}
     /\ mode' = "open"
     /\ log' = SelectSeq(log, IsUpdateRecord)
     /\ tail' = "none"
     /\ NoTransaction
     /\ safe' = {}
     /\ UNCHANGED <<disk, cacheVars, currentTxnID, free, op, victim, want, pos, active,
                    nextID, crashes>>

\* Checkpoint truncates the log, and the session begins.
Checkpoint ==
  /\ mode = "abort"
  /\ active = {}
  /\ mode' = "open"
  /\ log' = <<>>
  /\ tail' = "none"
  /\ NoTransaction
  /\ safe' = {}
  /\ UNCHANGED <<disk, cacheVars, currentTxnID, free, op, victim, want, pos, active, nextID,
                 crashes>>

\* A write that fails in undoPass ends it; Recover goes on to truncate the log all the
\* same. The pages it has still to undo are lost, and history gives them up. (A write
\* that fails in analysisPass makes Open fail with both files as they are: Crash.)
UndoFails ==
  /\ mode = "undo"
  /\ pos > 0 /\ log[pos].type = RecordUpdate /\ log[pos].txnID \in active
  /\ crashes < MaxCrashes
  /\ crashes' = crashes + 1
  /\ mode' = "abort"
  /\ safe' = {p \in safe : \A i \in 1..pos :
                log[i].page = p /\ log[i].type = RecordUpdate => log[i].txnID \notin active}
  /\ active' = {}
  /\ UNCHANGED <<poolVars, pos, tail, nextID, base, touched, owned, stolen>>

\* An abort record that fails ends undoPass too.
AbortFails ==
  /\ mode = "abort"
  /\ active # {}
  /\ crashes < MaxCrashes
  /\ crashes' = crashes + 1
  /\ active' = {}
  /\ UNCHANGED <<poolVars, mode, pos, tail, nextID, history>>

Recovery ==
  \/ ReadAll
  \/ AnalysisPass
  \/ AnalysisDone
  \/ UndoPass
  \/ UndoDone
  \/ \E t \in TxnIDs : AbortRecord(t)
  \/ Checkpoint

Next ==
  \/ Statement
  \/ Begin
  \/ Commit
  \/ Rollback
  \/ CloseFlush
  \/ Flush
  \/ CloseFiles
  \/ Crash
  \/ Recovery
  \/ UndoFails
  \/ AbortFails

Spec == Init /\ [][Next]_vars
-----------------------------------------------------------------------------
(* What the database promises *)

Recovered == mode = "abort" /\ mode' = "open"
RolledBack == mode = "open" /\ mode' = "open" /\ InTxn /\ Len(log') > Len(log)
                /\ log'[Len(log')].type = "abort"

\* Recovery gives back the state the finished transactions left, for every page
\* that the log knows all about: one whose last change by a finished
\* transaction has reached the file or the log, and that the transaction in
\* flight has not touched, or has been the first to dirty (however often
\* FetchPage then evicted it). Redo, the undo in reverse order, the records of
\* an evicted page and Close without a checkpoint all have to be right for it.
RecoveryRestores ==
  [][Recovered => \A p \in safe : disk'[p] = base[p]]_vars

\* RollbackTxn gives back the state at BEGIN of every page that the transaction
\* was the first to dirty and that stayed in the pool, and leaves the pages it
\* did not touch as they are, whoever dirtied them.
RollbackRestores ==
  [][RolledBack => \A p \in Pages \ stolen :
       p \in owned \/ p \notin touched => View(p)' = base[p]]_vars

\* Only the transaction in flight is unfinished in the log: analysisPass finds
\* no other, though IDs start from 1 again on every Open.
OneUnfinished ==
  LET unfinished == {t \in TxnIDs :
        \E i \in DOMAIN log :
          /\ log[i].type = "begin" /\ log[i].txnID = t
          /\ \A j \in DOMAIN log : j > i => ~(log[j].txnID = t /\ log[j].type # RecordUpdate)}
  IN unfinished = IF InTxn THEN {currentTxnID} ELSE {}

\* In a session the pool is consistent, its before-images are those of the file,
\* the log accounts for the file and names one unfinished transaction at most,
\* also after rollbacks, crashes and recoveries.
SessionTracksDisk ==
  mode = "open" => LruConsistent /\ ImagesTrackDisk /\ LogExplainsDisk /\ OneUnfinished

\* A bound on the steps Recover has still to take: each record is read twice, and
\* one transaction at most gets an abort record.
StepsLeft ==
  LET aborts == IF active = {} THEN 0 ELSE 1
  IN CASE mode = "down"  -> 2 * Len(log) + 5
       [] mode = "redo"  -> (Len(log) + 1 - pos) + Len(log) + 4
       [] mode = "undo"  -> pos + 2 + aborts
       [] mode = "abort" -> 1 + aborts
       [] mode = "open"  -> 0

\* A database that is down, after Close or a crash in a session or in Recover
\* itself, comes up: Recover has a next step, and a step nearer to its end, from
\* every state such a crash can leave. Only a record cut in its header, which
\* ReadAll takes for an error, keeps the database down.
ComesUp ==
  mode # "open" /\ tail # "header" => ENABLED (Recovery /\ StepsLeft' < StepsLeft)

\* docs/wal/README.md: "any change that was committed before a crash will
\* survive it".
CommittedSurvives ==
  [][Recovered => \A p \in Pages \ touched : disk'[p] = base[p]]_vars
=============================================================================
