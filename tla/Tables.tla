------------------------------- MODULE Tables -------------------------------
(***************************************************************************)
(* The statements that change rows: INSERT (executor/insert.go), UPDATE    *)
(* (executor/update.go) and DELETE (executor/delete.go), with the foreign  *)
(* keys of executor/fk.go and the upkeep of the indexes.                   *)
(*                                                                         *)
(* Statements run one at a time, outside a transaction, so that            *)
(* acquireExclusive is a no-op. A statement is a chain of calls on B+      *)
(* trees, each of which may fail and end the statement with what was       *)
(* already written left in place. The trees are the maps that OrderedMap   *)
(* describes. A WHERE clause is the set of primary keys it selects. Every  *)
(* table has a primary key: without one each statement fails before it     *)
(* writes. encodeRow and decodeRow are inverse to each other and are left  *)
(* out; what encodeKeyValue refuses is kept.                               *)
(*                                                                         *)
(* ListTables ranges over a Go map, so every call may visit the tables in  *)
(* another order: an operation with a foreign key in it has a set of       *)
(* outcomes.                                                               *)
(***************************************************************************)
EXTENDS Integers, FiniteSets, SequencesExt

CONSTANTS
  Tables,
  Columns,
  Vals,       \* what a column holds: integers
  Null,
  BadRow,     \* a VALUES list that buildInsertRow refuses
  Schemas,    \* the schemas to start from: functions from Tables to TableDefs
  MaxRows,    \* bound on the VALUES lists of one INSERT
  Indexable,  \* the columns CREATE INDEX may name, beside the indexes of the schema
  Capacity,   \* bound on the rows of each table that INSERTs add up to
  MaxDepth    \* bound on nested cascades; beyond it the stack is exhausted

ASSUME TablesAssumption ==
  /\ Vals \subseteq Int
  /\ Null \notin Vals
  /\ MaxRows \in Nat \ {0}
  /\ Indexable \subseteq Columns
  /\ Capacity \in [Tables -> Nat \ {0}]
  /\ MaxDepth \in Nat \ {0}

FKActions == {"RESTRICT", "CASCADE", "SET NULL"}

ForeignKeyDef ==
  [col : Columns, ref : Tables, refCol : Columns, onDelete : FKActions, onUpdate : FKActions]

(* A TableDef with the columns of its indexes. *)
IsTableDef(def) ==
  /\ def.cols \subseteq Columns
  /\ def.pk \in def.cols
  /\ def.notNull \subseteq def.cols
  /\ \A fk \in ToSet(def.fks) : fk \in ForeignKeyDef /\ fk.col \in def.cols
  /\ ToSet(def.indexes) \subseteq def.cols

ASSUME SchemaAssumption == \A s \in Schemas : \A t \in Tables : IsTableDef(s[t])

VARIABLES
  schema,
  trees,     \* a table's data tree is trees[<<t>>], an index trees[<<t, c>>]
  result,    \* the last statement and how it ended
  failed,    \* history: a statement has ended in an error
  late       \* history: the indexes <<t, c>> created when t had rows already

vars == <<schema, trees, result, failed, late>>

Row(t) == [schema[t].cols -> Vals \cup {Null}]
TreeIDs == {<<t>> : t \in Tables} \cup {<<t, c>> : t \in Tables, c \in Columns}

(***************************************************************************)
(* A call works on a state S of the trees and of the error so far, and     *)
(* changes nothing once there is one.                                      *)
(***************************************************************************)
Fail(S, e) == IF S.err = "none" THEN [S EXCEPT !.err = e] ELSE S

Check(S, ok, e) == IF ok THEN S ELSE Fail(S, e)

encodeKeyValue(S, v) == Check(S, v # Null, "null key")

TreeInsert(S, id, k, v) ==
  IF S.err = "none" /\ k \notin DOMAIN S.trees[id]
  THEN [S EXCEPT !.trees[id] = [x \in DOMAIN @ \cup {k} |-> IF x = k THEN v ELSE @[x]]]
  ELSE Fail(S, "duplicate")

TreeDelete(S, id, k) ==
  IF S.err = "none" /\ k \in DOMAIN S.trees[id]
  THEN [S EXCEPT !.trees[id] = [x \in DOMAIN @ \ {k} |-> @[x]]]
  ELSE Fail(S, "not found")

(* What a TableScan of t returns for the keys in K: the rows, in key order. *)
ScanRows(S, t, K) ==
  LET nth(i) == CHOOSE k \in K : Cardinality({j \in K : j < k}) = i - 1
  IN  [i \in 1..Cardinality(K) |-> S.trees[<<t>>][nth(i)]]

findRowsMatchingValue(S, t, c, v) ==
  ScanRows(S, t, {k \in DOMAIN S.trees[<<t>>] : v # Null /\ S.trees[<<t>>][k][c] = v})

(* Mutant: returns after the first foreign key. *)
verifyFKParentsFirst(S, t, row) ==
  Check(S, schema[t].fks # << >> =>
             LET fk == Head(schema[t].fks)
             IN  \/ row[fk.col] = Null
                 \/ findRowsMatchingValue(S, fk.ref, fk.refCol, row[fk.col]) # << >>,
        "no parent")

verifyFKParents(S, t, row) ==
  Check(S, \A fk \in ToSet(schema[t].fks) :
             \/ row[fk.col] = Null
             \/ findRowsMatchingValue(S, fk.ref, fk.refCol, row[fk.col]) # << >>,
        "no parent")

NotNullHolds(t, row) == \A c \in schema[t].notNull : row[c] # Null

(* Every order in which ListTables may present the foreign keys that refer *)
(* to t, each with its table.                                              *)
References(t) ==
  LET of(u) == [i \in DOMAIN schema[u].fks |-> [table |-> u, fk |-> schema[u].fks[i]]]
      orders == {o \in [1..Cardinality(Tables) -> Tables] : IsInjective(o)}
  IN  {SelectSeq(FlattenSeq([i \in DOMAIN o |-> of(o[i])]), LAMBDA r : r.fk.ref = t) :
         o \in orders}

(* Runs Op(s, x) for each x of seq in turn, from every outcome so far. *)
Each(seq, S, Op(_, _)) ==
  FoldLeft(LAMBDA Ss, x : UNION {IF s.err = "none" THEN Op(s, x) ELSE {s} : s \in Ss}, {S}, seq)
(* The indexes of t, one entry in each, after the data tree has changed. *)
IndexInsert(S, t, row) ==
  FoldLeft(LAMBDA s, c : TreeInsert(encodeKeyValue(s, row[c]), <<t, c>>, row[c], row[schema[t].pk]),
           S, schema[t].indexes)

IndexDelete(S, t, row) ==
  FoldLeft(LAMBDA s, c : TreeDelete(encodeKeyValue(s, row[c]), <<t, c>>, row[c]),
           S, schema[t].indexes)

(* Both keys are encoded before the old entry is deleted. *)
IndexUpdate(S, t, old, new) ==
  FoldLeft(LAMBDA s, c :
             TreeInsert(TreeDelete(encodeKeyValue(encodeKeyValue(s, old[c]), new[c]),
                                   <<t, c>>, old[c]),
                        <<t, c>>, new[c], new[schema[t].pk]),
           S, schema[t].indexes)

InsertRow(S, t, row) ==
  IF row = BadRow
  THEN Fail(S, "bad row")
  ELSE LET pk == row[schema[t].pk]
           checked == verifyFKParents(Check(S, NotNullHolds(t, row), "not null"), t, row)
       IN  IndexInsert(TreeInsert(encodeKeyValue(checked, pk), <<t>>, pk, row), t, row)

(* Mutant: the index keeps the old value. *)
RewriteColumnUnindexed(S, t, c, v, old) ==
  LET k == old[schema[t].pk]
  IN  TreeInsert(TreeDelete(encodeKeyValue(S, k), <<t>>, k), <<t>>, k, [old EXCEPT ![c] = v])

(* One row of updateColumnInRows. The row stays under the key it had. *)
RewriteColumn(S, t, c, v, old) ==
  LET k == old[schema[t].pk]
      rewritten == TreeInsert(TreeDelete(encodeKeyValue(S, k), <<t>>, k),
                              <<t>>, k, [old EXCEPT ![c] = v])
      unindexed == TreeDelete(encodeKeyValue(rewritten, old[c]), <<t, c>>, old[c])
  IN  IF c \notin ToSet(schema[t].indexes) THEN rewritten
      ELSE IF v = Null THEN unindexed
      ELSE TreeInsert(unindexed, <<t, c>>, v, k)

updateColumnInRows(S, t, c, v, rows) ==
  FoldLeft(LAMBDA s, row : RewriteColumn(s, t, c, v, row),
           Check(S, v # Null \/ c \notin schema[t].notNull, "not null"), rows)

(* Mutant: CASCADE on a change of key forgets the reference. *)
OnUpdateNulls(S, r, old, new) ==
  LET rows == findRowsMatchingValue(S, r.table, r.fk.col, old)
  IN  IF rows = << >> THEN S
      ELSE IF r.fk.onUpdate = "RESTRICT" THEN Fail(S, "restrict")
      ELSE updateColumnInRows(S, r.table, r.fk.col, Null, rows)

(* One foreign key of applyOnUpdate. *)
OnUpdate(S, r, old, new) ==
  LET rows == findRowsMatchingValue(S, r.table, r.fk.col, old)
  IN  IF rows = << >> THEN S
      ELSE CASE r.fk.onUpdate = "RESTRICT" -> Fail(S, "restrict")
             [] r.fk.onUpdate = "CASCADE"  -> updateColumnInRows(S, r.table, r.fk.col, new, rows)
             [] r.fk.onUpdate = "SET NULL" -> updateColumnInRows(S, r.table, r.fk.col, Null, rows)

applyOnUpdate(S, t, old, new) ==
  UNION {Each(o, S, LAMBDA s, r : {OnUpdate(s, r, old, new)}) : o \in References(t)}

UpdateRow(S, t, old, new) ==
  LET pk == schema[t].pk
      checked == verifyFKParents(
                   encodeKeyValue(encodeKeyValue(Check(S, NotNullHolds(t, new), "not null"),
                                                 old[pk]), new[pk]), t, new)
      cascaded == IF checked.err # "none" \/ old[pk] = new[pk] THEN {checked}
                  ELSE applyOnUpdate(checked, t, old[pk], new[pk])
  IN  {IndexUpdate(TreeInsert(TreeDelete(s, <<t>>, old[pk]), <<t>>, new[pk], new), t, old, new) :
         s \in cascaded}

(* depth counts the calls of deleteRowsFromTable on the stack. *)
RECURSIVE deleteRowsFromTable(_, _, _, _)

(* Mutant: SET NULL deletes the rows, as CASCADE does. *)
OnDeleteFallsThrough(S, r, k, depth) ==
  LET rows == findRowsMatchingValue(S, r.table, r.fk.col, k)
  IN  IF rows = << >> THEN {S}
      ELSE IF r.fk.onDelete = "RESTRICT" THEN {Fail(S, "restrict")}
      ELSE deleteRowsFromTable(S, r.table, rows, depth + 1)

(* One foreign key of applyOnDelete. *)
OnDelete(S, r, k, depth) ==
  LET rows == findRowsMatchingValue(S, r.table, r.fk.col, k)
  IN  IF rows = << >> THEN {S}
      ELSE CASE r.fk.onDelete = "RESTRICT" -> {Fail(S, "restrict")}
             [] r.fk.onDelete = "CASCADE"  -> deleteRowsFromTable(S, r.table, rows, depth + 1)
             [] r.fk.onDelete = "SET NULL" ->
                  {updateColumnInRows(S, r.table, r.fk.col, Null, rows)}

applyOnDelete(S, t, k, depth) ==
  UNION {Each(o, S, LAMBDA s, r : OnDelete(s, r, k, depth)) : o \in References(t)}

DeleteRow(S, t, row, depth) ==
  LET k == row[schema[t].pk]
  IN  {IndexDelete(TreeDelete(encodeKeyValue(s, k), <<t>>, k), t, row) :
         s \in applyOnDelete(S, t, k, depth)}

deleteRowsFromTable(S, t, rows, depth) ==
  IF depth > MaxDepth THEN {Fail(S, "stack overflow")}
  ELSE Each(rows, S, LAMBDA s, row : DeleteRow(s, t, row, depth))

(***************************************************************************)
(* The statements                                                          *)
(***************************************************************************)
Running == [trees |-> trees, err |-> "none"]

Ends(outcomes, call) ==
  /\ result.err # "stack overflow"      \* the process is gone
  /\ \E s \in outcomes :
       /\ trees' = s.trees
       /\ result' = [call |-> call, err |-> s.err]
       /\ failed' = (failed \/ s.err # "none")
  /\ UNCHANGED <<schema, late>>

executeInsert(t, rows) ==
  Ends(Each(rows, Running, LAMBDA s, row : {InsertRow(s, t, row)}), <<"insert", t, rows>>)

executeUpdate(t, K, c, v) ==
  Ends(Each(ScanRows(Running, t, K), Running,
            LAMBDA s, row : UpdateRow(s, t, row, [row EXCEPT ![c] = v])),
       <<"update", t, K, c, v>>)

executeDelete(t, K) ==
  Ends(deleteRowsFromTable(Running, t, ScanRows(Running, t, K), 1), <<"delete", t, K>>)

(* CREATE INDEX: an empty tree, and the statements from now on keep it up. *)
(* The rows that are there already are not entered.                        *)
CreateIndex(t, c) ==
  /\ c \in (Indexable \cap schema[t].cols) \ ToSet(schema[t].indexes)
  /\ schema' = [schema EXCEPT ![t].indexes = Append(@, c)]
  /\ late' = IF DOMAIN trees[<<t>>] = {} THEN late ELSE late \cup {<<t, c>>}
  /\ result' = [call |-> <<"index", t, c>>, err |-> "none"]
  /\ UNCHANGED <<trees, failed>>

Init ==
  /\ schema \in Schemas
  /\ trees = [id \in TreeIDs |-> << >>]
  /\ result = [call |-> << >>, err |-> "none"]
  /\ failed = FALSE
  /\ late = {}

Next ==
  \E t \in Tables :
    \/ \E n \in 1..MaxRows :
         /\ Cardinality(DOMAIN trees[<<t>>]) + n <= Capacity[t]
         /\ \E rows \in [1..n -> Row(t) \cup {BadRow}] : executeInsert(t, rows)
    \/ \E K \in SUBSET DOMAIN trees[<<t>>] :
         \/ executeDelete(t, K)
         \/ \E c \in schema[t].cols, v \in Vals \cup {Null} : executeUpdate(t, K, c, v)
    \/ \E c \in Indexable : CreateIndex(t, c)

Spec == Init /\ [][Next]_vars

(***************************************************************************)
(* Properties                                                              *)
(***************************************************************************)
Data(t) == trees[<<t>>]

(* Referential integrity, which fk.go enforces: between statements, failed  *)
(* ones included, a foreign key is NULL or the value of some parent row.    *)
(* One failure alone can break it: a cascade that has rewritten a row and   *)
(* then misses its entry in an index younger than the row.                  *)
ReferentialIntegrity ==
  ~(failed /\ late # {}) =>
    \A t \in Tables : \A fk \in ToSet(schema[t].fks) : \A k \in DOMAIN Data(t) :
      \/ Data(t)[k][fk.col] = Null
      \/ \E j \in DOMAIN Data(fk.ref) : Data(fk.ref)[j][fk.refCol] = Data(t)[k][fk.col]

(* A row is stored under its own primary key, which is not NULL: the key    *)
(* by which UPDATE and DELETE will look for it when they have read the row. *)
RowsUnderTheirKeys ==
  \A t \in Tables : \A k \in DOMAIN Data(t) : k \in Vals /\ Data(t)[k][schema[t].pk] = k

(* What statements look rows up by is right: each row is under its own key, *)
(* and as long as no statement has failed an entry of an index leads to a   *)
(* row that has its value, and every value of the column but NULL has its   *)
(* entry. The last part needs the index to be older than the rows: CREATE   *)
(* INDEX enters none, and deleting an older row takes away the entry that a *)
(* younger row with the same value has.                                     *)
LookupsAgree ==
  /\ RowsUnderTheirKeys
  /\ ~failed =>
       \A t \in Tables : \A c \in ToSet(schema[t].indexes) :
         LET index == trees[<<t, c>>]
         IN  /\ \A v \in DOMAIN index :
                  index[v] \in DOMAIN Data(t) /\ Data(t)[index[v]][c] = v
             /\ <<t, c>> \notin late =>
                  \A k \in DOMAIN Data(t) :
                    LET v == Data(t)[k][c]
                    IN  v # Null => v \in DOMAIN index /\ index[v] = k

(* The rows a DELETE of the rows K of t takes with it: the least set that  *)
(* the CASCADE keys close, found in as many rounds as there are tables.    *)
Cascaded(t, K) ==
  LET grow(D) == D \cup {<<u, j>> \in UNION {{u} \X DOMAIN Data(u) : u \in Tables} :
                           \E fk \in ToSet(schema[u].fks) :
                             fk.onDelete = "CASCADE" /\ <<fk.ref, Data(u)[j][fk.col]>> \in D}
  IN  FoldLeft(LAMBDA D, u : grow(D), {t} \X K, SetToSeq(Tables))

(* A DELETE that succeeds removes the rows it selects and those that depend *)
(* on them by CASCADE, sets to NULL the SET NULL references to them, and    *)
(* changes no other row: whatever order ListTables and the recursion took.  *)
DeleteExact ==
  [][ (result'.err = "none" /\ result'.call # << >> /\ result'.call[1] = "delete") =>
        LET D == Cascaded(result'.call[2], result'.call[3])
            nulled(u, row) ==
              [c \in DOMAIN row |->
                 IF \E fk \in ToSet(schema[u].fks) :
                      fk.col = c /\ fk.onDelete = "SET NULL" /\ <<fk.ref, row[c]>> \in D
                 THEN Null ELSE row[c]]
        IN  \A u \in Tables :
              trees'[<<u>>] = [j \in {i \in DOMAIN Data(u) : <<u, i>> \notin D} |->
                                 nulled(u, Data(u)[j])] ]_vars

(* An UPDATE that succeeds assigns the column in the rows it selects; when *)
(* that is the primary key, the references to the old key follow it or     *)
(* become NULL; no other row changes.                                      *)
UpdateExact ==
  [][ (result'.err = "none" /\ result'.call # << >> /\ result'.call[1] = "update") =>
        LET t == result'.call[2]
            K == result'.call[3]
            c == result'.call[4]
            v == result'.call[5]
            moves == c = schema[t].pk
            follow(u, row) ==
              [x \in DOMAIN row |->
                 LET fks == {fk \in ToSet(schema[u].fks) : fk.col = x /\ fk.ref = t}
                 IN  IF moves /\ row[x] \in K \ {v} /\ fks # {}
                     THEN IF \E fk \in fks : fk.onUpdate = "SET NULL" THEN Null ELSE v
                     ELSE row[x]]
            moved(j) == IF moves /\ j \in K THEN v ELSE j
        IN  \A u \in Tables :
              IF u = t
              THEN /\ DOMAIN trees'[<<t>>] = {moved(j) : j \in DOMAIN Data(t)}
                   /\ \A j \in DOMAIN Data(t) :
                        trees'[<<t>>][moved(j)] =
                          IF j \in K THEN [Data(t)[j] EXCEPT ![c] = v] ELSE Data(t)[j]
              ELSE trees'[<<u>>] = [j \in DOMAIN Data(u) |-> follow(u, Data(u)[j])] ]_vars
====
