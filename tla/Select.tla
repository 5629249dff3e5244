--------------------------------- MODULE Select --------------------------------
(***************************************************************************)
(* SELECT: the physical operators of executor/scan.go, join.go, filter.go, *)
(* aggregate.go and project.go, the pipeline executor/executor.go builds   *)
(* from them, and the columns db.go reports with the rows.                 *)
(*                                                                         *)
(* An operator is a record with the fields of its struct.  Open and NextRow*)
(* (the method Next) return the operator they leave behind with a status:  *)
(* "ok", "row", "EOF" or "error".  Close only shuts iterators that hold    *)
(* nothing, and is left out.  A database maps the name of a table to its   *)
(* columns and to the encoded rows in the order of their keys.             *)
(***************************************************************************)
EXTENDS Encoding

Step(status, op, row) == [status |-> status, op |-> op, row |-> row]

--------------------------------------------------------------------------------
(* Aggregates *)

\* The state an expression of the SELECT list has in a group.
aggState == [count |-> 0, sum |-> <<0, 1>>, minVal |-> Nil, maxVal |-> Nil, hasValue |-> FALSE]

Added(f, g) == Frac(f[1] * g[2] + g[1] * f[2], f[2] * g[2])

\* The first argument counts; the name is compared as it was written.
ArgValue(call, row, columns) ==
  IF call.kids = <<>> THEN Nil ELSE evalExpr(call.kids[1], row, columns)

updateAggState(state, call, value) ==
  LET is(name) == call.text = <<name>>
  IN CASE call.op = "*" \/ is("COUNT") -> [state EXCEPT !.count = @ + 1]
       [] call.op # "*" /\ (is("SUM") \/ is("AVG")) /\ IsNum(value) ->
            [state EXCEPT !.sum = Added(@, toFloat64(value)), !.count = @ + 1]
       [] call.op # "*" /\ is("MIN") /\ (~state.hasValue \/ compareValues(value, state.minVal) < 0) ->
            [state EXCEPT !.minVal = value, !.hasValue = TRUE]
       [] call.op # "*" /\ is("MAX") /\ (~state.hasValue \/ compareValues(value, state.maxVal) > 0) ->
            [state EXCEPT !.maxVal = value, !.hasValue = TRUE]
       [] OTHER -> state

Accumulate(state, call, row, columns) ==
  LET value == ArgValue(call, row, columns)
  IN IF call.op # "*" /\ value.t = "nil" THEN state ELSE updateAggState(state, call, value)

finalizeAgg(name, state) ==
  CASE name = <<"COUNT">> -> IntValue(state.count)
    [] name = <<"SUM">> /\ state.count > 0 -> FloatValue(state.sum)
    [] name = <<"AVG">> /\ state.count > 0 ->
         FloatValue(Frac(state.sum[1], state.sum[2] * state.count))
    [] name = <<"MIN">> /\ state.hasValue -> toValue(state.minVal)
    [] name = <<"MAX">> /\ state.hasValue -> toValue(state.maxVal)
    [] OTHER -> NullValue

IsCall(expr) == expr.node = "FuncCall"

\* The values of GROUP BY, formatted; no GROUP BY makes one group.
groupKey(o, row) == FlattenSeq([i \in DOMAIN o.groupBy |->
                                  Append(Sprint(evalExpr(o.groupBy[i], row, o.columns)), "\\0")])

\* An expression that fails on the row makes Open fail.
RowFails(o, row) ==
  \/ \E i \in DOMAIN o.groupBy : evalExpr(o.groupBy[i], row, o.columns).t = "error"
  \/ \E i \in DOMAIN o.aggExprs :
       /\ IsCall(o.aggExprs[i]) /\ o.aggExprs[i].op # "*"
       /\ ArgValue(o.aggExprs[i], row, o.columns).t = "error"

\* groups is in the order in which the keys first appeared.
Group(o, groups, row) ==
  LET key == groupKey(o, row)
      at == SelectInSeq(groups, LAMBDA g : g.key = key)
      fresh == [key |-> key, firstRow |-> row, states |-> [i \in DOMAIN o.aggExprs |-> aggState]]
      all == IF at = 0 THEN Append(groups, fresh) ELSE groups
      g == IF at = 0 THEN Len(all) ELSE at
  IN [all EXCEPT ![g].states = [i \in DOMAIN o.aggExprs |->
        IF IsCall(o.aggExprs[i]) THEN Accumulate(@[i], o.aggExprs[i], row, o.columns) ELSE @[i]]]

GroupRow(o, group) == [i \in DOMAIN o.aggExprs |->
  IF IsCall(o.aggExprs[i]) THEN finalizeAgg(o.aggExprs[i].text, group.states[i])
  ELSE toValue(evalExpr(o.aggExprs[i], group.firstRow, o.columns))]
GroupFails(o, group) == \E i \in DOMAIN o.aggExprs :
  ~IsCall(o.aggExprs[i]) /\ evalExpr(o.aggExprs[i], group.firstRow, o.columns).t = "error"

--------------------------------------------------------------------------------
(* Sorting *)

\* The error of an ORDER BY expression is dropped: it compares as NULL.
NilIfError(d) == IF d.t = "error" THEN Nil ELSE d
SortValue(expr, row, columns) == NilIfError(evalExpr(expr, row, columns))

\* The first clause that tells the rows apart decides.
Precedes(orderBy, c) == \E i \in DOMAIN c : /\ IF orderBy[i].Desc THEN c[i] > 0 ELSE c[i] < 0
                                            /\ \A j \in 1..i - 1 : c[j] = 0
Less(o, left, right) ==
  Precedes(o.orderBy, [i \in DOMAIN o.orderBy |->
    compareValues(SortValue(o.orderBy[i].Expr, left, o.columns),
                  SortValue(o.orderBy[i].Expr, right, o.columns))])

\* sort.SliceStable: each row in turn goes behind those it is not less than.
Insert(sorted, at, row) == InsertAt(sorted, IF at = 0 THEN Len(sorted) + 1 ELSE at, row)
SliceStable(o, rows) ==
  FoldLeft(LAMBDA sorted, row : Insert(sorted, SelectInSeq(sorted, LAMBDA s : Less(o, row, s)), row),
           <<>>, rows)

--------------------------------------------------------------------------------
(* The operators *)

TableScan(table) == [op |-> "TableScan", data |-> table.data, columns |-> table.columns,
                     iterator |-> 0]
NestedLoopJoin(left, right, condition, columns) ==
  [op |-> "NestedLoopJoin", left |-> left, right |-> right, condition |-> condition,
   columns |-> columns, leftRow |-> <<>>, done |-> FALSE]
Filter(input, predicate, columns) ==
  [op |-> "Filter", input |-> input, predicate |-> predicate, columns |-> columns]
Aggregate(input, groupBy, aggExprs, columns) ==
  [op |-> "Aggregate", input |-> input, groupBy |-> groupBy, aggExprs |-> aggExprs,
   columns |-> columns, rows |-> <<>>, cursor |-> 0]
Sort(input, orderBy, columns) ==
  [op |-> "Sort", input |-> input, orderBy |-> orderBy, columns |-> columns,
   rows |-> <<>>, cursor |-> 0]
Project(input, exprs, columns) ==
  [op |-> "Project", input |-> input, exprs |-> exprs, columns |-> columns]
Limit(input, limit) == [op |-> "Limit", input |-> input, limit |-> limit, count |-> 0]

RECURSIVE Open(_), NextRow(_)

\* The loops of Aggregate.Open and Sort.Open: every row, from the step that opened the input.
RECURSIVE Drain(_, _)
Drain(s, rows) ==
  IF s.status \in {"ok", "row"}
  THEN Drain(NextRow(s.op), IF s.status = "row" THEN Append(rows, s.row) ELSE rows)
  ELSE [status |-> s.status, op |-> s.op, rows |-> rows]

Decoded(o, row) == IF row = {} THEN Step("error", o, <<>>)
                   ELSE Step("row", o, CHOOSE r \in row : TRUE)
ScanNext(o) ==
  IF o.iterator = Len(o.data) THEN Step("EOF", o, <<>>)
  ELSE Decoded([o EXCEPT !.iterator = @ + 1], decodeRow(o.data[o.iterator + 1], o.columns))

JoinOpened(o, first, right) ==
  IF "error" \in {first.status, right.status} THEN Step("error", o, <<>>)
  ELSE Step("ok", [o EXCEPT !.left = first.op, !.right = right.op, !.leftRow = first.row,
                            !.done = @ \/ first.status = "EOF"], <<>>)
FirstRow(s) == IF s.status = "error" THEN s ELSE NextRow(s.op)
JoinOpen(o) == JoinOpened(o, FirstRow(Open(o.left)), Open(o.right))

RECURSIVE JoinNext(_)

\* Plausible slip: the right side is not reopened for the next row of the left one.
JoinLeftOnce(o, l, again) ==
  CASE l.status = "EOF" -> Step("EOF", [o EXCEPT !.left = l.op, !.done = TRUE], <<>>)
    [] l.status = "row" -> JoinNext([o EXCEPT !.left = l.op, !.leftRow = l.row])
    [] OTHER -> Step("error", o, <<>>)

\* The right side has ended: the left one has advanced, and the right one is reopened.
JoinLeft(o, l, again) ==
  CASE l.status = "EOF" -> Step("EOF", [o EXCEPT !.left = l.op, !.done = TRUE], <<>>)
    [] l.status = "row" /\ again.status = "ok" ->
         JoinNext([o EXCEPT !.left = l.op, !.right = again.op, !.leftRow = l.row])
    [] OTHER -> Step("error", o, <<>>)

JoinRow(o, combined, result) ==
  CASE result.t = "error" -> Step("error", o, <<>>)
    [] IsTrue(result) -> Step("row", o, combined)
    [] OTHER -> JoinNext(o)

JoinRight(o, r) ==
  LET read == [o EXCEPT !.right = r.op]
      combined == o.leftRow \o r.row
  IN CASE r.status = "EOF" -> JoinLeft(read, NextRow(o.left), Open(r.op))
       [] r.status = "row" -> JoinRow(read, combined, evalExpr(o.condition, combined, o.columns))
       [] OTHER -> Step("error", o, <<>>)
JoinNext(o) == IF o.done THEN Step("EOF", o, <<>>) ELSE JoinRight(o, NextRow(o.right))

RECURSIVE FilterNext(_)
Filtered(o, s, result) ==
  CASE s.status # "row" -> Step(s.status, o, <<>>)
    [] s.status = "row" /\ result.t = "error" -> Step("error", o, <<>>)
    [] s.status = "row" /\ IsTrue(result) -> Step("row", o, s.row)
    [] OTHER -> FilterNext(o)
FilterNext(o) ==
  LET s == NextRow(o.input)
  IN Filtered([o EXCEPT !.input = s.op], s, evalExpr(o.predicate, s.row, o.columns))

Aggregated(o, all, groups) ==
  IF \/ all.status = "error"
     \/ \E i \in DOMAIN all.rows : RowFails(o, all.rows[i])
     \/ \E i \in DOMAIN groups : GroupFails(o, groups[i])
  THEN Step("error", o, <<>>)
  ELSE Step("ok", [o EXCEPT !.input = all.op,
                            !.rows = [i \in DOMAIN groups |-> GroupRow(o, groups[i])]], <<>>)
AggregateRows(o, all) ==
  Aggregated(o, all, FoldLeft(LAMBDA g, row : Group(o, g, row), <<>>, all.rows))
AggregateOpen(o) == AggregateRows(o, Drain(Open(o.input), <<>>))

Sorted(o, all) ==
  IF all.status = "error" THEN Step("error", o, <<>>)
  ELSE Step("ok", [o EXCEPT !.input = all.op, !.rows = SliceStable(o, all.rows)], <<>>)
SortOpen(o) == Sorted(o, Drain(Open(o.input), <<>>))

\* Aggregate.Next and Sort.Next hand out the rows that Open prepared.
BufferNext(o) == IF o.cursor >= Len(o.rows) THEN Step("EOF", o, <<>>)
                 ELSE Step("row", [o EXCEPT !.cursor = @ + 1], o.rows[o.cursor + 1])

Projected(o, s, output) ==
  CASE s.status # "row" -> Step(s.status, o, <<>>)
    [] s.status = "row" /\ \E i \in DOMAIN output : output[i].t = "error" -> Step("error", o, <<>>)
    [] OTHER -> Step("row", o, [i \in DOMAIN output |-> toValue(output[i])])
ProjectNext(o) ==
  LET s == NextRow(o.input)
  IN Projected([o EXCEPT !.input = s.op], s,
               [i \in DOMAIN o.exprs |-> evalExpr(o.exprs[i], s.row, o.columns)])

LimitNext(o) ==
  LET s == NextRow(o.input)
      read == [o EXCEPT !.input = s.op]
  IN CASE o.count >= o.limit -> Step("EOF", o, <<>>)
       [] o.count < o.limit /\ s.status = "row" ->
            Step("row", [read EXCEPT !.count = @ + 1], s.row)
       [] OTHER -> Step(s.status, read, <<>>)

Open(o) == CASE o.op = "TableScan" -> Step("ok", [o EXCEPT !.iterator = 0], <<>>)
             [] o.op = "NestedLoopJoin" -> JoinOpen(o)
             [] o.op = "Aggregate" -> AggregateOpen(o)
             [] o.op = "Sort" -> SortOpen(o)
             [] OTHER -> LET s == Open(o.input) IN Step(s.status, [o EXCEPT !.input = s.op], <<>>)

NextRow(o) == CASE o.op = "TableScan" -> ScanNext(o)
             [] o.op = "NestedLoopJoin" -> JoinNext(o)
             [] o.op = "Filter" -> FilterNext(o)
             [] o.op \in {"Aggregate", "Sort"} -> BufferNext(o)
             [] o.op = "Project" -> ProjectNext(o)
             [] o.op = "Limit" -> LimitNext(o)

--------------------------------------------------------------------------------
(* The pipeline *)

RECURSIVE containsAggregate(_)
containsAggregate(expr) ==
  \/ IsCall(expr)
  \/ expr.node \in {"BinaryExpr", "UnaryExpr"} /\ \E i \in DOMAIN expr.kids : containsAggregate(expr.kids[i])
hasAggregates(exprs) == \E i \in DOMAIN exprs : containsAggregate(exprs[i])
isSelectStar(exprs) == Len(exprs) = 1 /\ exprs[1].node = "StarExpr"

\* The tables of FROM and JOIN, in the order in which they are joined.
Tables(stmt) == <<stmt.From>> \o [i \in DOMAIN stmt.Joins |-> stmt.Joins[i].Table]
TablesExist(stmt, db) == \A i \in DOMAIN Tables(stmt) : Tables(stmt)[i] \in DOMAIN db
AllColumns(stmt, db, n) == FlattenSeq([i \in 1..n |-> db[Tables(stmt)[i]].columns])

buildSelectPipeline(stmt, db) ==
  LET scan == TableScan(db[stmt.From])
      n == Len(stmt.Joins)
      join(left, i) == NestedLoopJoin(left, TableScan(db[stmt.Joins[i].Table]),
                                      stmt.Joins[i].On, AllColumns(stmt, db, i + 1))
      joined == FoldLeft(join, scan, [i \in 1..n |-> i])
      columns == AllColumns(stmt, db, n + 1)
      filtered == IF stmt.Where = <<>> THEN joined ELSE Filter(joined, stmt.Where[1], columns)
      sorted == IF stmt.OrderBy = <<>> THEN filtered ELSE Sort(filtered, stmt.OrderBy, columns)
      listed == IF stmt.GroupBy # <<>> \/ hasAggregates(stmt.Columns)
                THEN Aggregate(filtered, stmt.GroupBy, stmt.Columns, columns)
                ELSE IF isSelectStar(stmt.Columns) THEN sorted
                ELSE Project(sorted, stmt.Columns, columns)
  IN IF stmt.Limit = <<>> THEN listed ELSE Limit(listed, NumberOf(stmt.Limit[1]))

\* The types db.go reports: by name in the FROM table, INT for a call, TEXT otherwise.
ColumnType(expr, columns) ==
  LET at == ColumnIndex(columns, expr.text)
  IN CASE expr.node = "ColumnRef" /\ at # 0 -> columns[at].Type
       [] expr.node = "FuncCall" -> "INT"
       [] OTHER -> "TEXT"
resolveColumns(stmt, db) ==
  LET columns == db[stmt.From].columns
  IN FlattenSeq([i \in DOMAIN stmt.Columns |->
       IF stmt.Columns[i].node = "StarExpr" THEN [c \in DOMAIN columns |-> columns[c].Type]
       ELSE <<ColumnType(stmt.Columns[i], columns)>>])
================================================================================
