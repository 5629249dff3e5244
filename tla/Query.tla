---------------------------------- MODULE Query --------------------------------
(***************************************************************************)
(* What a SELECT promises: the abstract specification that the pipeline of *)
(* module Select is compared with.  The rows a SELECT returns are defined  *)
(* on the set of all combinations of one row of each table, without        *)
(* iterators: those that satisfy the conditions, ordered, projected or     *)
(* grouped, and cut.  AND, OR and NOT follow SQL's three-valued logic, a   *)
(* qualified column is the column of that table, and LIKE is defined by    *)
(* the shape of its pattern.                                               *)
(***************************************************************************)
EXTENDS Planner

--------------------------------------------------------------------------------
(* Expressions *)

\* % stands for any text, another rune for itself.
RECURSIVE Matches(_, _)
Matches(s, pattern) ==
  IF pattern = <<>> THEN s = <<>>
  ELSE \/ Head(pattern) = "%" /\ \E n \in 0..Len(s) : Matches(Suffix(s, n), Tail(pattern))
       \/ Head(pattern) # "%" /\ s # <<>> /\ Head(s) = Head(pattern) /\ Matches(Tail(s), Tail(pattern))

Truth(d) == d.t \in {"bool", "nil"}
Logic(op, l, r) ==
  LET decisive == Bool(op = "OR")
  IN CASE ~Truth(l) \/ ~Truth(r) -> Failed
       [] Truth(l) /\ Truth(r) /\ decisive \in {l, r} -> decisive
       [] Truth(l) /\ Truth(r) /\ decisive \notin {l, r} /\ Nil \in {l, r} -> Nil
       [] OTHER -> Bool(op = "AND")

\* The columns of the first n tables, with the table each belongs to.
Sources(stmt, db, n) ==
  FlattenSeq([i \in 1..n |-> [c \in DOMAIN db[Tables(stmt)[i]].columns |->
    [Name |-> db[Tables(stmt)[i]].columns[c].Name, Type |-> db[Tables(stmt)[i]].columns[c].Type,
     Table |-> Tables(stmt)[i]]]])
Resolve(ref, sources) == {i \in DOMAIN sources : /\ sources[i].Name = ref.text
                                                 /\ ref.table \in {<<>>, sources[i].Table}}

RECURSIVE SqlEval(_, _, _)
SqlEval(expr, row, sources) ==
  LET kid(k) == SqlEval(expr.kids[k], row, sources)
      at == Resolve(expr, sources)
  IN CASE expr.node = "Literal" -> LiteralValue(expr.op, expr.text)
       [] expr.node = "ColumnRef" -> IF at = {} THEN Failed ELSE Cell(row[Min(at)], sources[Min(at)].Type)
       [] expr.node = "BinaryExpr" ->
            CASE "error" \in {kid(1).t, kid(2).t} -> Failed
              [] "error" \notin {kid(1).t, kid(2).t} /\ expr.op \in {"AND", "OR"} -> Logic(expr.op, kid(1), kid(2))
              [] expr.op = "LIKE" /\ kid(1).t = "string" /\ kid(2).t = "string" ->
                   Bool(Matches(kid(1).s, kid(2).s))
              [] OTHER -> applyBinaryOp(expr.op, kid(1), kid(2))
       [] expr.node = "UnaryExpr" -> IF expr.op = "NOT" /\ kid(1) = Nil THEN Nil
                                     ELSE applyUnaryOp(expr.op, kid(1))
       [] OTHER -> Failed

--------------------------------------------------------------------------------
(* The rows *)

\* A combination picks a row of each table.
Combinations(stmt, db) ==
  LET sizes == [i \in DOMAIN Tables(stmt) |-> Len(db[Tables(stmt)[i]].rows)]
  IN {f \in [DOMAIN sizes -> 1..Max({sizes[i] : i \in DOMAIN sizes})] : \A i \in DOMAIN f : f[i] <= sizes[i]}
RowOf(stmt, db, f, n) == FlattenSeq([i \in 1..n |-> db[Tables(stmt)[i]].rows[f[i]]])

SqlValue(stmt, db, expr, f) ==
  LET n == Len(Tables(stmt)) IN SqlEval(expr, RowOf(stmt, db, f, n), Sources(stmt, db, n))
On(stmt, db, k, f) == SqlEval(stmt.Joins[k].On, RowOf(stmt, db, f, k + 1), Sources(stmt, db, k + 1))

Kept(stmt, db) ==
  {f \in Combinations(stmt, db) :
     /\ \A k \in DOMAIN stmt.Joins : IsTrue(On(stmt, db, k, f))
     /\ \A w \in ToSet(stmt.Where) : IsTrue(SqlValue(stmt, db, w, f))}

\* Combinations in the order of nested loops, and in that of ORDER BY.
Earlier(f, g) == \E i \in DOMAIN f : f[i] < g[i] /\ \A j \in 1..i - 1 : f[j] = g[j]
ByClauses(orderBy, compared, tied) ==
  LET differ == {i \in DOMAIN compared : compared[i] # 0}
  IN IF differ = {} THEN tied
     ELSE compared[Min(differ)] = (IF orderBy[Min(differ)].Desc THEN 1 ELSE -1)
OrderedBefore(stmt, db, f, g) ==
  LET value(expr, h) == NilIfError(SqlValue(stmt, db, expr, h))
  IN ByClauses(stmt.OrderBy,
               [i \in DOMAIN stmt.OrderBy |-> compareValues(value(stmt.OrderBy[i].Expr, f),
                                                            value(stmt.OrderBy[i].Expr, g))],
               Earlier(f, g))

\* The elements of S, each at the place that the number of those before it gives.
Arranged(S, before(_, _)) ==
  [i \in 1..Cardinality(S) |-> CHOOSE f \in S : Cardinality({g \in S : before(g, f)}) = i - 1]
Mapped(seq, f(_)) == [i \in DOMAIN seq |-> f(seq[i])]

IsAggregate(stmt) == stmt.GroupBy # <<>> \/ hasAggregates(stmt.Columns)

\* A call, on the group S with the values v of its argument.
CallValue(call, S, v) ==
  LET given == {f \in S : v[f].t # "nil"}
      numbers == {f \in given : IsNum(v[f])}
      total == FoldSet(LAMBDA f, sum : Added(sum, toFloat64(v[f])), <<0, 1>>, numbers)
      extreme(sign) == CHOOSE d \in {v[f] : f \in given} :
                         \A g \in given : sign * compareValues(d, v[g]) >= 0
      name == Lower[call.text[1]]
  IN CASE call.op = "*" -> IntValue(Cardinality(S))
       [] call.op # "*" /\ name = "count" -> IntValue(Cardinality(given))
       [] name = "sum" /\ numbers # {} -> FloatValue(total)
       [] name = "avg" /\ numbers # {} -> FloatValue(Frac(total[1], total[2] * Cardinality(numbers)))
       [] name = "min" /\ given # {} -> toValue(extreme(-1))
       [] name = "max" /\ given # {} -> toValue(extreme(1))
       [] OTHER -> NullValue
SqlCall(stmt, db, call, S) ==
  CallValue(call, S, [f \in S |-> SqlValue(stmt, db, call.kids[1], f)])

\* One row for each group, in the order of the groups' first combinations; without GROUP
\* BY all that is kept is one group.  HAVING and the order of groups are not defined.
Classes(S, value(_)) == {{g \in S : value(g) = value(f)} : f \in S}
GroupsOf(stmt, db) ==
  IF stmt.GroupBy = <<>> THEN {Kept(stmt, db)}
  ELSE Classes(Kept(stmt, db), LAMBDA f : [i \in DOMAIN stmt.GroupBy |-> SqlValue(stmt, db, stmt.GroupBy[i], f)])
First(S) == CHOOSE f \in S : \A g \in S : g = f \/ Earlier(f, g)

Cells(stmt, db, f) == [c \in DOMAIN stmt.Columns |-> toValue(SqlValue(stmt, db, stmt.Columns[c], f))]
RowOfGroup(stmt, db, S) ==
  [c \in DOMAIN stmt.Columns |-> IF IsCall(stmt.Columns[c]) THEN SqlCall(stmt, db, stmt.Columns[c], S)
                                 ELSE Cells(stmt, db, First(S))[c]]
RowOfCombination(stmt, db, f) ==
  IF isSelectStar(stmt.Columns) THEN RowOf(stmt, db, f, Len(Tables(stmt))) ELSE Cells(stmt, db, f)

Output(stmt, db) ==
  IF IsAggregate(stmt)
  THEN Mapped(Arranged(GroupsOf(stmt, db), LAMBDA S, T : Earlier(First(S), First(T))),
              LAMBDA S : RowOfGroup(stmt, db, S))
  ELSE Mapped(Arranged(Kept(stmt, db), LAMBDA f, g : OrderedBefore(stmt, db, f, g)),
              LAMBDA f : RowOfCombination(stmt, db, f))

Limited(all, limit) == IF limit = <<>> THEN all ELSE SubSeq(all, 1, Min({Len(all), NumberOf(limit[1])}))
QueryRows(stmt, db) == Limited(Output(stmt, db), stmt.Limit)

ListedExprs(stmt) == IF isSelectStar(stmt.Columns) /\ ~IsAggregate(stmt) THEN {} ELSE ToSet(stmt.Columns)

\* Some expression has no value on some combination of rows.
MayFail(stmt, db) ==
  LET whole == ToSet(stmt.Where) \cup ToSet(stmt.GroupBy)
                 \cup UNION {IF IsCall(e) THEN ToSet(e.kids) ELSE {e} : e \in ListedExprs(stmt)}
  IN \E f \in Combinations(stmt, db) :
       \/ \E k \in DOMAIN stmt.Joins : On(stmt, db, k, f).t = "error"
       \/ \E e \in whole : SqlValue(stmt, db, e, f).t = "error"

--------------------------------------------------------------------------------
(* Where the executor is known to depart from SQL *)

RECURSIVE SubExprs(_)
SubExprs(expr) == {expr} \cup UNION {SubExprs(expr.kids[i]) : i \in DOMAIN expr.kids}
AllExprs(stmt) ==
  UNION {SubExprs(e) : e \in ListedExprs(stmt) \cup ToSet(stmt.Where) \cup ToSet(stmt.GroupBy)
                             \cup {clause.Expr : clause \in ToSet(stmt.OrderBy)}
                             \cup {join.On : join \in ToSet(stmt.Joins)}}

\* A qualifier is ignored: the first column of the name is taken.
Misresolved(stmt, db, ref) ==
  LET at == Resolve(ref, Sources(stmt, db, Len(Tables(stmt))))
  IN ColumnIndex(AllColumns(stmt, db, Len(Tables(stmt))), ref.text) # (IF at = {} THEN 0 ELSE Min(at))

\* AND and OR of a NULL are NULL, and NOT of a NULL is an error.
LogicMeetsNull(stmt, db) ==
  \E e \in AllExprs(stmt), f \in Combinations(stmt, db) :
    e.op \in {"AND", "OR", "NOT"} /\ \E i \in DOMAIN e.kids : SqlValue(stmt, db, e.kids[i], f) = Nil

\* A name that is not in capitals aggregates nothing; HAVING, and ORDER BY with an
\* aggregate, are dropped; an aggregate of no rows has no row.
AggregateDeparts(stmt, db) ==
  \/ \E e \in AllExprs(stmt) : IsCall(e) /\ e.text \notin {<<"COUNT">>, <<"SUM">>, <<"AVG">>, <<"MIN">>, <<"MAX">>}
  \/ stmt.Having # <<>>
  \/ IsAggregate(stmt) /\ stmt.OrderBy # <<>>
  \/ IsAggregate(stmt) /\ stmt.GroupBy = <<>> /\ Kept(stmt, db) = {}

Departs(stmt, db) == \/ \E ref \in UNION {ColumnRefs(e) : e \in AllExprs(stmt)} : Misresolved(stmt, db, ref)
                     \/ LogicMeetsNull(stmt, db)
                     \/ AggregateDeparts(stmt, db)

--------------------------------------------------------------------------------
(* The meaning of a plan: its columns, with their tables, and its rows.  A *)
(* predicate that has no value on a row does not hold on it.               *)

Rel(columns, rows) == [columns |-> columns, rows |-> rows]
Holding(rel, predicate) == SelectSeq(rel.rows, LAMBDA row : IsTrue(SqlEval(predicate, row, rel.columns)))

\* The rows of a table, cut to the columns of a scan.
ScanRel(scan, db) ==
  LET table == db[scan.table]
      at(c) == ColumnIndex(table.columns, scan.columns[c].Name)
  IN Rel([c \in DOMAIN scan.columns |-> [Name |-> scan.columns[c].Name, Type |-> scan.columns[c].Type,
                                         Table |-> scan.table]],
         [i \in DOMAIN table.rows |-> [c \in DOMAIN scan.columns |-> table.rows[i][at(c)]]])

\* The three ways to bound the column of an index.
IndexConditions(scan) ==
  LET column == ColumnRef(scan.table, scan.column)
  IN {BinaryExpr("=", column, e) : e \in ToSet(scan.exact)}
     \cup {BinaryExpr(">=", column, e) : e \in ToSet(scan.low)}
     \cup {BinaryExpr("<=", column, e) : e \in ToSet(scan.high)}

JoinRel(l, r, condition) ==
  LET both == Rel(l.columns \o r.columns,
                  FlattenSeq([i \in DOMAIN l.rows |-> [j \in DOMAIN r.rows |-> l.rows[i] \o r.rows[j]]]))
  IN Rel(both.columns, Holding(both, condition))

ProjectRel(rel, exprs) ==
  IF isSelectStar(exprs) THEN rel
  ELSE Rel([c \in DOMAIN exprs |-> [Name |-> IF exprs[c].node = "ColumnRef" THEN exprs[c].text ELSE <<>>, Table |-> exprs[c].table,
              Type |-> LET at == Resolve(exprs[c], rel.columns)
                       IN IF exprs[c].node = "ColumnRef" /\ at # {} THEN rel.columns[Min(at)].Type ELSE "TEXT"]],
           [i \in DOMAIN rel.rows |-> [c \in DOMAIN exprs |-> toValue(SqlEval(exprs[c], rel.rows[i], rel.columns))]])

\* Grouping and sorting are those of the executor.
AggregateRel(rel, groupBy, aggs) ==
  LET o == [groupBy |-> groupBy, aggExprs |-> aggs, columns |-> rel.columns]
      groups == FoldLeft(LAMBDA g, row : Group(o, g, row), <<>>, rel.rows)
  IN Rel([c \in DOMAIN aggs |-> [Name |-> aggs[c].text, Table |-> <<>>, Type |-> "INT"]],
         [i \in DOMAIN groups |-> GroupRow(o, groups[i])])

RECURSIVE Meaning(_, _)
Meaning(plan, db) ==
  LET child == Meaning(plan.child, db)
  IN CASE plan.node = "Scan" -> ScanRel(plan, db)
       [] plan.node = "IndexScan" ->
            LET scan == ScanRel(plan, db)
            IN Rel(scan.columns, SelectSeq(scan.rows, LAMBDA row :
                 \A e \in IndexConditions(plan) : IsTrue(SqlEval(e, row, scan.columns))))
       [] plan.node = "Filter" -> Rel(child.columns, Holding(child, plan.predicate))
       [] plan.node = "Join" -> JoinRel(Meaning(plan.left, db), Meaning(plan.right, db), plan.condition)
       [] plan.node = "Project" -> ProjectRel(child, plan.exprs)
       [] plan.node = "Aggregate" -> AggregateRel(child, plan.groupBy, plan.aggs)
       [] plan.node = "Sort" -> Rel(child.columns, SliceStable([orderBy |-> plan.orderBy, columns |-> child.columns], child.rows))
       [] plan.node = "Limit" -> Rel(child.columns, SubSeq(child.rows, 1, Min({plan.n, Len(child.rows)})))

\* Every node of a plan.
RECURSIVE PlanNodes(_)
PlanNodes(plan) == {plan} \cup UNION {PlanNodes(c) : c \in Children(plan)}

\* Where a pass is known to change the meaning: a predicate with columns that have no
\* qualifier and columns that have one is moved by the latter; a comparison of literals is
\* folded to a number, which is not a truth value; a remainder is taken of floats, of which
\* there is none; a strict bound becomes one that is not strict.
PassDeparts(n, plan, db) ==
  LET exprs == UNION {UNION {SubExprs(e) : e \in NodeExprs(node)} : node \in PlanNodes(plan)}
      literals(e) == \A c \in SubExprs(e) : c.node \in {"BinaryExpr", "Literal"}
  IN CASE n = 1 -> \E node \in PlanNodes(plan) :
                     /\ node.node = "Filter"
                     /\ collectColumnRefTables(node.predicate) # {}
                     /\ <<>> \in {c.table : c \in ColumnRefs(node.predicate)}
       [] n = 2 -> \E e \in exprs :
                     /\ e.node = "BinaryExpr" /\ literals(e)
                     /\ \/ e.op \in Comparisons \cup {"AND", "OR"}
                        \/ e.op = "%" /\ \E c \in SubExprs(e) : c.op = "float"
       [] n = 3 -> FALSE
       [] n = 4 -> \E node \in PlanNodes(plan) :
                     /\ node.node = "Filter" /\ node.child.node = "Scan"
                     /\ \E p \in IndexPredicate(node.predicate) :
                          p[2] \in {"<", ">"} /\ p[1] \in db[node.child.table].indexes
================================================================================
