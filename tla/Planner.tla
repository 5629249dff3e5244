-------------------------------- MODULE Planner --------------------------------
(***************************************************************************)
(* The query planner: planSelect of planner/planner.go, which turns a      *)
(* SELECT into a tree of logical nodes, and the four passes of             *)
(* planner/optimizer.go that rewrite the tree.  A node is a record with    *)
(* the fields of its struct; a database also lists the indexed columns of  *)
(* each table.  The passes return the new tree where the code rewrites the *)
(* old one in place.                                                       *)
(***************************************************************************)
EXTENDS Select

LogicalScan(table, columns) == [node |-> "Scan", table |-> table, columns |-> columns]
LogicalIndexScan(scan, column, exact, low, high) ==
  [node |-> "IndexScan", table |-> scan.table, columns |-> scan.columns, column |-> column,
   exact |-> exact, low |-> low, high |-> high]
LogicalFilter(child, predicate) == [node |-> "Filter", child |-> child, predicate |-> predicate]
LogicalProject(child, exprs) == [node |-> "Project", child |-> child, exprs |-> exprs]
LogicalJoin(left, right, condition) ==
  [node |-> "Join", left |-> left, right |-> right, condition |-> condition]
LogicalAggregate(child, groupBy, aggs) ==
  [node |-> "Aggregate", child |-> child, groupBy |-> groupBy, aggs |-> aggs]
LogicalSort(child, orderBy) == [node |-> "Sort", child |-> child, orderBy |-> orderBy]
LogicalLimit(child, n) == [node |-> "Limit", child |-> child, n |-> n]

Children(node) == CASE node.node \in {"Scan", "IndexScan"} -> {}
                    [] node.node = "Join" -> {node.left, node.right}
                    [] OTHER -> {node.child}

\* The node with each child rewritten.
Inside(node, rewrite(_)) ==
  CASE node.node \in {"Scan", "IndexScan"} -> node
    [] node.node = "Join" -> [node EXCEPT !.left = rewrite(@), !.right = rewrite(@)]
    [] OTHER -> [node EXCEPT !.child = rewrite(@)]

--------------------------------------------------------------------------------
(* planSelect *)

AggregateNames == {"count", "sum", "min", "max", "avg"}
RECURSIVE hasAggregateFuncCall(_)
hasAggregateFuncCall(expr) ==
  \/ IsCall(expr) /\ \E name \in AggregateNames : [i \in DOMAIN expr.text |-> Lower[expr.text[i]]] = <<name>>
  \/ expr.node \in {"BinaryExpr", "UnaryExpr"} /\ \E i \in DOMAIN expr.kids : hasAggregateFuncCall(expr.kids[i])

\* WHERE goes onto the scan of the FROM table, below the joins.
planSelect(stmt, db) ==
  LET scan(table) == LogicalScan(table, db[table].columns)
      filtered == IF stmt.Where = <<>> THEN scan(stmt.From)
                  ELSE LogicalFilter(scan(stmt.From), stmt.Where[1])
      joined == FoldLeft(LAMBDA left, join : LogicalJoin(left, scan(join.Table), join.On),
                         filtered, stmt.Joins)
      aggregate == LogicalAggregate(joined, stmt.GroupBy, stmt.Columns)
      listed == IF stmt.GroupBy # <<>> \/ \E i \in DOMAIN stmt.Columns : hasAggregateFuncCall(stmt.Columns[i])
                THEN IF stmt.Having = <<>> THEN aggregate
                     ELSE LogicalFilter(aggregate, stmt.Having[1])
                ELSE LogicalProject(joined, stmt.Columns)
      sorted == IF stmt.OrderBy = <<>> THEN listed ELSE LogicalSort(listed, stmt.OrderBy)
  IN IF stmt.Limit = <<>> THEN sorted ELSE LogicalLimit(sorted, NumberOf(stmt.Limit[1]))

--------------------------------------------------------------------------------
(* Pass 1: predicatePushdown *)

RECURSIVE tablesInSubtree(_)
tablesInSubtree(node) == IF Children(node) = {} THEN {node.table}
                         ELSE UNION {tablesInSubtree(c) : c \in Children(node)}

RECURSIVE ColumnRefs(_)
ColumnRefs(expr) == IF expr.node = "ColumnRef" THEN {expr}
                    ELSE UNION {ColumnRefs(expr.kids[i]) : i \in DOMAIN expr.kids}

\* Unqualified references produce no entry.
collectColumnRefTables(expr) == {c.table : c \in ColumnRefs(expr)} \ {<<>>}

\* Plausible slip: one table of the left side is enough.
PushFilterAny(filter) ==
  LET join == filter.child
      tables == collectColumnRefTables(filter.predicate)
  IN IF join.node = "Join" /\ tables \cap tablesInSubtree(join.left) # {}
     THEN [join EXCEPT !.left = LogicalFilter(@, filter.predicate)] ELSE filter

PushFilter(filter) ==
  LET join == filter.child
      tables == collectColumnRefTables(filter.predicate)
  IN CASE join.node # "Join" \/ tables = {} -> filter
       [] join.node = "Join" /\ tables # {} /\ tables \subseteq tablesInSubtree(join.left) ->
            [join EXCEPT !.left = LogicalFilter(@, filter.predicate)]
       [] join.node = "Join" /\ tables # {} /\ ~(tables \subseteq tablesInSubtree(join.left))
            /\ tables \subseteq tablesInSubtree(join.right) ->
            [join EXCEPT !.right = LogicalFilter(@, filter.predicate)]
       [] OTHER -> filter

RECURSIVE predicatePushdown(_)
predicatePushdown(node) ==
  LET below == Inside(node, predicatePushdown)
  IN IF node.node = "Filter" THEN PushFilter(below) ELSE below

--------------------------------------------------------------------------------
(* Pass 2: constantFolding *)

boolLiteral(value) == Literal("integer", IF value THEN <<"1">> ELSE <<"0">>)
numericLiteral(f, isInteger) ==
  IF isInteger THEN Literal("integer", Sprint(Int64(Quotient(f[1], f[2]))))
  ELSE Literal("float", Sprint(Float64(f)))

\* Operands are compared and combined as floats.  The remainder is taken of their whole
\* parts (the right one is not zero here; the code does not check for one below 1).
evalConstantBinary(left, op, right) ==
  LET f == ParseFloat(left.text)
      g == ParseFloat(right.text)
      kinds == {left.op, right.op}
      ints == kinds = {"integer"}
      same == BinaryExpr(op, left, right)
      numeric(d) == numericLiteral(toFloat64(d), ints)
      whole(h) == Quotient(h[1], h[2])
  IN CASE "null" \in kinds -> Literal("null", <<"null">>)
       [] ints /\ op = "AND" -> boolLiteral(left.text # <<"0">> /\ right.text # <<"0">>)
       [] ints /\ op = "OR" -> boolLiteral(left.text # <<"0">> \/ right.text # <<"0">>)
       [] kinds \subseteq {"integer", "float"} /\ op \in Comparisons ->
            boolLiteral(Holds(op, CompareNumbers(f, g)))
       [] kinds \subseteq {"integer", "float"} /\ op \in {"+", "-", "*", "/"} /\ (op = "/" => g[1] # 0) ->
            numeric(applyArith(op, Float64(f), Float64(g)))
       [] kinds \subseteq {"integer", "float"} /\ op = "%" /\ g[1] # 0 ->
            numeric(Int64(Remainder(whole(f), whole(g))))
       [] kinds = {"string"} /\ op \in {"=", "!="} -> boolLiteral((left.text = right.text) = (op = "="))
       [] OTHER -> same

\* Only binary expressions are entered, from the root down.
RECURSIVE foldExpr(_)
foldExpr(expr) ==
  LET left == foldExpr(expr.kids[1])
      right == foldExpr(expr.kids[2])
  IN CASE expr.node # "BinaryExpr" -> expr
       [] expr.node = "BinaryExpr" /\ left.node = "Literal" /\ right.node = "Literal" ->
            evalConstantBinary(left, expr.op, right)
       [] OTHER -> BinaryExpr(expr.op, left, right)
FoldAll(exprs) == [i \in DOMAIN exprs |-> foldExpr(exprs[i])]

\* The SELECT list of an aggregate is left alone.
RECURSIVE constantFolding(_)
constantFolding(node) ==
  LET below == Inside(node, constantFolding)
  IN CASE node.node = "Filter" -> [below EXCEPT !.predicate = foldExpr(@)]
       [] node.node = "Project" -> [below EXCEPT !.exprs = FoldAll(@)]
       [] node.node = "Join" -> [below EXCEPT !.condition = foldExpr(@)]
       [] node.node = "Aggregate" -> [below EXCEPT !.groupBy = FoldAll(@)]
       [] node.node = "Sort" -> [below EXCEPT !.orderBy =
            [i \in DOMAIN @ |-> [@[i] EXCEPT !.Expr = foldExpr(@)]]]
       [] OTHER -> below

--------------------------------------------------------------------------------
(* Pass 3: columnPruning *)

\* The expressions a node holds itself.
NodeExprs(node) == CASE node.node = "Filter" -> {node.predicate}
                 [] node.node = "Project" -> ToSet(node.exprs)
                 [] node.node = "Join" -> {node.condition}
                 [] node.node = "Aggregate" -> ToSet(node.groupBy) \cup ToSet(node.aggs)
                 [] node.node = "Sort" -> {clause.Expr : clause \in ToSet(node.orderBy)}
                 [] OTHER -> {}

RECURSIVE gatherReferencedColumns(_)
gatherReferencedColumns(node) ==
  {c.text : c \in UNION {ColumnRefs(e) : e \in NodeExprs(node)}}
  \cup UNION {gatherReferencedColumns(c) : c \in Children(node)}

RECURSIVE HasStarExpr(_), SeesStar(_)
HasStarExpr(expr) == expr.node = "StarExpr" \/ \E i \in DOMAIN expr.kids : HasStarExpr(expr.kids[i])
SeesStar(node) == \/ \E e \in NodeExprs(node) : HasStarExpr(e)
                  \/ \E c \in Children(node) : SeesStar(c)

\* At least one column stays: the primary key, or else the first.
KeptColumns(columns, referenced) ==
  LET kept == SelectSeq(columns, LAMBDA c : c.PrimaryKey \/ c.Name \in referenced)
  IN IF kept = <<>> /\ columns # <<>> THEN <<columns[1]>> ELSE kept

RECURSIVE pruneScans(_, _)
pruneScans(node, referenced) ==
  IF node.node = "Scan" THEN [node EXCEPT !.columns = KeptColumns(@, referenced)]
  ELSE Inside(node, LAMBDA child : pruneScans(child, referenced))

columnPruning(node) ==
  IF SeesStar(node) THEN node ELSE pruneScans(node, gatherReferencedColumns(node))

--------------------------------------------------------------------------------
(* Pass 4: indexSelection *)

Flipped(op) == CASE op = "<" -> ">" [] op = ">" -> "<" [] op = "<=" -> ">=" [] op = ">=" -> "<="
                 [] OTHER -> op

\* A comparison of a column with a literal: the column, the operator with the column on
\* its left, the literal.  There is at most one.
IndexPredicate(expr) ==
  LET is(i, node) == expr.kids[i].node = node
  IN CASE expr.node = "BinaryExpr" /\ is(1, "ColumnRef") /\ is(2, "Literal") ->
            {<<expr.kids[1].text, expr.op, expr.kids[2]>>}
       [] expr.node = "BinaryExpr" /\ is(2, "ColumnRef") /\ is(1, "Literal") ->
            {<<expr.kids[2].text, Flipped(expr.op), expr.kids[1]>>}
       [] OTHER -> {}

\* A strict bound becomes the same bound as one that is not strict.
extractIndexPredicate(expr) ==
  {[column |-> p[1], exact |-> IF p[2] = "=" THEN <<p[3]>> ELSE <<>>,
    low |-> IF p[2] \in {">", ">="} THEN <<p[3]>> ELSE <<>>,
    high |-> IF p[2] \in {"<", "<="} THEN <<p[3]>> ELSE <<>>] :
     p \in {q \in IndexPredicate(expr) : q[2] \in Comparisons \ {"!="}}}

UseIndex(filter, db) ==
  LET scan == filter.child
      usable == {b \in extractIndexPredicate(filter.predicate) : b.column \in db[scan.table].indexes}
      bounds == CHOOSE b \in usable : TRUE
  IN IF scan.node # "Scan" \/ usable = {} THEN filter
     ELSE LogicalIndexScan(scan, bounds.column, bounds.exact, bounds.low, bounds.high)

RECURSIVE indexSelection(_, _)
indexSelection(node, db) ==
  LET below == Inside(node, LAMBDA child : indexSelection(child, db))
  IN IF node.node = "Filter" THEN UseIndex(below, db) ELSE below

\* The passes of Optimize, in order.
Pass(n, node, db) == CASE n = 1 -> predicatePushdown(node)
                       [] n = 2 -> constantFolding(node)
                       [] n = 3 -> columnPruning(node)
                       [] n = 4 -> indexSelection(node, db)
================================================================================
