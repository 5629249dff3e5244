------------------------------- MODULE Statement -------------------------------
(***************************************************************************)
(* The life of a SQL text: the lexer, the parser and, behind them, what is *)
(* done with the statement.  DB.Exec (db.go) runs a SELECT through the     *)
(* pipeline of module Select, one Next at a time, turns CREATE TABLE and   *)
(* CREATE INDEX into the definitions that the catalog stores, and builds   *)
(* the rows that INSERT stores; module Catalog has what becomes of the     *)
(* definitions, module Tables what becomes of the rows and the other       *)
(* statements that change them.  A caller of the planner package instead   *)
(* plans a SELECT and has it optimized, or optimizes a plan of its own.    *)
(***************************************************************************)
EXTENDS Query, Writer

CONSTANTS Databases,   \* the tables a statement may meet, in each of some databases
          Requests     \* what may be asked (see Request), as a sequence of sets of one shape

VARIABLES
  stage,     \* how far the statement has come
  request,   \* what was asked, which never changes
  lexed,     \* the tokens read, each with the lexer's position and line behind it
  stmt,      \* the parsed statement
  plan,      \* the logical plan, once there is one
  pipeline,  \* the physical operators, once there are some
  rows,      \* the rows collected by a SELECT, or built by an INSERT
  types,     \* the column types reported with the rows
  stored     \* the definitions and rows encoded, with their bytes

vars == <<stage, request, lexed, stmt, plan, pipeline, rows, types, stored>>
db == Databases[request.db]

None == [stmt |-> "none"]

\* A text, with the statement it was written from if there is one; or a plan, or the
\* definition of a table, that a caller of the package made.
Request(text, written, tables) ==
  [kind |-> "text", text |-> text, written |-> written, plan |-> None, def |-> None, db |-> tables]
PlanRequest(tree, tables) ==
  [kind |-> "plan", text |-> <<>>, written |-> None, plan |-> tree, def |-> None, db |-> tables]
DefRequest(def) ==
  [kind |-> "def", text |-> <<>>, written |-> None, plan |-> None, def |-> def, db |-> 1]

Init ==
  /\ \E i \in DOMAIN Requests : request \in Requests[i]
  /\ stage = CASE request.kind = "text" -> "lex"
               [] request.kind = "plan" -> "optimize 1"
               [] request.kind = "def" -> "define"
  /\ plan = request.plan
  /\ lexed = <<>> /\ stmt = None /\ pipeline = None
  /\ rows = <<>> /\ types = <<>> /\ stored = <<>>

--------------------------------------------------------------------------------
(* The parser *)

Position == IF lexed = <<>> THEN 0 ELSE Last(lexed).position
Line == IF lexed = <<>> THEN 1 ELSE Last(lexed).line
Tokens == [i \in DOMAIN lexed |-> lexed[i].token]

LexToken ==
  LET next == NextToken(request.text, Position, Line)
  IN /\ stage = "lex"
     /\ lexed' = Append(lexed, next)
     /\ stage' = IF next.token.Type = "EOF" THEN "parse" ELSE "lex"
     /\ UNCHANGED <<request, stmt, plan, pipeline, rows, types, stored>>

ParseText ==
  /\ stage = "parse"
  /\ \E parsed \in {Parse(NewParser(Tokens))} :
       \/ parsed.ok /\ stage' = "execute" /\ stmt' = parsed.node
       \/ ~parsed.ok /\ stage' = "failed" /\ stmt' = stmt
  /\ UNCHANGED <<request, lexed, plan, pipeline, rows, types, stored>>

--------------------------------------------------------------------------------
(* SELECT *)

BuildPipeline ==
  /\ stage = "execute" /\ stmt.stmt = "select"
  /\ \/ TablesExist(stmt, db) /\ stage' = "open" /\ pipeline' = buildSelectPipeline(stmt, db)
     \/ ~TablesExist(stmt, db) /\ stage' = "failed" /\ pipeline' = pipeline
  /\ UNCHANGED <<request, lexed, stmt, plan, rows, types, stored>>

OpenPipeline ==
  /\ stage = "open"
  /\ \E opened \in {Open(pipeline)} :
       /\ stage' = IF opened.status = "error" THEN "failed" ELSE "collect"
       /\ pipeline' = opened.op
  /\ UNCHANGED <<request, lexed, stmt, plan, rows, types, stored>>

\* The loop of collectRows; an error discards the rows.
CollectRow ==
  /\ stage = "collect"
  /\ \E next \in {NextRow(pipeline)} :
       /\ pipeline' = next.op
       /\ \/ /\ next.status = "row"
             /\ rows' = Append(rows, next.row)
             /\ UNCHANGED <<stage, types>>
          \/ /\ next.status = "error"
             /\ rows' = <<>> /\ stage' = "failed" /\ types' = types
          \/ /\ next.status = "EOF"
             /\ stage' = "done" /\ rows' = rows
             /\ types' = IF rows = <<>> THEN <<>> ELSE resolveColumns(stmt, db)
  /\ UNCHANGED <<request, lexed, stmt, plan, stored>>

--------------------------------------------------------------------------------
(* The planner *)

PlanSelect ==
  /\ stage = "execute" /\ stmt.stmt = "select"
  /\ \/ TablesExist(stmt, db) /\ stage' = "optimize 1" /\ plan' = planSelect(stmt, db)
     \/ ~TablesExist(stmt, db) /\ stage' = "failed" /\ plan' = plan
  /\ UNCHANGED <<request, lexed, stmt, pipeline, rows, types, stored>>

\* Optimize runs the four passes in order.
Stages == <<"optimize 1", "optimize 2", "optimize 3", "optimize 4", "planned">>
OptimizerPass ==
  \E n \in 1..4 :
    /\ stage = Stages[n]
    /\ plan' = Pass(n, plan, db)
    /\ stage' = Stages[n + 1]
    /\ UNCHANGED <<request, lexed, stmt, pipeline, rows, types, stored>>

--------------------------------------------------------------------------------
(* CREATE TABLE and CREATE INDEX *)

\* The names of types and actions in lower case, which stands for any case.
parseDataType == [n \in {"integer", "int"} |-> "INT"]
              @@ [n \in {"float", "real", "double"} |-> "FLOAT"]
              @@ [n \in {"text", "varchar", "char"} |-> "TEXT"]
TypeName(column) == Lower[column.TypeName[1]]

parseFKAction(action) ==
  LET words == [i \in DOMAIN action |-> Lower[action[i]]]
  IN CASE words = <<"cascade">> -> "CASCADE"
       [] words = <<"set", "null">> -> "SET NULL"
       [] OTHER -> "RESTRICT"

\* DEFAULT is parsed and not carried over.  The page is the one the catalog allocates.
astToTableDef(create, page) ==
  [Name |-> create.Table,
   Columns |-> [i \in DOMAIN create.Columns |->
     LET c == create.Columns[i]
     IN [Name |-> c.Name, Type |-> parseDataType[TypeName(c)], PrimaryKey |-> c.PrimaryKey,
         NotNull |-> c.NotNull, Default |-> <<>>]],
   ForeignKeys |-> [i \in DOMAIN create.ForeignKeys |->
     LET k == create.ForeignKeys[i]
     IN [ColumnName |-> k.Column, RefTable |-> k.RefTable, RefColumn |-> k.RefColumn,
         OnDelete |-> parseFKAction(k.OnDelete), OnUpdate |-> parseFKAction(k.OnUpdate)]],
   RootPageID |-> page]

Stored(kind, value, bytes) == [kind |-> kind, value |-> value, bytes |-> bytes]

Pages == {3, 258}     \* one of a single byte and one of two

DefineTable ==
  /\ stage = "execute" /\ stmt.stmt = "create table"
  /\ \/ /\ \/ stmt.Table \in DOMAIN db
           \/ \E i \in DOMAIN stmt.Columns : TypeName(stmt.Columns[i]) \notin DOMAIN parseDataType
        /\ stage' = "failed" /\ stored' = stored
     \/ /\ stmt.Table \notin DOMAIN db
        /\ \A i \in DOMAIN stmt.Columns : TypeName(stmt.Columns[i]) \in DOMAIN parseDataType
        /\ stage' = "done"
        /\ \E page \in Pages :
             LET def == astToTableDef(stmt, page)
             IN stored' = <<Stored("table", def, encodeTableDef(def))>>
  /\ UNCHANGED <<request, lexed, stmt, plan, pipeline, rows, types>>

\* CreateTable of the catalog is given a definition, which may have defaults.
StoreDefinition ==
  /\ stage = "define"
  /\ stage' = "done"
  /\ stored' = <<Stored("table", request.def, encodeTableDef(request.def))>>
  /\ UNCHANGED <<request, lexed, stmt, plan, pipeline, rows, types>>

DefineIndex ==
  /\ stage = "execute" /\ stmt.stmt = "create index"
  /\ stage' = "done"
  /\ \E page \in Pages :
       LET def == [Name |-> stmt.Index, TableName |-> stmt.Table, ColumnName |-> stmt.Column,
                   Unique |-> stmt.Unique, RootPageID |-> page]
       IN stored' = <<Stored("index", def, encodeIndexDef(def))>>
  /\ UNCHANGED <<request, lexed, stmt, plan, pipeline, rows, types>>

--------------------------------------------------------------------------------
(* INSERT *)

\* The columns that the values are for; 0 is a name that the table does not have.
Targets(columnNames, columns) ==
  IF columnNames = <<>> THEN [i \in DOMAIN columns |-> i]
  ELSE [i \in DOMAIN columnNames |-> ColumnIndex(columns, columnNames[i])]

Buildable(exprs, columnNames, columns) ==
  LET at == Targets(columnNames, columns)
  IN Len(at) = Len(exprs) /\ \A i \in DOMAIN at :
       at[i] # 0 /\ Storable(evalExpr(exprs[i], <<>>, <<>>), columns[at[i]].Type)

\* A later value for the same column wins.
buildInsertRow(exprs, columnNames, columns) ==
  LET at == Targets(columnNames, columns)
      blank == [c \in DOMAIN columns |-> IF columns[c].Default = <<>> THEN NullValue ELSE columns[c].Default[1]]
  IN FoldLeft(LAMBDA row, i : [row EXCEPT ![at[i]] = evalExprToValue(exprs[i], columns[at[i]].Type)],
              blank, [i \in DOMAIN exprs |-> i])

\* The tree over column c takes an entry of the row: it has a key, which none of the others has.
Enters(row, c, columns, others) ==
  LET type == columns[c].Type
  IN /\ HasKey(row[c], type)
     /\ \A r \in others : HasKey(r[c], type) => encodeKeyValue(r[c], type) # encodeKeyValue(row[c], type)
Accepted(row, columns, others) ==
  LET pk == SelectInSeq(columns, LAMBDA c : c.PrimaryKey)
  IN /\ pk # 0
     /\ \A c \in DOMAIN columns : columns[c].NotNull => ~row[c].IsNull
     /\ Enters(row, pk, columns, others)

\* One round of executeInsert's loop for a table without foreign keys.  A key that is there
\* already is refused.  An index, created after the rows of the database and without
\* entries for them, may refuse its entry when the row is in the table.  What was stored
\* before an error stays.
StoreRow(row, table) ==
  /\ rows' = Append(rows, row)
  /\ stored' = Append(stored, Stored("row", row, encodeRow(row, table.columns)))
  /\ stage' = IF \E name \in table.indexes :
                   ~Enters(row, ColumnIndex(table.columns, name), table.columns, ToSet(rows))
              THEN "failed"
              ELSE IF Len(rows') = Len(stmt.Values) THEN "done" ELSE stage
RefuseRow == stage' = "failed" /\ UNCHANGED <<rows, stored>>

InsertRow ==
  LET exprs == stmt.Values[Len(rows) + 1]
      table == db[stmt.Table]
      built == {r \in {buildInsertRow(exprs, stmt.Columns, table.columns)} :
                  Accepted(r, table.columns, ToSet(table.rows) \cup ToSet(rows))}
      buildable == stmt.Table \in DOMAIN db /\ Buildable(exprs, stmt.Columns, table.columns)
  IN /\ stage = "execute" /\ stmt.stmt = "insert" /\ Len(rows) < Len(stmt.Values)
     /\ \E accepted \in {IF buildable THEN built ELSE {}} :
          \/ \E row \in accepted : StoreRow(row, table)
          \/ accepted = {} /\ RefuseRow
     /\ UNCHANGED <<request, lexed, stmt, plan, pipeline, types>>

\* The statements that other modules take from here.
HandOver ==
  /\ stage = "execute"
  /\ stmt.stmt \in {"update", "delete", "drop table", "drop index", "begin", "commit", "rollback", "analyze"}
  /\ stage' = IF stmt.stmt = "analyze" THEN "failed" ELSE "handed over"
  /\ UNCHANGED <<request, lexed, stmt, plan, pipeline, rows, types, stored>>

Next == \/ LexToken \/ ParseText
        \/ BuildPipeline \/ OpenPipeline \/ CollectRow
        \/ PlanSelect \/ OptimizerPass
        \/ DefineTable \/ StoreDefinition \/ DefineIndex \/ InsertRow \/ HandOver

Ended == {"done", "failed", "planned", "handed over"}
Return == stage \in Ended /\ UNCHANGED vars

\* A statement that stops before its end is a deadlock.
Spec == Init /\ [][Next \/ Return]_vars

--------------------------------------------------------------------------------
(* Properties *)

\* The lexer (NextToken and its four readers) cuts a text into the longest tokens there
\* are: it skips nothing but white space, every token it returns is one and could not be
\* longer, an error is reported only where no token starts or where a second point follows
\* a number, and a token has the number of its line (a string that holds a line break is
\* not counted).
LexesLongest ==
  lexed # <<>> =>
    LET text == request.text
        from == IF Len(lexed) = 1 THEN 0 ELSE lexed[Len(lexed) - 1].position
        next == Last(lexed)
        inString == \E i \in DOMAIN lexed : "\n" \in ToSet(lexed[i].token.Literal)
    IN /\ CutsLongest(text, from, next)
       /\ ~inString =>
            next.token.Line = 1 + Cardinality({i \in 1..next.position : text[i] = "\n"})

\* The parser (parseSelect to parsePrimary) reads a statement as the one it was written
\* from: precedence, associativity, NOT, unary minus, optional clauses, in any combination.
ParsesBack == request.written.stmt # "none" /\ stage \notin {"lex", "parse"} => stmt = request.written

\* A truth value that evalExpr computes for a WHERE (applyBinaryOp, likeMatch) is the one
\* of SQL's three-valued logic and of the shape of the LIKE pattern, whatever NULLs the row
\* has; and without a NULL under AND, OR and NOT every other result is the same as well.
WhereIsSound ==
  stage = "open" =>
    LET n == Len(Tables(stmt))
    IN \A where \in ToSet(stmt.Where), f \in Combinations(stmt, db) :
         LET d == evalExpr(where, RowOf(stmt, db, f, n), AllColumns(stmt, db, n))
             meant == SqlValue(stmt, db, where, f)
         IN \/ d = meant
            \/ d.t # "bool" /\ LogicMeetsNull(stmt, db)
            \/ \E ref \in ColumnRefs(where) : Misresolved(stmt, db, ref)

\* A SELECT returns the rows that the query means, in its order (module Query), however
\* its iterators were nested, reopened, buffered and cut; it fails only if an expression
\* has no value on some rows.  With the rows it reports the types of the columns of the
\* FROM table, by which a caller formats them.  Where the executor is known to differ from SQL
\* (Departs) nothing is said.
SelectMeansQuery ==
  stage \in {"done", "failed"} /\ stmt.stmt = "select" /\ TablesExist(stmt, db) /\ ~Departs(stmt, db) =>
    /\ stage = "failed" => MayFail(stmt, db)
    /\ stage = "done" => rows = QueryRows(stmt, db)
    /\ \A c \in DOMAIN stmt.Columns, s \in ToSet(Sources(stmt, db, 1)) :
         stmt.Columns[c].node = "ColumnRef" /\ stmt.Columns[c].text = s.Name /\ rows # <<>> =>
           types[c] = s.Type

\* No pass of Optimize changes the rows that a plan yields, unless it is one of the ways
\* known to (PassDeparts).
PassesKeepMeaning ==
  [][\A n \in 1..4 : stage = Stages[n] /\ stage' = Stages[n + 1] /\ ~PassDeparts(n, plan, db) =>
       Meaning(plan', db).rows = Meaning(plan, db).rows]_vars

\* What the catalog and the executor store is read back as it was: the definitions of
\* tables (with defaults and foreign keys) and indexes, and rows (with NULLs anywhere).
StoredReadsBack ==
  \A s \in ToSet(stored) :
    CASE s.kind = "table" -> decodeTableDef(s.bytes) = s.value
      [] s.kind = "index" -> decodeIndexDef(s.bytes) = s.value
      [] s.kind = "row" -> decodeRow(s.bytes, db[stmt.Table].columns) = {s.value}
================================================================================
