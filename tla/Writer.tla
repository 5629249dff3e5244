--------------------------------- MODULE Writer --------------------------------
(***************************************************************************)
(* How a statement is written in SQL, with no parenthesis and no space     *)
(* that is not needed: the reference that the lexer and the parser are     *)
(* compared with.                                                          *)
(***************************************************************************)
EXTENDS Expressions, Lexer, Parser

\* How tightly an expression binds, and how tightly its operands have to.
Level(expr) == CASE expr.op = "OR" -> 1  [] expr.op = "AND" -> 2  [] expr.op = "NOT" -> 3
                 [] expr.node = "BinaryExpr" /\ expr.op \in Comparisons \cup {"LIKE"} -> 4
                 [] expr.node = "BinaryExpr" /\ expr.op \in {"+", "-"} -> 5
                 [] expr.node = "BinaryExpr" /\ expr.op \in {"*", "/", "%"} -> 6
                 [] expr.node = "UnaryExpr" /\ expr.op = "-" -> 7
                 [] OTHER -> 8

\* A sequence of tokens, each a sequence of runes.
Word(w) == << <<w>> >>
Commas(items) == FlattenSeq([i \in DOMAIN items |-> IF i = 1 THEN items[i] ELSE Word(",") \o items[i]])
Bracketed(tokens) == Word("(") \o tokens \o Word(")")
Operator(op) == CASE op = "!=" -> << <<"!", "=">> >> [] op = "<=" -> << <<"<", "=">> >>
                  [] op = ">=" -> << <<">", "=">> >> [] OTHER -> Word(op)

RECURSIVE Write(_)
Write(expr) ==
  LET at(k, level) == IF Level(expr.kids[k]) < level THEN Bracketed(Write(expr.kids[k])) ELSE Write(expr.kids[k])
      level == Level(expr)
  IN CASE expr.node = "Literal" /\ expr.op = "string" -> << <<"'">> \o expr.text \o <<"'">> >>
       [] expr.node = "Literal" /\ expr.op # "string" -> <<expr.text>>
       [] expr.node = "ColumnRef" ->
            (IF expr.table = <<>> THEN <<>> ELSE <<expr.table>> \o Word(".")) \o <<expr.text>>
       [] expr.node = "StarExpr" -> Word("*")
       [] expr.node = "BinaryExpr" ->
            at(1, IF level = 4 THEN 5 ELSE level) \o Operator(expr.op) \o at(2, level + 1)
       [] expr.node = "UnaryExpr" -> Word(expr.op) \o at(1, level + 1)
       [] expr.node = "FuncCall" ->
            <<expr.text>> \o Bracketed(IF expr.op = "*" THEN Word("*")
                                       ELSE Commas([i \in DOMAIN expr.kids |-> Write(expr.kids[i])]))

WriteAll(exprs) == Commas([i \in DOMAIN exprs |-> Write(exprs[i])])
Part(words, exprs) == IF exprs = <<>> THEN <<>> ELSE words \o WriteAll(exprs)

WriteSelect(s) ==
  Part(Word("SELECT"), s.Columns) \o Word("FROM") \o <<s.From>>
  \o FlattenSeq([i \in DOMAIN s.Joins |->
       Word("INNER") \o Word("JOIN") \o <<s.Joins[i].Table>>
       \o (IF s.Joins[i].Alias = <<>> THEN <<>> ELSE <<s.Joins[i].Alias>>)
       \o Word("ON") \o Write(s.Joins[i].On)])
  \o Part(Word("WHERE"), s.Where) \o Part(Word("GROUP") \o Word("BY"), s.GroupBy)
  \o Part(Word("HAVING"), s.Having)
  \o (IF s.OrderBy = <<>> THEN <<>>
      ELSE Word("ORDER") \o Word("BY") \o Commas([i \in DOMAIN s.OrderBy |->
             Write(s.OrderBy[i].Expr) \o (IF s.OrderBy[i].Desc THEN Word("DESC") ELSE <<>>)]))
  \o (IF s.Limit = <<>> THEN <<>> ELSE Word("LIMIT") \o <<s.Limit[1]>>)

Named(names) == Commas([i \in DOMAIN names |-> <<names[i]>>])
WriteColumn(c) == <<c.Name, c.TypeName>> \o (IF c.PrimaryKey THEN Word("PRIMARY") \o Word("KEY") ELSE <<>>)
                  \o (IF c.NotNull THEN Word("NOT") \o Word("NULL") ELSE <<>>) \o Part(Word("DEFAULT"), c.Default)
WriteAction(event, action) ==
  IF action = <<>> THEN <<>> ELSE Word("ON") \o Word(event) \o [i \in DOMAIN action |-> <<action[i]>>]
WriteKey(k) == Word("FOREIGN") \o Word("KEY") \o Bracketed(<<k.Column>>) \o Word("REFERENCES")
               \o <<k.RefTable>> \o Bracketed(<<k.RefColumn>>)
               \o WriteAction("DELETE", k.OnDelete) \o WriteAction("UPDATE", k.OnUpdate)

\* Foreign keys are written before the columns, which the parser allows.
WriteStmt(s) ==
  CASE s.stmt = "select" -> WriteSelect(s)
    [] s.stmt = "insert" ->
         Word("INSERT") \o Word("INTO") \o <<s.Table>>
         \o (IF s.Columns = <<>> THEN <<>> ELSE Bracketed(Named(s.Columns)))
         \o Word("VALUES") \o Commas([i \in DOMAIN s.Values |-> Bracketed(WriteAll(s.Values[i]))])
    [] s.stmt = "update" ->
         Word("UPDATE") \o <<s.Table>> \o Word("SET")
         \o Commas([i \in DOMAIN s.Set |-> <<s.Set[i].Column>> \o Word("=") \o Write(s.Set[i].Value)])
         \o Part(Word("WHERE"), s.Where)
    [] s.stmt = "delete" -> Word("DELETE") \o Word("FROM") \o <<s.Table>> \o Part(Word("WHERE"), s.Where)
    [] s.stmt = "create table" ->
         Word("CREATE") \o Word("TABLE") \o <<s.Table>> \o Bracketed(Commas(
           [i \in DOMAIN s.ForeignKeys |-> WriteKey(s.ForeignKeys[i])]
           \o [i \in DOMAIN s.Columns |-> WriteColumn(s.Columns[i])]))
    [] s.stmt = "create index" ->
         Word("CREATE") \o (IF s.Unique THEN Word("UNIQUE") ELSE <<>>) \o Word("INDEX") \o <<s.Index>>
         \o Word("ON") \o <<s.Table>> \o Bracketed(<<s.Column>>)
    [] s.stmt = "drop table" -> Word("DROP") \o Word("TABLE") \o <<s.Table>>
    [] s.stmt = "drop index" -> Word("DROP") \o Word("INDEX") \o <<s.Index>>
    [] s.stmt = "analyze" -> Word("ANALYZE") \o (IF s.Table = <<>> THEN <<>> ELSE <<s.Table>>)
    [] OTHER -> Word(s.stmt)

\* Two words are kept apart by a space; nothing else is.
Spaced(tokens) ==
  LET wordy == Letters \cup Numerals
  IN FlattenSeq([i \in DOMAIN tokens |->
       IF i > 1 /\ Last(tokens[i - 1]) \in wordy /\ tokens[i][1] \in wordy THEN <<" ">> \o tokens[i]
       ELSE tokens[i]])
TextFor(s) == Spaced(WriteStmt(s))
================================================================================
