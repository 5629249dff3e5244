------------------------------ MODULE MCStatement ------------------------------
(***************************************************************************)
(* Statements for TLC: small tables, and families of texts and plans over  *)
(* them.                                                                   *)
(***************************************************************************)
EXTENDS Statement

--------------------------------------------------------------------------------
(* Runes *)

\* Words that are one rune, with their lower case.
MCWords == <<
  <<"SELECT", "select">>, <<"FROM", "from">>, <<"WHERE", "where">>, <<"INSERT", "insert">>,
  <<"INTO", "into">>, <<"VALUES", "values">>, <<"UPDATE", "update">>, <<"SET", "set">>,
  <<"DELETE", "delete">>, <<"CREATE", "create">>, <<"TABLE", "table">>, <<"DROP", "drop">>,
  <<"INDEX", "index">>, <<"ON", "on">>, <<"PRIMARY", "primary">>, <<"KEY", "key">>,
  <<"NOT", "not">>, <<"NULL", "null">>, <<"DEFAULT", "default">>, <<"BEGIN", "begin">>,
  <<"COMMIT", "commit">>, <<"ROLLBACK", "rollback">>, <<"AND", "and">>, <<"OR", "or">>,
  <<"LIKE", "like">>, <<"ORDER", "order">>, <<"BY", "by">>, <<"LIMIT", "limit">>,
  <<"JOIN", "join">>, <<"INNER", "inner">>, <<"LEFT", "left">>, <<"GROUP", "group">>,
  <<"HAVING", "having">>, <<"COUNT", "count">>, <<"SUM", "sum">>, <<"MIN", "min">>,
  <<"MAX", "max">>, <<"AVG", "avg">>, <<"REFERENCES", "references">>,
  <<"FOREIGN", "foreign">>, <<"UNIQUE", "unique">>, <<"ANALYZE", "analyze">>,
  <<"DESC", "desc">>, <<"CASCADE", "cascade">>, <<"INT", "int">>, <<"TEXT", "text">>,
  <<"FLOAT", "float">>, <<"MONEY", "money">> >>
MCSmall == <<"_", "a", "b", "c", "f", "false", "id", "k", "n1", "n2", "o", "s", "t", "true", "u", "uid", "w">>
MCLetters == {w[1] : w \in ToSet(MCWords)} \cup {w[2] : w \in ToSet(MCWords)} \cup ToSet(MCSmall)
MCLower == [r \in MCLetters |-> IF \E w \in ToSet(MCWords) : w[1] = r
                                THEN (CHOOSE w \in ToSet(MCWords) : w[1] = r)[2] ELSE r]
MCAlphabet ==
  <<"\t", "\n", "\r", " ", "!", "%", "'", "(", ")", "*", "+", ",", "-", ".", "/", "0", "1", "2",
    "3", "4", "5", "6", "7", "8", "9", ";", "<", "=", ">", "@">>
  \o [i \in DOMAIN MCWords |-> MCWords[i][1]] \o MCSmall \o [i \in DOMAIN MCWords |-> MCWords[i][2]]

--------------------------------------------------------------------------------
(* Tables *)

Column(name, type, pk) ==
  [Name |-> <<name>>, Type |-> type, PrimaryKey |-> pk, NotNull |-> pk, Default |-> <<>>]

\* The order of keys: integers as unsigned numbers, texts by their bytes.
KeyBefore(v, w) == IF v.TextVal # w.TextVal THEN CompareTexts(v.TextVal, w.TextVal) < 0
                   ELSE IF (v.IntVal < 0) # (w.IntVal < 0) THEN v.IntVal >= 0
                   ELSE v.IntVal < w.IntVal
BytesBefore(a, b) ==
  LET differ == {i \in 1..Min({Len(a), Len(b)}) : a[i] # b[i]}
  IN IF differ = {} THEN Len(a) < Len(b) ELSE a[Min(differ)] < b[Min(differ)]

\* A table whose first column is its key, as the B+ tree has it.
LoadTable(columns, indexes, rowSet) ==
  LET key(row) == encodeKeyValue(row[1], columns[1].Type)
      byBytes == Arranged(rowSet, LAMBDA r, s : BytesBefore(key(r), key(s)))
  IN [columns |-> columns, indexes |-> indexes,
      rows |-> Arranged(rowSet, LAMBDA r, s : KeyBefore(r[1], s[1])),
      data |-> [i \in DOMAIN byBytes |-> encodeRow(byBytes[i], columns)]]

I(n) == IntValue(n)
T(s) == TextValue(s)
Null == NullValue
UColumns == <<Column("id", "INT", TRUE), Column("a", "INT", FALSE), Column("t", "TEXT", FALSE)>>
OColumns == <<Column("k", "INT", TRUE), Column("uid", "INT", FALSE), Column("f", "FLOAT", FALSE)>>
Half == FloatValue(<<1, 2>>)

\* A table with ties and NULLs, one that refers to it, and an empty one.
U == LoadTable(UColumns, {<<"a">>}, {<<I(-1), I(1), T(<<"b">>)>>, <<I(1), Null, T(<<"a", "b">>)>>,
                                     <<I(2), I(1), T(<<"a">>)>>, <<I(300), I(0), Null>>})
O == LoadTable(OColumns, {<<"uid">>}, {<<I(1), I(2), Half>>, <<I(2), I(2), Null>>, <<I(3), I(-1), FloatValue(<<2, 1>>)>>})
\* Its column id is shared with the first.
B == LoadTable(<<Column("id", "INT", TRUE), Column("c", "INT", FALSE)>>, {}, {<<I(1), I(2)>>, <<I(2), I(1)>>})
E == LoadTable(UColumns, {}, {})
Ab == {"a", "b"}
Words == {<<>>} \cup UNION {[1..n -> Ab] : n \in 1..3}
S == LoadTable(<<Column("s", "TEXT", TRUE)>>, {}, {<<T(w)>> : w \in Words})
\* Ten columns, so that the NULLs take two bytes.
Wide == LoadTable([i \in 1..10 |-> Column(Digit[i], IF i % 2 = 1 THEN "INT" ELSE "TEXT", i = 1)], {},
  {[i \in 1..10 |-> IF i \in nulls THEN Null ELSE IF i % 2 = 1 THEN I(i) ELSE T(<<"a">>)] :
     nulls \in {{8, 9, 10}}} \cup {[i \in 1..10 |-> IF i = 1 THEN I(-7) ELSE Null]})
Tabled(names, tables) == [n \in {<<names[i]>> : i \in DOMAIN names} |->
                            tables[CHOOSE i \in DOMAIN names : <<names[i]>> = n]]
Db == Tabled(<<"u", "o", "b", "s", "w">>, <<U, O, B, S, Wide>>)
MCDatabases == <<Db, Tabled(<<"u", "o">>, <<E, O>>)>>

--------------------------------------------------------------------------------
(* Expressions *)

C(name) == ColumnRef(<<>>, <<name>>)
Q(table, name) == ColumnRef(<<table>>, <<name>>)
N(digit) == Literal("integer", <<digit>>)
Real == Literal("float", <<"0", ".", "5">>)
Str(s) == Literal("string", s)
NullLit == Literal("null", <<"NULL">>)
Binary(ops, ls, rs) == {BinaryExpr(op, l, r) : op \in ops, l \in ls, r \in rs}

\* Every shape of two levels, for the parser.
Flat == {C("a"), N("2")} \cup Binary({"OR", "AND", "=", "-", "*"}, {C("a")}, {N("2")})
        \cup {UnaryExpr("NOT", C("a")), UnaryExpr("-", C("a"))}
Shapes == Binary({"OR", "AND", "=", "-", "*"}, Flat, Flat)
          \cup {UnaryExpr(op, e) : op \in {"NOT", "-"}, e \in Flat}
          \cup Binary(Comparisons \cup {"LIKE", "+", "-", "/", "%"}, {Q("u", "a")}, {N("4")})

\* Comparisons and logic over values of every type, for the evaluator.
Numbers == {C("a"), C("id"), N("0"), NullLit, Real}
           \cup Binary({"+", "-", "*", "/", "%"}, {C("a"), C("id"), Real}, {N("2"), C("a")})
Operands == {C("a"), C("t"), N("2"), Str(<<"a", "b">>), NullLit}
Truths == {BinaryExpr("=", C("a"), N("1")), BinaryExpr("LIKE", C("t"), Str(<<"a", "%">>)),
           UnaryExpr("NOT", BinaryExpr("<", C("a"), C("id")))}
Conditions == Binary({"<", ">=", "!="}, Numbers, {N("1"), C("a")})
              \cup Binary({"=", "<=", ">", "LIKE"}, Operands, Operands)
              \cup Binary({"AND", "OR"}, Truths, Truths)
              \cup {UnaryExpr("NOT", e) : e \in Binary({"AND", "OR"}, Truths, Truths)}

Patterns == UNION {[1..n -> Ab \cup {"%"}] : n \in 1..4}

--------------------------------------------------------------------------------
(* Statements *)

Sel(columns, from, joins, where, groupBy, orderBy, limit) ==
  [stmt |-> "select", Columns |-> columns, From |-> <<from>>, Joins |-> joins, Where |-> where,
   GroupBy |-> groupBy, Having |-> <<>>, OrderBy |-> orderBy, Limit |-> limit]
Star == <<StarExpr>>
Where(e) == Sel(Star, "u", <<>>, <<e>>, <<>>, <<>>, <<>>)
Join(table, on) == [Table |-> <<table>>, Alias |-> <<>>, On |-> on]
By(e, desc) == [Expr |-> e, Desc |-> desc]
Agg(name, e) == FuncCall(<<name>>, FALSE, <<e>>)
CountAll == FuncCall(<<"COUNT">>, TRUE, <<>>)

OnUid == BinaryExpr("=", Q("u", "id"), Q("o", "uid"))
JoinLists == {<<>>, <<Join("o", OnUid)>>,
              <<Join("o", BinaryExpr("<=", C("a"), C("k"))), Join("b", BinaryExpr("=", C("c"), C("a")))>>}
WhereLists == {<<>>, <<BinaryExpr("=", C("a"), N("1"))>>}
Listings == {Sel(columns, "u", joins, where, <<>>, orderBy, limit) :
  columns \in {Star, <<C("t"), BinaryExpr("+", C("a"), BinaryExpr("*", N("2"), N("4")))>>},
  joins \in JoinLists, where \in WhereLists \cup {<<BinaryExpr("=", Q("b", "id"), N("2"))>>},
  orderBy \in {<<>>, <<By(C("a"), TRUE)>>, <<By(C("a"), FALSE), By(C("t"), TRUE)>>},
  limit \in {<<>>, <<<<"0">>>>, <<<<"3">>>>}}
Groupings == {Sel(columns, "u", joins, where, groupBy, <<>>, limit) :
  columns \in {<<CountAll>>, <<C("a"), Agg("COUNT", C("a")), Agg("SUM", C("id")), Agg("AVG", C("a"))>>,
               <<Agg("MIN", C("t")), Agg("MAX", C("t")), Agg("MIN", C("a")), Agg("SUM", C("t"))>>},
  joins \in {<<>>, <<Join("o", OnUid)>>}, where \in WhereLists,
  groupBy \in {<<>>, <<C("a")>>, <<C("t"), C("a")>>}, limit \in {<<>>, <<<<"1">>>>}}

\* Where the executor departs from SQL, and what it refuses.
Oddities == {
  [Sel(<<C("a"), CountAll>>, "u", <<>>, <<>>, <<C("a")>>, <<>>, <<>>) EXCEPT
     !.Having = <<BinaryExpr(">", CountAll, N("1"))>>],
  Sel(<<FuncCall(<<"count">>, TRUE, <<>>)>>, "u", <<>>, <<>>, <<>>, <<>>, <<>>),
  Sel(<<FuncCall(<<"f">>, FALSE, <<C("a"), C("t")>>)>>, "u", <<>>, <<>>, <<>>, <<>>, <<>>),
  Sel(<<BinaryExpr("+", CountAll, N("1"))>>, "u", <<>>, <<>>, <<>>, <<>>, <<>>),
  Sel(<<Agg("SUM", UnaryExpr("-", C("t")))>>, "u", <<>>, <<>>, <<>>, <<>>, <<>>),
  Sel(<<BinaryExpr("/", N("2"), C("a"))>>, "u", <<>>, <<>>, <<>>, <<By(UnaryExpr("-", C("t")), FALSE)>>, <<>>),
  Sel(<<C("a"), C("n1")>>, "u", <<>>, <<>>, <<>>, <<>>, <<>>),
  Sel(<<C("a"), StarExpr>>, "u", <<>>, <<>>, <<>>, <<>>, <<>>),
  Sel(Star, "u", <<>>, <<>>, <<C("a")>>, <<>>, <<>>),
  Sel(Star, "u", <<Join("o", C("k"))>>, <<>>, <<>>, <<>>, <<>>),
  Sel(Star, "u", <<Join("o", UnaryExpr("NOT", C("k")))>>, <<>>, <<>>, <<>>, <<>>),
  Sel(Star, "u", <<[Table |-> <<"o">>, Alias |-> <<"n1">>, On |-> OnUid]>>, <<>>, <<>>, <<>>, <<>>),
  Sel(Star, "n1", <<>>, <<>>, <<>>, <<>>, <<>>),
  Sel(Star, "w", <<>>, <<>>, <<>>, <<>>, <<>>)}

Def(name, type, pk, notNull, default) ==
  [Name |-> <<name>>, TypeName |-> <<type>>, PrimaryKey |-> pk, NotNull |-> notNull, Default |-> default]
Key1(onDelete, onUpdate) == [Column |-> <<"uid">>, RefTable |-> <<"u">>, RefColumn |-> <<"id">>,
                             OnDelete |-> onDelete, OnUpdate |-> onUpdate]
Creations == {[stmt |-> "create table", Table |-> table, ForeignKeys |-> keys,
               Columns |-> <<Def("k", "INT", TRUE, FALSE, <<>>), Def("t", type, FALSE, TRUE, <<N("1")>>)>>] :
  table \in {<<"n1">>, <<"u">>}, type \in {"TEXT", "float", "MONEY"},
  keys \in {<<>>, <<Key1(<<"CASCADE">>, <<"SET", "NULL">>)>>, <<Key1(<<>>, <<>>), Key1(<<"SET", "NULL">>, <<>>)>>}}

Insertion(table, columns, values) ==
  [stmt |-> "insert", Table |-> <<table>>, Columns |-> columns, Values |-> values]
Insertions == {
  Insertion("u", <<>>, <<<<N("3"), Real, Str(<<"b">>)>>, <<UnaryExpr("-", N("3")), NullLit, NullLit>>>>),
  Insertion("u", <<<<"t">>, <<"id">>>>, <<<<Str(<<>>), N("4")>>, <<N("1"), N("5")>>>>),
  Insertion("u", <<<<"t">>>>, <<<<Str(<<"a">>)>>>>),
  Insertion("u", <<<<"id">>, <<"n1">>>>, <<<<N("4"), N("4")>>>>),
  Insertion("u", <<<<"id">>, <<"id">>>>, <<<<N("4"), N("5")>>, <<N("4")>>>>),
  Insertion("o", <<>>, <<<<N("4"), BinaryExpr("*", N("2"), N("4")), N("2")>>, <<NullLit, N("2"), N("2")>>>>),
  Insertion("w", <<>>, <<[i \in 1..10 |-> IF i \in {1, 10} THEN (IF i = 1 THEN N("2") ELSE Str(<<"b">>)) ELSE NullLit]>>),
  Insertion("o", <<>>, <<<<N("4"), N("1"), Real>>, <<N("5"), N("2"), Real>>, <<N("6"), N("2"), Real>>, <<N("7"), N("8"), Real>>>>),
  Insertion("b", <<>>, <<<<N("3"), N("1")>>, <<N("2"), N("1")>>>>),
  Insertion("n1", <<>>, <<<<N("4")>>>>)}

MCOthers ==
  <<[stmt |-> "update", Table |-> <<"u">>, Where |-> <<BinaryExpr("=", C("a"), N("1"))>>,
     Set |-> <<[Column |-> <<"a">>, Value |-> BinaryExpr("+", C("a"), N("1"))],
               [Column |-> <<"t">>, Value |-> NullLit]>>],
    [stmt |-> "delete", Table |-> <<"u">>, Where |-> <<>>],
    [stmt |-> "create index", Index |-> <<"n1">>, Table |-> <<"u">>, Column |-> <<"a">>, Unique |-> TRUE],
    [stmt |-> "create index", Index |-> <<"n2">>, Table |-> <<"u">>, Column |-> <<"t">>, Unique |-> FALSE],
    [stmt |-> "drop table", Table |-> <<"u">>], [stmt |-> "drop index", Index |-> <<"n1">>],
    [stmt |-> "analyze", Table |-> <<"u">>], [stmt |-> "analyze", Table |-> <<>>],
    [stmt |-> "begin"], [stmt |-> "commit"], [stmt |-> "rollback"]>>

--------------------------------------------------------------------------------
(* Plans with a filter above a join, and definitions with defaults *)

PlanU == LogicalScan(<<"u">>, UColumns)
PlanO == LogicalScan(<<"o">>, OColumns)
PlanB == LogicalScan(<<"b">>, B.columns)
Predicates == {BinaryExpr("=", Q("u", "a"), N("1")), BinaryExpr("<=", N("1"), Q("o", "k")), OnUid,
               BinaryExpr("=", C("a"), N("1")), BinaryExpr(">", Q("u", "a"), N("0")),
               BinaryExpr("=", Q("b", "id"), N("2")), BinaryExpr("=", Q("u", "a"), Q("b", "c")),
               BinaryExpr("=", Q("u", "id"), C("k")),
               BinaryExpr("=", Q("o", "uid"), BinaryExpr("/", BinaryExpr("-", N("2"), N("4")), N("4")))}
JoinedPlans == {LogicalJoin(PlanU, PlanO, OnUid),
                LogicalJoin(LogicalJoin(PlanU, PlanO, OnUid), PlanB, BinaryExpr("<=", C("c"), C("k"))),
                LogicalJoin(PlanB, LogicalJoin(PlanO, PlanU, OnUid), BinaryExpr("<=", C("c"), C("k")))}
HandPlans == {LogicalProject(LogicalFilter(LogicalFilter(j, p), q), columns) :
                j \in JoinedPlans, p \in Predicates, q \in Predicates,
                columns \in {Star, <<C("t"), BinaryExpr("*", C("f"), BinaryExpr("+", N("2"), Real))>>}}

Defaults == {[Name |-> <<"t">>, RootPageID |-> 70000, ForeignKeys |-> <<>>,
              Columns |-> <<Column("k", "INT", TRUE), [Column("n2", type, FALSE) EXCEPT !.Default = <<default>>]>>] :
               type \in {"INT"}, default \in {Null, I(-2), I(0)}}
         \cup {[Name |-> <<"t">>, RootPageID |-> 5, ForeignKeys |-> <<>>,
              Columns |-> <<[Column("n2", "TEXT", TRUE) EXCEPT !.Default = <<T(t)>>]>>] : t \in {<<>>, <<"a", "b">>}}
         \cup {[Name |-> <<"t">>, RootPageID |-> 5, ForeignKeys |-> <<>>,
              Columns |-> <<[Column("n2", "FLOAT", FALSE) EXCEPT !.Default = <<Half>>]>>]}

--------------------------------------------------------------------------------
(* Texts that no statement was written to *)

Raw == UNION {[1..n -> {"a", "1", ".", "'", "<", "=", " "}] : n \in 1..4}
       \cup UNION {[1..n -> {"!", ">", "=", "\n", "'", "@", "b", "COUNT"}] : n \in 1..3}

\* Statements that stop early.
Long == [Sel(<<C("a"), CountAll>>, "u", <<Join("o", OnUid)>>, <<BinaryExpr("=", C("a"), N("1"))>>, <<C("a")>>,
             <<By(C("a"), TRUE)>>, <<<<"1">>>>) EXCEPT !.Having = <<C("a")>>]
Cuts(s) == {Spaced(SubSeq(WriteStmt(s), 1, n)) : n \in 1..Len(WriteStmt(s)) - 1}
Cut == Cuts(Long) \cup UNION {Cuts(MCOthers[i]) : i \in {1, 2, 3, 5, 7}}
       \cup UNION {Cuts(s) : s \in Insertions} \cup UNION {Cuts(s) : s \in Creations}
Variants == {<<"select", " ", "*", "\n", "FROM", " ", "u", " ", "JOIN", " ", "o", " ", "ON", " ", "k", "=", "id">>,
             <<"select", " ", "*", "\n", "FROM", " ", "u", " ", "LEFT", "\t", "JOIN", " ", "o", " ", "ON", " ", "k", "=", "id", ";">>}

MCRequests ==
  LET written(set, tables) == {Request(TextFor(s), s, tables) : s \in set}
      texts(set) == {Request(text, None, 1) : text \in set}
  IN <<written({Where(e) : e \in Shapes}, 2), written({Where(e) : e \in Conditions}, 1),
       written({Sel(Star, "s", <<>>, <<BinaryExpr("LIKE", C("s"), Str(p))>>, <<>>, <<>>, <<>>) : p \in Patterns}, 1),
       written(Listings, 1), written(Groupings, 1), written(Groupings, 2), written(Oddities, 1),
       written(Creations, 1), written(Insertions, 1), texts(Raw), texts(Cut), texts(Variants),
       {PlanRequest(tree, 1) : tree \in HandPlans}, {DefRequest(def) : def \in Defaults}>>
     \o [i \in DOMAIN MCOthers |-> written({MCOthers[i]}, 1)]
================================================================================
