--------------------------------- MODULE Parser --------------------------------
(***************************************************************************)
(* The recursive-descent parser of parser/parser.go, as operators.  The    *)
(* parser p holds the tokens of the input (the last one is EOF, which the  *)
(* lexer returns again and again), the index of the current one, whether   *)
(* no error was met, and the last thing parsed.  An operator given a parser*)
(* that has failed returns it: this is every "if err != nil { return }".   *)
(* The statements are the structs of parser/ast.go; an optional part is a  *)
(* sequence of length zero or one.                                         *)
(***************************************************************************)
EXTENDS Integers, Sequences, Syntax

Done(p, node) == IF p.ok THEN [p EXCEPT !.node = node] ELSE p
Fail(p) == [p EXCEPT !.ok = FALSE]
Cur(p) == p.tokens[p.at].Type
Sees(p, types) == p.ok /\ Cur(p) \in types

advance(p) == [p EXCEPT !.at = IF @ < Len(p.tokens) THEN @ + 1 ELSE @,
                        !.node = p.tokens[p.at].Literal]
expect(p, type) == IF Sees(p, {type}) THEN advance(p) ELSE Fail(p)

\* What was parsed, made into f of it.
As(p, f(_)) == Done(p, f(p.node))

\* One item, then more of them as long as a comma follows.
List(p, item(_)) ==
  LET RECURSIVE more(_)
      more(q) == IF Sees(q, {","}) THEN more(As(item(advance(q)), LAMBDA n : Append(q.node, n)))
                 ELSE q
  IN more(As(item(p), LAMBDA n : <<n>>))

\* A field of the record parsed so far; an optional one is introduced by a token.
Field(p, field, item(_)) == As(item(p), LAMBDA n : [p.node EXCEPT ![field] = n])
Clause(p, type, field, item(_)) ==
  IF Sees(p, {type}) THEN As(item(advance(p)), LAMBDA n : [p.node EXCEPT ![field] = n]) ELSE p

\* An item up to its closing parenthesis, and with the opening one.
Closed(p) == Done(expect(p, ")"), p.node)
Paren(p, item(_)) == Closed(item(expect(p, "(")))

\* An operator and its right operand; then all those of one level, grouped from the left.
Infix(l, operand(_), ops) ==
  As(operand(advance(l)), LAMBDA r : BinaryExpr(ops[Cur(l)], l.node, r))
LeftAssoc(p, operand(_), ops) ==
  LET RECURSIVE more(_)
      more(l) == IF Sees(l, DOMAIN ops) THEN more(Infix(l, operand, ops)) ELSE l
  IN more(operand(p))

--------------------------------------------------------------------------------
(* Expressions, from the operators that bind least to those that bind most *)

RECURSIVE parseExpr(_)

\* The arguments of a call, up to the closing parenthesis.
Args(p) == CASE Sees(p, {"*"}) -> Done(advance(p), <<>>)
             [] Sees(p, {")"}) -> Done(p, <<>>)
             [] OTHER -> List(p, parseExpr)
Call(p, name) == As(Closed(Args(p)), LAMBDA args : FuncCall(name, Sees(p, {"*"}), args))

parsePrimary(p) ==
  LET q == advance(p)
      text == q.node
      column == expect(advance(q), "Ident")
  IN CASE Sees(p, {"Integer"}) -> Done(q, Literal("integer", text))
       [] Sees(p, {"Float"})   -> Done(q, Literal("float", text))
       [] Sees(p, {"String"})  -> Done(q, Literal("string", text))
       [] Sees(p, {"null"})    -> Done(q, Literal("null", <<"NULL">>))
       [] Sees(p, {"*"})       -> Done(q, StarExpr)
       [] Sees(p, {"("})       -> Closed(parseExpr(q))
       [] Sees(p, {"count", "sum", "min", "max", "avg"}) -> Call(expect(q, "("), text)
       [] Sees(p, {"Ident"}) /\ Cur(q) = "(" -> Call(advance(q), text)
       [] Sees(p, {"Ident"}) /\ Cur(q) = "." -> Done(column, ColumnRef(text, column.node))
       [] Sees(p, {"Ident"}) /\ Cur(q) \notin {"(", "."} -> Done(q, ColumnRef(<<>>, text))
       [] OTHER -> Fail(p)

\* The sign and NOT are read at most once.
Negated(p) == As(p, LAMBDA e : UnaryExpr("-", e))
parseUnary(p) == IF Sees(p, {"-"}) THEN Negated(parsePrimary(advance(p))) ELSE parsePrimary(p)

parseMulDiv(p) == LeftAssoc(p, parseUnary, [o \in {"*", "/", "%"} |-> o])

parseAddSub(p) == LeftAssoc(p, parseMulDiv, [o \in {"+", "-"} |-> o])

ComparisonOps == [o \in {"=", "!=", "<", ">", "<=", ">=", "like"} |->
                    IF o = "like" THEN "LIKE" ELSE o]
Compared(l) == IF Sees(l, DOMAIN ComparisonOps) THEN Infix(l, parseAddSub, ComparisonOps) ELSE l
parseComparison(p) == Compared(parseAddSub(p))

Inverted(p) == As(p, LAMBDA e : UnaryExpr("NOT", e))

\* Plausible slip: NOT binds more tightly than a comparison.
parseNotTight(p) == IF Sees(p, {"not"}) THEN Inverted(parseAddSub(advance(p))) ELSE parseComparison(p)

parseNot(p) == IF Sees(p, {"not"}) THEN Inverted(parseComparison(advance(p))) ELSE parseComparison(p)

parseAnd(p) == LeftAssoc(p, parseNot, [o \in {"and"} |-> "AND"])

parseOr(p) == LeftAssoc(p, parseAnd, [o \in {"or"} |-> "OR"])

parseExpr(p) == parseOr(p)
Optional(p) == As(parseExpr(p), LAMBDA e : <<e>>)
Name(p) == expect(p, "Ident")
OptionalName(p) == IF Sees(p, {"Ident"}) THEN advance(p) ELSE Done(p, <<>>)

--------------------------------------------------------------------------------
(* Statements *)

\* JOIN, INNER JOIN and LEFT JOIN are the same; the alias is kept and not used.
JoinClause(p) ==
  LET side == IF Sees(p, {"inner", "left"}) THEN advance(p) ELSE p
      table == Name(expect(side, "join"))
      alias == OptionalName(table)
  IN As(parseExpr(expect(alias, "on")),
        LAMBDA on : [Table |-> table.node, Alias |-> alias.node, On |-> on])

Joins(p) ==
  LET RECURSIVE more(_)
      more(q) == IF Sees(q, {"join", "inner", "left"})
                 THEN more(As(JoinClause(q), LAMBDA join : Append(q.node, join))) ELSE q
  IN more(Done(p, <<>>))

Ordered(p) == Done(IF Sees(p, {"desc"}) THEN advance(p) ELSE p,
                   [Expr |-> p.node, Desc |-> Sees(p, {"desc"})])
OrderClause(p) == Ordered(parseExpr(p))

Columns(p) == IF Sees(p, {"*"}) THEN Done(advance(p), <<StarExpr>>) ELSE List(p, parseExpr)
From(p) == Name(expect(p, "from"))
ByExprs(p) == List(expect(p, "by"), parseExpr)
ByOrders(p) == List(expect(p, "by"), OrderClause)
LimitCount(p) == As(expect(p, "Integer"), LAMBDA n : <<n>>)

SelectStmt == [stmt |-> "select", Columns |-> <<>>, From |-> <<>>, Joins |-> <<>>, Where |-> <<>>,
               GroupBy |-> <<>>, Having |-> <<>>, OrderBy |-> <<>>, Limit |-> <<>>]
WhereClause(p) == Clause(p, "where", "Where", Optional)
GroupByClause(p) == Clause(p, "group", "GroupBy", ByExprs)
HavingClause(p) == Clause(p, "having", "Having", Optional)
OrderByClause(p) == Clause(p, "order", "OrderBy", ByOrders)
LimitClause(p) == Clause(p, "limit", "Limit", LimitCount)
parseSelect(p) ==
  LET start == Done(expect(p, "select"), SelectStmt)
  IN LimitClause(OrderByClause(HavingClause(GroupByClause(WhereClause(
       Field(Field(Field(start, "Columns", Columns), "From", From), "Joins", Joins))))))

Names(p) == List(p, Name)
Exprs(p) == List(p, parseExpr)
ValueRow(p) == Paren(p, Exprs)
parseInsert(p) ==
  LET table == Name(expect(expect(p, "insert"), "into"))
      columns == IF Sees(table, {"("}) THEN Paren(table, Names) ELSE Done(table, <<>>)
  IN As(List(expect(columns, "values"), ValueRow),
        LAMBDA values : [stmt |-> "insert", Table |-> table.node, Columns |-> columns.node,
                         Values |-> values])

Assignment(p) ==
  LET column == Name(p)
  IN As(parseExpr(expect(column, "=")), LAMBDA value : [Column |-> column.node, Value |-> value])
parseUpdate(p) ==
  LET table == Name(expect(p, "update"))
  IN WhereClause(As(List(expect(table, "set"), Assignment),
       LAMBDA set : [stmt |-> "update", Table |-> table.node, Set |-> set, Where |-> <<>>]))

parseDelete(p) ==
  WhereClause(As(From(expect(p, "delete")), LAMBDA table : [stmt |-> "delete", Table |-> table, Where |-> <<>>]))

\* SET NULL, or whatever token comes next.
parseReferentialAction(p) ==
  IF ~Sees(p, {"set"}) THEN advance(p)
  ELSE Done(IF Sees(advance(p), {"null"}) THEN advance(advance(p)) ELSE advance(p),
            <<"SET", "NULL">>)

OnAction(p) == parseReferentialAction(advance(advance(p)))
Actions(p) ==
  LET RECURSIVE more(_)
      more(q) ==
        CASE ~Sees(q, {"on"}) -> q
          [] Sees(q, {"on"}) /\ Cur(advance(q)) = "delete" -> more(Field(q, "OnDelete", OnAction))
          [] Sees(q, {"on"}) /\ Cur(advance(q)) = "update" -> more(Field(q, "OnUpdate", OnAction))
          [] OTHER -> Fail(q)
  IN more(p)

KeyColumn(p) == Paren(expect(expect(p, "foreign"), "key"), Name)
References(p) == Name(expect(p, "references"))
ParenName(p) == Paren(p, Name)
ForeignKeyAST(p) ==
  LET fk == [Column |-> <<>>, RefTable |-> <<>>, RefColumn |-> <<>>, OnDelete |-> <<>>,
             OnUpdate |-> <<>>]
      table == Field(Field(Done(p, fk), "Column", KeyColumn), "RefTable", References)
  IN Actions(Field(table, "RefColumn", ParenName))

True(p) == Done(p, TRUE)
Key(p) == True(expect(p, "key"))
NotNull(p) == True(expect(p, "null"))
ColumnDefAST(p) ==
  LET name == Name(p)
      type == As(Name(name), LAMBDA n : [Name |-> name.node, TypeName |-> n, PrimaryKey |-> FALSE,
                                         NotNull |-> FALSE, Default |-> <<>>])
      notNull == Clause(Clause(type, "primary", "PrimaryKey", Key), "not", "NotNull", NotNull)
  IN Clause(notNull, "default", "Default", Optional)

\* Columns and foreign keys may come in any order; they are kept apart.
TableItem(p) ==
  IF Sees(p, {"foreign"}) THEN As(ForeignKeyAST(p), LAMBDA key : <<"foreign", key>>)
  ELSE As(ColumnDefAST(p), LAMBDA column : <<"column", column>>)
TableItems(p) == List(p, TableItem)
Items(items, kind) == [i \in 1..Len(SelectSeq(items, LAMBDA x : x[1] = kind)) |->
                         SelectSeq(items, LAMBDA x : x[1] = kind)[i][2]]

parseCreateTable(p) ==
  LET table == Name(expect(p, "table"))
  IN As(Paren(table, TableItems),
        LAMBDA items : [stmt |-> "create table", Table |-> table.node,
          Columns |-> Items(items, "column"), ForeignKeys |-> Items(items, "foreign")])

parseCreateIndex(p) ==
  LET unique == Sees(p, {"unique"})
      index == Name(expect(IF unique THEN advance(p) ELSE p, "index"))
      table == Name(expect(index, "on"))
      column == Paren(table, Name)
  IN Done(column, [stmt |-> "create index", Index |-> index.node, Table |-> table.node,
       Column |-> column.node, Unique |-> unique])

parseCreate(p) ==
  LET q == expect(p, "create")
  IN CASE Sees(q, {"table"}) -> parseCreateTable(q)
       [] Sees(q, {"unique", "index"}) -> parseCreateIndex(q)
       [] OTHER -> Fail(q)

parseDrop(p) ==
  LET what == expect(p, "drop")
      name == Name(advance(what))
  IN CASE Sees(what, {"table"}) -> Done(name, [stmt |-> "drop table", Table |-> name.node])
       [] Sees(what, {"index"}) -> Done(name, [stmt |-> "drop index", Index |-> name.node])
       [] OTHER -> Fail(what)

parseAnalyze(p) ==
  LET q == expect(p, "analyze")
  IN As(OptionalName(q), LAMBDA table : [stmt |-> "analyze", Table |-> table])

\* NewParser reads two tokens and refuses an empty input or an error among them;
\* Parse goes by the first.  What follows the statement is not looked at.
NewParser(tokens) ==
  [tokens |-> tokens, at |-> 1, node |-> <<>>,
   ok |-> tokens[1].Type \notin {"EOF", "Err"} /\ tokens[2].Type # "Err"]

Parse(p) ==
  CASE Sees(p, {"select"}) -> parseSelect(p)
    [] Sees(p, {"insert"}) -> parseInsert(p)
    [] Sees(p, {"update"}) -> parseUpdate(p)
    [] Sees(p, {"delete"}) -> parseDelete(p)
    [] Sees(p, {"create"}) -> parseCreate(p)
    [] Sees(p, {"drop"})   -> parseDrop(p)
    [] Sees(p, {"begin", "commit", "rollback"}) -> Done(advance(p), [stmt |-> Cur(p)])
    [] Sees(p, {"analyze"}) -> parseAnalyze(p)
    [] OTHER -> Fail(p)
================================================================================
