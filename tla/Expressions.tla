------------------------------ MODULE Expressions ------------------------------
(***************************************************************************)
(* The expression evaluator of executor/filter.go (evalExpr, applyBinaryOp,*)
(* likeMatch) with the conversions of executor/project.go (toValue,        *)
(* compareValues) and executor/insert.go (evalExprToValue), as operators.  *)
(*                                                                         *)
(* A float is a fraction in lowest terms.  Integers are small enough for   *)
(* int64 and float64 to hold them and what is computed from them exactly.  *)
(* The BLOB type, of which there are no literals, is left out.             *)
(***************************************************************************)
EXTENDS Integers, SequencesExt, FiniteSetsExt, Syntax

--------------------------------------------------------------------------------
(* Values. What evalExpr returns is an interface{}: nil, bool, int64,      *)
(* float64, string or an error; catalog.Value has a field per type, the    *)
(* ones that are not set being zero.                                       *)

Frac(n, d) == LET g == Max({k \in 1..d : d % k = 0 /\ n % k = 0})
              IN <<n \div g, d \div g>>

Dyn(t, i, f, s) == [t |-> t, i |-> i, f |-> f, s |-> s]
Nil == Dyn("nil", 0, <<0, 1>>, <<>>)
Failed == Dyn("error", 0, <<0, 1>>, <<>>)
Int64(n) == Dyn("int64", n, <<0, 1>>, <<>>)
Float64(f) == Dyn("float64", 0, f, <<>>)
String(s) == Dyn("string", 0, <<0, 1>>, s)
Bool(b) == Dyn("bool", IF b THEN 1 ELSE 0, <<0, 1>>, <<>>)

Value(null, i, f, s) == [IsNull |-> null, IntVal |-> i, FloatVal |-> f, TextVal |-> s]
NullValue == Value(TRUE, 0, <<0, 1>>, <<>>)
IntValue(n) == Value(FALSE, n, <<0, 1>>, <<>>)
FloatValue(f) == Value(FALSE, 0, f, <<>>)
TextValue(s) == Value(FALSE, 0, <<0, 1>>, s)

\* A boolean has no field of its own and becomes NULL.
toValue(d) == CASE d.t = "int64"   -> IntValue(d.i)
                [] d.t = "float64" -> FloatValue(d.f)
                [] d.t = "string"  -> TextValue(d.s)
                [] OTHER           -> NullValue

\* The field a column of this type is read from.
Cell(value, type) == CASE value.IsNull    -> Nil
                       [] type = "INT"    -> Int64(value.IntVal)
                       [] type = "FLOAT"  -> Float64(value.FloatVal)
                       [] type = "TEXT"   -> String(value.TextVal)

--------------------------------------------------------------------------------
(* Numbers and texts. *)

IsNum(d) == d.t \in {"int64", "float64"}
toFloat64(d) == CASE d.t = "int64" -> <<d.i, 1>> [] d.t = "float64" -> d.f [] OTHER -> <<0, 1>>

Sign(n) == IF n < 0 THEN -1 ELSE IF n = 0 THEN 0 ELSE 1
Abs(n) == IF n < 0 THEN -n ELSE n

\* Go's integer division truncates; the remainder has the dividend's sign.
Quotient(a, b) == Sign(a) * Sign(b) * (Abs(a) \div Abs(b))
Remainder(a, b) == a - b * Quotient(a, b)

Rank == [r \in ToSet(Alphabet) |-> CHOOSE i \in DOMAIN Alphabet : Alphabet[i] = r]
CompareTexts(a, b) ==
  LET differ == {i \in 1..Min({Len(a), Len(b)}) : a[i] # b[i]}
  IN IF differ = {} THEN Sign(Len(a) - Len(b))
     ELSE Sign(Rank[a[Min(differ)]] - Rank[b[Min(differ)]])

\* fmt.Sprintf("%v", d); the denominator of a float that is formatted is a power of two.
Digit == <<"0", "1", "2", "3", "4", "5", "6", "7", "8", "9">>
Digits[n \in Nat] == IF n < 10 THEN <<Digit[n + 1]>>
                     ELSE Append(Digits[n \div 10], Digit[(n % 10) + 1])
Signed(n, text) == IF n < 0 THEN <<"-">> \o text ELSE text
Decimals(n, d) ==      \* of n / d, a fraction below one
  LET places == Min({k \in 1..6 : (10 ^ k) % d = 0})
  IN Tail(Digits[(10 ^ places) + n * ((10 ^ places) \div d)])
Sprint(d) == CASE d.t = "nil"     -> <<"<nil>">>
               [] d.t = "bool"    -> IF d.i = 1 THEN <<"true">> ELSE <<"false">>
               [] d.t = "int64"   -> Signed(d.i, Digits[Abs(d.i)])
               [] d.t = "float64" ->
                    LET n == Abs(d.f[1])
                    IN Signed(d.f[1], Digits[n \div d.f[2]] \o
                         (IF d.f[2] = 1 THEN <<>> ELSE <<".">> \o Decimals(n % d.f[2], d.f[2])))
               [] d.t = "string"  -> d.s

CompareNumbers(f, g) == Sign(f[1] * g[2] - g[1] * f[2])

\* The comparison shared by applyBinaryOp, ORDER BY, MIN and MAX.
CompareSet(l, r) == IF IsNum(l) /\ IsNum(r) THEN CompareNumbers(toFloat64(l), toFloat64(r))
                    ELSE CompareTexts(Sprint(l), Sprint(r))

\* NULL sorts before everything else.
compareValues(l, r) == CASE l.t = "nil" /\ r.t = "nil" -> 0
                         [] l.t = "nil" /\ r.t # "nil" -> -1
                         [] l.t # "nil" /\ r.t = "nil" -> 1
                         [] OTHER -> CompareSet(l, r)

--------------------------------------------------------------------------------
(* LIKE *)

\* strings.Split(pattern, "%")
Split(pattern) ==
  LET cuts == <<0>> \o SetToSortSeq({i \in DOMAIN pattern : pattern[i] = "%"}, <)
                    \o <<Len(pattern) + 1>>
  IN [k \in 1..Len(cuts) - 1 |-> SubSeq(pattern, cuts[k] + 1, cuts[k + 1] - 1)]

Suffix(s, n) == SubSeq(s, n + 1, Len(s))

\* The set holds what is left of the text after a part was found, or nothing.
SkipPart(rest, part) ==
  UNION {LET at == {i \in 0..Len(r) - Len(part) : SubSeq(r, i + 1, i + Len(part)) = part}
         IN IF at = {} THEN {} ELSE {Suffix(r, Min(at) + Len(part))} : r \in rest}

\* Plausible slip: the prefix is tested but not consumed.
likeMatchKeepsPrefix(str, pattern) ==
  LET parts == Split(pattern)
      rest == FoldLeft(SkipPart, {str}, Front(Tail(parts)))
  IN IF Len(parts) = 1 THEN str = pattern
     ELSE IsPrefix(parts[1], str) /\ \E r \in rest : IsSuffix(Last(parts), r)

likeMatch(str, pattern) ==
  LET parts == Split(pattern)
      rest == FoldLeft(SkipPart, {Suffix(str, Len(parts[1]))}, Front(Tail(parts)))
  IN IF Len(parts) = 1 THEN str = pattern
     ELSE IsPrefix(parts[1], str) /\ \E r \in rest : IsSuffix(Last(parts), r)

--------------------------------------------------------------------------------
(* Operators *)

Comparisons == {"=", "!=", "<", ">", "<=", ">="}
Holds(op, c) == CASE op = "="  -> c = 0  [] op = "!=" -> c # 0
                  [] op = "<"  -> c < 0  [] op = ">"  -> c > 0
                  [] op = "<=" -> c <= 0 [] op = ">=" -> c >= 0

\* Integers stay integers.
applyArith(op, l, r) ==
  LET f == toFloat64(l)  g == toFloat64(r)
      ints == l.t = "int64" /\ r.t = "int64"
  IN CASE ~IsNum(l) \/ ~IsNum(r) -> Failed
       [] op = "/" /\ g[1] = 0   -> Failed
       [] ints /\ op = "+" -> Int64(l.i + r.i)
       [] ints /\ op = "-" -> Int64(l.i - r.i)
       [] ints /\ op = "*" -> Int64(l.i * r.i)
       [] ints /\ op = "/" -> Int64(Quotient(l.i, r.i))
       [] ~ints /\ op = "+" -> Float64(Frac(f[1] * g[2] + g[1] * f[2], f[2] * g[2]))
       [] ~ints /\ op = "-" -> Float64(Frac(f[1] * g[2] - g[1] * f[2], f[2] * g[2]))
       [] ~ints /\ op = "*" -> Float64(Frac(f[1] * g[1], f[2] * g[2]))
       [] ~ints /\ op = "/" -> Float64(Frac(Sign(g[1]) * f[1] * g[2], Abs(f[2] * g[1])))

\* Any operator with a NULL operand yields NULL, AND and OR included.
applyBinaryOp(op, l, r) ==
  LET both(t) == l.t = t /\ r.t = t
  IN CASE "nil" \in {l.t, r.t}          -> Nil
       [] op = "AND" /\ both("bool")    -> Bool(l.i = 1 /\ r.i = 1)
       [] op = "OR" /\ both("bool")     -> Bool(l.i = 1 \/ r.i = 1)
       [] op = "LIKE" /\ both("string") -> Bool(likeMatch(l.s, r.s))
       [] op \in Comparisons            -> Bool(Holds(op, CompareSet(l, r)))
       [] op \in {"+", "-", "*", "/"}   -> applyArith(op, l, r)
       [] op = "%" /\ both("int64") /\ r.i # 0 -> Int64(Remainder(l.i, r.i))
       [] OTHER -> Failed

applyUnaryOp(op, d) ==
  CASE op = "NOT" /\ d.t = "bool"  -> Bool(d.i = 0)
    [] op = "-" /\ d.t = "int64"   -> Int64(-d.i)
    [] op = "-" /\ d.t = "float64" -> Float64(<<-d.f[1], d.f[2]>>)
    [] OTHER -> Failed

--------------------------------------------------------------------------------
(* Evaluation *)

\* strconv.ParseInt and ParseFloat on a literal: digits, a point among them if the
\* kind is float and it was not folded to a whole number, a sign if it was folded.
NumberOf(digits) == FoldLeft(LAMBDA n, r : 10 * n + (Rank[r] - Rank["0"]), 0, digits)
ParseFloat(text) ==
  LET sign == IF text[1] = "-" THEN -1 ELSE 1
      digits == SelectSeq(text, LAMBDA r : r \notin {"-", "."})
      point == SelectInSeq(text, LAMBDA r : r = ".")
  IN Frac(sign * NumberOf(digits), IF point = 0 THEN 1 ELSE 10 ^ (Len(text) - point))
LiteralValue(kind, text) == CASE kind = "integer" -> Int64(ParseFloat(text)[1])
                              [] kind = "float"   -> Float64(ParseFloat(text))
                              [] kind = "string"  -> String(text)
                              [] kind = "null"    -> Nil

\* A column is found by its name alone; the first column with the name is taken.
ColumnIndex(columns, name) == SelectInSeq(columns, LAMBDA c : c.Name = name)

RECURSIVE evalExpr(_, _, _)
evalExpr(expr, row, columns) ==
  LET kid(k) == evalExpr(expr.kids[k], row, columns)
      at == ColumnIndex(columns, expr.text)
  IN CASE expr.node = "Literal"   -> LiteralValue(expr.op, expr.text)
       [] expr.node = "ColumnRef" -> IF at = 0 \/ at > Len(row) THEN Failed
                                     ELSE Cell(row[at], columns[at].Type)
       [] expr.node = "BinaryExpr" ->
            IF kid(1).t = "error" \/ kid(2).t = "error" THEN Failed
            ELSE applyBinaryOp(expr.op, kid(1), kid(2))
       [] expr.node = "UnaryExpr" -> applyUnaryOp(expr.op, kid(1))
       [] OTHER -> Failed     \* a function call or a star

IsTrue(d) == d = Bool(TRUE)

\* VALUES and SET: a constant expression, converted to the type of its column.
Storable(d, type) == \/ d.t = "nil"
                     \/ type \in {"INT", "FLOAT"} /\ IsNum(d)
                     \/ type = "TEXT" /\ d.t = "string"
evalExprToValue(expr, type) ==
  LET d == evalExpr(expr, <<>>, <<>>)
      f == toFloat64(d)
  IN CASE type = "INT" /\ d.t = "float64" -> IntValue(Quotient(f[1], f[2]))
       [] type = "FLOAT" /\ d.t = "int64" -> FloatValue(f)
       [] OTHER -> toValue(d)
================================================================================
