--------------------------------- MODULE Lexer ---------------------------------
(***************************************************************************)
(* The lexer of parser/lexer.go.  NextToken is an operator on the fields   *)
(* of the Lexer struct; position counts the runes already read.            *)
(* A token that is a keyword has the keyword itself as its type.           *)
(***************************************************************************)
EXTENDS Integers, FiniteSetsExt, SequencesExt, Syntax

Runes == ToSet(Alphabet)
Numerals == {"0", "1", "2", "3", "4", "5", "6", "7", "8", "9"}
Whitespace == {" ", "\t", "\r", "\n"}

keywords == {"select", "from", "where", "insert", "into", "values", "update", "set",
  "delete", "create", "table", "drop", "index", "on", "primary", "key", "not", "null",
  "default", "begin", "commit", "rollback", "and", "or", "like", "order", "by", "limit",
  "join", "inner", "left", "group", "having", "count", "sum", "min", "max", "avg",
  "references", "foreign", "unique", "analyze", "desc"}

Single == {"(", ")", ",", ";", "+", "-", "*", ".", "/", "=", "%"}
BeforeEq == {"!", ">", "<"}     \* may be followed by '='

ASSUME LexerAssumption ==
  Letters \cap (Numerals \cup Whitespace \cup Single \cup BeforeEq \cup {"'"}) = {}

Token(type, literal, line) == [Type |-> type, Literal |-> literal, Line |-> line]

\* The first position from which the rune read next is in stop, or the end.
Until(input, from, stop) ==
  Min({i \in from..Len(input) : i = Len(input) \/ input[i + 1] \in stop})

At(input, position, rune) == position < Len(input) /\ input[position + 1] = rune

\* Each of the four readers returns the type of the token and where it ends.
readNumber(input, start) ==
  LET whole == Until(input, start, Runes \ Numerals)
      float == At(input, whole, ".")
      end == IF float THEN Until(input, whole + 1, Runes \ Numerals) ELSE whole
  IN CASE ~float -> <<"Integer", end>>
       [] float /\ ~At(input, end, ".") -> <<"Float", end>>
       [] float /\ At(input, end, ".") -> <<"Err", end + 1>>

readIdent(input, start) ==
  LET end == Until(input, start, Runes \ (Letters \cup Numerals))
      word == Lower[input[start + 1]]
  IN <<IF end = start + 1 /\ word \in keywords THEN word ELSE "Ident", end>>

\* There is no escape: the next quote ends the string.
readString(input, start) ==
  LET end == Until(input, start + 1, {"'"})
  IN IF end = Len(input) THEN <<"Err", end>> ELSE <<"String", end + 1>>

\* Plausible slip: the rune after '<', '>' or '!' is not looked at.
readOperatorAlone(input, start) ==
  LET rune == input[start + 1]
  IN CASE rune \in Single -> <<rune, start + 1>>
       [] rune \in BeforeEq \ {"!"} -> <<rune, start + 1>>
       [] OTHER -> <<"Err", start + 1>>

readOperator(input, start) ==
  LET rune == input[start + 1]
      eq == At(input, start + 1, "=")
  IN CASE rune \in Single -> <<rune, start + 1>>
       [] rune \in BeforeEq /\ eq ->
            <<CASE rune = "!" -> "!=" [] rune = ">" -> ">=" [] rune = "<" -> "<=", start + 2>>
       [] rune \in BeforeEq \ {"!"} /\ ~eq -> <<rune, start + 1>>
       [] OTHER -> <<"Err", start + 1>>

\* Newlines are counted between tokens only; the quotes of a string are dropped.
NextToken(input, position, line) ==
  LET start == Until(input, position, Runes \ Whitespace)
      newlines == Cardinality({i \in position + 1..start : input[i] = "\n"})
      rune == input[start + 1]
      read == CASE rune \in Numerals -> readNumber(input, start)
                [] rune \in Letters -> readIdent(input, start)
                [] rune = "'" -> readString(input, start)
                [] OTHER -> readOperator(input, start)
      inner == CASE rune # "'" -> SubSeq(input, start + 1, read[2])
                 [] rune = "'" /\ read[1] = "String" -> SubSeq(input, start + 2, read[2] - 1)
                 [] rune = "'" /\ read[1] = "Err" -> SubSeq(input, start + 2, read[2])
  IN IF start = Len(input)
     THEN [token |-> Token("EOF", <<>>, line + newlines), position |-> start,
           line |-> line + newlines]
     ELSE [token |-> Token(read[1], inner, line + newlines), position |-> read[2],
           line |-> line + newlines]
--------------------------------------------------------------------------------
(* What the lexer is compared with *)

\* The kinds of tokens, as sets of texts.
IsToken(s) ==
  \/ s[1] \in Letters /\ \A i \in DOMAIN s : s[i] \in Letters \cup Numerals
  \/ /\ s[1] \in Numerals /\ \A i \in DOMAIN s : s[i] \in Numerals \cup {"."}
     /\ \A i, j \in DOMAIN s : s[i] = "." /\ s[j] = "." => i = j
  \/ Len(s) >= 2 /\ \A i \in DOMAIN s : s[i] = "'" <=> i \in {1, Len(s)}
  \/ Len(s) = 1 /\ s[1] \in Single \cup {"<", ">"}
  \/ Len(s) = 2 /\ s[1] \in BeforeEq /\ s[2] = "="

\* From a place in the text on, next is the longest token there is: nothing but white
\* space is skipped, the token is one and could not be longer, and an error is reported
\* only where no token starts or where a second point follows a number.
CutsLongest(text, from, next) ==
  \E start \in from..Len(text) :
    LET to == next.position
        ends == {i \in start + 1..Len(text) : IsToken(SubSeq(text, start + 1, i))}
    IN /\ \A i \in from + 1..start : text[i] \in Whitespace
       /\ start < Len(text) => text[start + 1] \notin Whitespace
       /\ IF next.token.Type = "EOF" THEN start = Len(text) /\ to = start
          ELSE to \in start + 1..Len(text)
       /\ next.token.Type = "Err" =>
            \/ ends = {}
            \/ /\ text[start + 1] \in Numerals /\ text[to] = "."
               /\ to - 1 \in ends /\ \A i \in ends : i < to
       /\ next.token.Type \notin {"EOF", "Err"} =>
            /\ to \in ends /\ \A i \in ends : i <= to
            /\ next.token.Literal = IF next.token.Type = "String"
                                    THEN SubSeq(text, start + 2, to - 1)
                                    ELSE SubSeq(text, start + 1, to)
================================================================================
