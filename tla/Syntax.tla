--------------------------------- MODULE Syntax --------------------------------
(***************************************************************************)
(* Texts and the expressions of parser/ast.go.                             *)
(*                                                                         *)
(* A text is a sequence of runes and a rune is a string.  A letter is one  *)
(* rune; so is a run of letters that only ever spells one word ("SELECT"). *)
(*                                                                         *)
(* All nodes of an expression are records of one shape, so that any two can*)
(* be compared: the kind of node, its operator (or the kind of a literal), *)
(* the table that qualifies a column, the text of a name or literal, and   *)
(* the children.                                                           *)
(***************************************************************************)
EXTENDS Sequences

CONSTANTS Alphabet,   \* the runes, in the order of their bytes
          Letters,    \* those that isLetter accepts, and '_'
          Lower       \* the lower case of each letter, as strings.ToLower gives it

Node(node, op, table, text, kids) ==
  [node |-> node, op |-> op, table |-> table, text |-> text, kids |-> kids]

Literal(kind, text) == Node("Literal", kind, <<>>, text, <<>>)
ColumnRef(table, column) == Node("ColumnRef", "", table, column, <<>>)
BinaryExpr(op, left, right) == Node("BinaryExpr", op, <<>>, <<>>, <<left, right>>)
UnaryExpr(op, operand) == Node("UnaryExpr", op, <<>>, <<>>, <<operand>>)
StarExpr == Node("StarExpr", "", <<>>, <<>>, <<>>)

\* COUNT(*) is a call with the field Star set and no arguments.
FuncCall(name, star, args) == Node("FuncCall", IF star THEN "*" ELSE "", <<>>, name, args)
================================================================================
