---------------------------- MODULE MCTableTree ----------------------------
(* Constants for model checking TableTree. A value is named by its length. *)
EXTENDS TableTree

EqualKeys == [k \in Keys |-> 18]
ShortValue == [k \in Keys |-> {0}]
ShortAndLong == [k \in Keys |-> IF k % 2 = 0 THEN {0, 14} ELSE {0}]
NamedLen == [v \in {0, 14} |-> v]
=============================================================================
