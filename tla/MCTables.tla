------------------------------ MODULE MCTables ------------------------------
(* Schemas for model checking Tables. *)
EXTENDS Tables

CONSTANTS A, B, C

TableDef(cols, notNull, fks, indexes) ==
  [cols |-> cols, pk |-> "id", notNull |-> notNull, fks |-> fks, indexes |-> indexes]

FK(col, ref, onDelete, onUpdate) ==
  [col |-> col, ref |-> ref, refCol |-> "id", onDelete |-> onDelete, onUpdate |-> onUpdate]

(* A diamond: B refers to A, C refers to A and to B. *)
Diamond(ab, ac, bc) ==
  [t \in {A, B, C} |->
     CASE t = A -> TableDef({"id"}, {}, << >>, << >>)
       [] t = B -> TableDef({"id", "a"}, {"id"}, <<ab>>, << >>)
       [] t = C -> TableDef({"id", "a", "b"}, {}, <<ac, bc>>, << >>)]

(* Every choice of ON DELETE actions; the keys that refer to A agree on the ON *)
(* UPDATE action, the key that refers to B has every one.                      *)
Diamonds ==
  {Diamond(FK("a", A, ab, up), FK("a", A, ac, up), FK("b", B, bc, bc)) :
     ab \in FKActions, ac \in FKActions, bc \in FKActions, up \in {"CASCADE", "SET NULL"}}

(* A and B are indexed, B refers to A by its indexed column, C stands alone. *)
Indexed ==
  {[t \in {A, B, C} |->
      CASE t = A -> TableDef({"id", "x"}, {}, << >>, <<"x">>)
        [] t = B -> TableDef({"id", "a"}, nn, <<FK("a", A, del, up)>>, <<"a">>)
        [] t = C -> TableDef({"id"}, {}, << >>, << >>)] :
     del \in FKActions, up \in FKActions, nn \in {{}, {"a"}}}

(* The same without indexes: CREATE INDEX comes at any time. *)
Unindexed ==
  {[t \in {A, B, C} |->
      CASE t = A -> TableDef({"id", "x"}, {}, << >>, << >>)
        [] t = B -> TableDef({"id", "x"}, {}, <<FK("x", A, act, act)>>, << >>)
        [] t = C -> TableDef({"id"}, {}, << >>, << >>)] :
     act \in {"CASCADE", "SET NULL"}}

AllSchemas == Diamonds \cup Indexed \cup Unindexed

OneC == [t \in {A, B, C} |-> IF t = C THEN 1 ELSE 2]

(* LookupsAgree speaks of indexes before the first failure only. *)
IndexesSpoilt == failed /\ "x" \in schema[A].cols
UntilFailure == ~IndexesSpoilt
RowsView == <<schema, trees, late, IndexesSpoilt>>
====
