----------------------------- MODULE OrderedMap -----------------------------
(***************************************************************************)
(* What the B+ tree of storage/btree.go promises its callers: a map from   *)
(* keys to values in which Insert refuses a key that is there, Delete one  *)
(* that is not, and an entry is refused for its size alone. result is the  *)
(* last call and how it ended.                                             *)
(***************************************************************************)
CONSTANTS Keys, Vals, NotFound, Legal(_, _)

VARIABLES map, result

Init == map \in [Keys -> Vals \cup {NotFound}] /\ result = <<"ok">>

Insert(k, v) ==
  \/ /\ ~Legal(k, v)
     /\ result' = <<"too large", k, v>>
     /\ UNCHANGED map
  \/ /\ Legal(k, v) /\ map[k] # NotFound
     /\ result' = <<"duplicate", k, v>>
     /\ UNCHANGED map
  \/ /\ Legal(k, v) /\ map[k] = NotFound
     /\ result' = <<"ok", k, v>>
     /\ map' = [map EXCEPT ![k] = v]

Delete(k) ==
  \/ /\ map[k] = NotFound
     /\ result' = <<"not found", k>>
     /\ UNCHANGED map
  \/ /\ map[k] # NotFound
     /\ result' = <<"ok", k>>
     /\ map' = [map EXCEPT ![k] = NotFound]

Next ==
  \/ \E k \in Keys, v \in Vals : Insert(k, v)
  \/ \E k \in Keys : Delete(k)

Spec == Init /\ [][Next]_<<map, result>>
=============================================================================
