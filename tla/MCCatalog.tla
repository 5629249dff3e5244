------------------------------ MODULE MCCatalog ------------------------------
(* Constants for model checking Catalog. *)
EXTENDS Catalog

(* No statement reads how the last one ended. *)
StateView == <<maps, tree, disk, owner, txn, pages, pinned, diverged>>
====
