----------------------------- MODULE MCDatabase -----------------------------
(* Constants for model checking Database. *)
EXTENDS Database, TLC

\* Images are only compared with each other.
Symmetry == Permutations(Images)
=============================================================================
