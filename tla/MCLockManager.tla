--------------------------- MODULE MCLockManager ---------------------------
(* Constants for model checking LockManager. *)
EXTENDS LockManager

CONSTANTS t1, t2, t3, a, b
=============================================================================
