------------------------- MODULE MCDeadlockDetector -------------------------
(* Constants for model checking DeadlockDetector. *)
EXTENDS DeadlockDetector

CONSTANTS t1, t2, t3
=============================================================================
