---------------------------- MODULE MCBufferPool ----------------------------
(* Constants for model checking BufferPool. *)
EXTENDS BufferPool, TLC

\* Pages and images are only compared with each other. With Freeable = Pages no
\* page differs from another.
Symmetry == Permutations(Pages) \cup Permutations(Images)
=============================================================================
