------------------------------ MODULE MCPager ------------------------------
(* Constants for model checking Pager. *)
EXTENDS Pager
=============================================================================
