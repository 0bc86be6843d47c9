------------------------------- MODULE MCPager -------------------------------
(* Pager on small results.                                                 *)
EXTENDS Pager
=============================================================================
