----------------------------- MODULE MCDbServer -----------------------------
(* DbServer on small instances.                                            *)
EXTENDS DbServer
=============================================================================
