----------------------------- MODULE MCResultDock -----------------------------
(* ResultDock with a few statements.                                        *)
EXTENDS ResultDock
===============================================================================
