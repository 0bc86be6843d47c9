---------------------------- MODULE MCDaemonClient ----------------------------
(* DaemonClient with a few requests and processes.                          *)
EXTENDS DaemonClient
===============================================================================
