------------------------------- MODULE MCThread -------------------------------
(* Thread with small sets of objects, storages and runs.                   *)
EXTENDS Thread

\* Only restarts, and everything.
Restarts == {"restart"}
Freely   == {"restart", "rerun", "refill", "overwrite"}
=============================================================================
