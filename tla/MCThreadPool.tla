----------------------------- MODULE MCThreadPool -----------------------------
(* ThreadPool with a few workers, clients and tasks.                       *)
EXTENDS ThreadPool

\* Every kind of exception function.
AllHandlers == {"unset", "returns", "throws"}
=============================================================================
