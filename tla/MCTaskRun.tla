------------------------------ MODULE MCTaskRun -----------------------------
(* One run whose worker makes one tool request.                            *)
EXTENDS TaskRun

MCCommands == {"t1"}
=============================================================================
