-------------------------- MODULE MCSandboxBroker ---------------------------
(* Two requests: the second can wait behind the first, and run while the   *)
(* first has been killed but has not closed.                               *)
EXTENDS SandboxBroker

MCCommands == {"t1", "t2"}
=============================================================================
