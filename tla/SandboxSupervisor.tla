------------------------- MODULE SandboxSupervisor --------------------------
(***************************************************************************)
(* The supervisor that runs as the entry point of the sandbox container    *)
(* (profiles/pool-proof-builder/broker.mjs): it reads request and cancel   *)
(* frames from its standard input, runs each bash command in a process     *)
(* group of its own, and writes one response frame per request.  Frames    *)
(* are handled as they arrive, so two commands can be running at once.     *)
(*                                                                         *)
(* Responses to cancel frames carry an id nobody waits for and are left    *)
(* out.  External: the container runtime, which brings the container up    *)
(* and down, and the processes a command starts.                           *)
(***************************************************************************)
EXTENDS Naturals, Sequences, FiniteSets

CONSTANTS
  Commands,    \* tool requests of the worker
  NoCommand

ASSUME SupervisorAssumption == IsFiniteSet(Commands) /\ NoCommand \notin Commands

VARIABLES
  container,   \* "none" before it is created, "up", "down" (exited), "removed"
  inbox,       \* frames on the supervisor's standard input
  outbox,      \* frames on its standard output
  inFlight,    \* the command the supervisor can cancel, or NoCommand
  proc         \* command -> its process group: "killed" was sent SIGKILL

supervisorVars == <<container, inbox, outbox, inFlight, proc>>

ProcStates == {"none", "running", "killed", "closed"}

ToolFrame(c) == [kind |-> "tool", id |-> c]
CancelFrame(c) == [kind |-> "cancel", id |-> c]
ReadyFrame == [kind |-> "ready", id |-> NoCommand]
\* The response to a request: the outcome of its command, or an error.
Result(c) == [kind |-> "result", id |-> c]
Failure(c) == [kind |-> "error", id |-> c]

Running == {c \in Commands : proc[c] = "running"}

-----------------------------------------------------------------------------
(* The container                                                           *)

\* The runtime brings the container up; main reports readiness at once.
ContainerUp ==
  /\ container = "none"
  /\ container' = "up"
  /\ outbox' = Append(outbox, ReadyFrame)
  /\ UNCHANGED <<inbox, inFlight, proc>>

\* The container stops, with every process in it: the supervisor has seen the
\* end of its input (shutdown: it kills the command in flight and exits), or it
\* crashed.
ContainerDown ==
  /\ container = "up"
  /\ container' = "down"
  /\ proc' = [c \in Commands |-> IF proc[c] = "none" THEN "none" ELSE "closed"]
  /\ inFlight' = NoCommand
  /\ inbox' = <<>>
  /\ UNCHANGED outbox

-----------------------------------------------------------------------------
(* Frames                                                                  *)

\* killInFlight: SIGKILL to the process group of the command in flight, once.
killInFlight ==
  IF inFlight \in Running THEN [proc EXCEPT ![inFlight] = "killed"] ELSE proc

\* A cancel frame kills its target if that is the command in flight.
HandleCancel ==
  /\ container = "up" /\ inbox # <<>> /\ Head(inbox).kind = "cancel"
  /\ inbox' = Tail(inbox)
  /\ proc' = IF Head(inbox).id = inFlight THEN killInFlight ELSE proc
  /\ UNCHANGED <<container, outbox, inFlight>>

\* A request for a file (read, write, edit), or one that is refused, is
\* answered in one piece.
HandleFileTool ==
  /\ container = "up" /\ inbox # <<>> /\ Head(inbox).kind = "tool"
  /\ inbox' = Tail(inbox)
  /\ outbox' = Append(outbox, Result(Head(inbox).id))
  /\ UNCHANGED <<container, inFlight, proc>>

\* runCommand: a bash request starts a process group, which is now the one in
\* flight, even when an earlier command has not closed yet.
HandleBash ==
  /\ container = "up" /\ inbox # <<>> /\ Head(inbox).kind = "tool"
  /\ inbox' = Tail(inbox)
  /\ inFlight' = Head(inbox).id
  /\ proc' = [proc EXCEPT ![Head(inbox).id] = "running"]
  /\ UNCHANGED <<container, outbox>>

-----------------------------------------------------------------------------
(* Commands                                                                *)

\* The wall-clock timer of a command, or output past its bound, kills the
\* command in flight; both are stopped once their own command was killed.
CommandLimit(c) ==
  /\ container = "up" /\ c \in Running
  /\ proc' = killInFlight
  /\ UNCHANGED <<container, inbox, outbox, inFlight>>

\* settle: the last process that holds the command's output has closed it (for
\* a killed command this may be late: a descendant can have left the group).
\* One response goes out, and nothing is in flight any more, whichever command
\* that was.
CommandClose(c) ==
  /\ container = "up"
  /\ proc[c] \in {"running", "killed"}
  /\ proc' = [proc EXCEPT ![c] = "closed"]
  /\ outbox' = Append(outbox, IF proc[c] = "killed" THEN Failure(c) ELSE Result(c))
  /\ inFlight' = NoCommand
  /\ UNCHANGED <<container, inbox>>

SupervisorInit ==
  /\ container = "none"
  /\ inbox = <<>>
  /\ outbox = <<>>
  /\ inFlight = NoCommand
  /\ proc = [c \in Commands |-> "none"]

HandleFrame == HandleCancel \/ HandleFileTool \/ HandleBash

SupervisorTypeOK ==
  /\ container \in {"none", "up", "down", "removed"}
  /\ \A k \in DOMAIN inbox : inbox[k] \in [kind : {"tool", "cancel"}, id : Commands]
  /\ \A k \in DOMAIN outbox :
       outbox[k] \in [kind : {"ready", "result", "error"},
                      id : Commands \cup {NoCommand}]
  /\ inFlight \in Commands \cup {NoCommand}
  /\ proc \in [Commands -> ProcStates]
=============================================================================
