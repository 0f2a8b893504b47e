--------------------------- MODULE SandboxBroker ----------------------------
(***************************************************************************)
(* The socket server between the worker and its sandbox: one connection    *)
(* per tool request, one answer per connection.  start brings the sandbox  *)
(* up before it listens; stop is memoized, waits for every connection to   *)
(* close and then stops the sandbox.                                       *)
(*                                                                         *)
(* The client is the worker's extension (trusted-bootstrap.ts), in a       *)
(* process that may ask and go away whenever it likes.                     *)
(***************************************************************************)
EXTENDS RepositorySandbox

VARIABLES
  brokerPc,         \* where start is: "listening" once it has returned
  brokerStop,       \* where the memoized stop is
  terminalFailure,  \* the server failed after it had begun to listen
  conn,             \* connection of a request
  answer            \* what the client of a request was answered

brokerOwn == <<brokerPc, brokerStop, terminalFailure, conn, answer>>
brokerVars == <<sandboxVars, brokerOwn>>

Unanswered(c) == conn[c] \in {"open", "asked"}

-----------------------------------------------------------------------------
(* start                                                                   *)

StartBroker ==
  /\ brokerPc = "idle"
  /\ brokerPc' = "starting"
  /\ Start
  /\ UNCHANGED <<brokerStop, terminalFailure, conn, answer>>

\* Once the sandbox is up the server listens.  If it cannot, the sandbox is
\* stopped, since nobody will get a broker to stop; a sandbox that did not
\* start has cleaned up after itself.
Listen ==
  /\ brokerPc = "starting" /\ startPc \in {"ok", "failed"}
  /\ \/ /\ startPc = "failed"
        /\ brokerPc' = "failed"
        /\ UNCHANGED <<state, intakeClosed, stopPc>>
     \/ /\ startPc = "ok"
        /\ brokerPc' = "listening"
        /\ UNCHANGED <<state, intakeClosed, stopPc>>
     \/ /\ startPc = "ok"
        /\ brokerPc' = "rollback"
        /\ StopSandbox
  /\ UNCHANGED <<supervisorVars, child, startVars, removeOwned, removals, toolVars,
                 brokerStop, terminalFailure, conn, answer>>

RollbackListen ==
  /\ brokerPc = "rollback" /\ stopPc \in {"done", "failed"}
  /\ brokerPc' = "failed"
  /\ UNCHANGED <<sandboxVars, brokerStop, terminalFailure, conn, answer>>

-----------------------------------------------------------------------------
(* Connections                                                             *)

Connect(c) ==
  /\ brokerPc = "listening" /\ brokerStop = "idle" /\ conn[c] = "none"
  /\ conn' = [conn EXCEPT ![c] = "open"]
  /\ UNCHANGED <<sandboxVars, brokerPc, brokerStop, terminalFailure, answer>>

\* A request arrives in full and goes to the sandbox, or is too large.
Ask(c) ==
  /\ conn[c] = "open"
  /\ \/ /\ conn' = [conn EXCEPT ![c] = "asked"]
        /\ RunTool(c)
        /\ UNCHANGED answer
     \/ /\ conn' = [conn EXCEPT ![c] = "replied"]
        /\ answer' = [answer EXCEPT ![c] = Failure(c)]
        /\ UNCHANGED <<chain, toolResult>>
  /\ UNCHANGED <<supervisorVars, state, child, intakeClosed, startVars, stopVars, active,
                 phase, aborted, brokerPc, brokerStop, terminalFailure>>

\* reply: what the sandbox answered goes to the client, once.
Reply(c) ==
  /\ conn[c] = "asked" /\ toolResult[c] # NoResult
  /\ conn' = [conn EXCEPT ![c] = "replied"]
  /\ answer' = [answer EXCEPT ![c] = toolResult[c]]
  /\ UNCHANGED <<sandboxVars, brokerPc, brokerStop, terminalFailure>>

\* The request timer aborts a request: its client is told so at once and its
\* command is cancelled.
RequestTimeout(c) ==
  /\ Unanswered(c)
  /\ conn' = [conn EXCEPT ![c] = "replied"]
  /\ answer' = [answer EXCEPT ![c] = Failure(c)]
  /\ AbortTool(c)
  /\ UNCHANGED <<container, outbox, inFlight, proc, state, child, intakeClosed, startVars,
                 stopVars, chain, active, toolResult, brokerPc, brokerStop, terminalFailure>>

\* The client goes away: a request without an answer is aborted.
Disconnect(c) ==
  /\ conn[c] \in {"open", "asked", "replied"}
  /\ conn' = [conn EXCEPT ![c] = "closed"]
  /\ IF Unanswered(c) THEN AbortTool(c) ELSE UNCHANGED <<aborted, inbox, phase>>
  /\ UNCHANGED <<container, outbox, inFlight, proc, state, child, intakeClosed, startVars,
                 stopVars, chain, active, toolResult, brokerPc, brokerStop, terminalFailure,
                 answer>>

-----------------------------------------------------------------------------
(* stop                                                                    *)

\* stop begins; from then on no connection is accepted.
StopBroker ==
  /\ brokerStop = "idle"
  /\ brokerStop' = "closing"
  /\ UNCHANGED <<sandboxVars, brokerPc, terminalFailure, conn, answer>>

\* failAfterListen: the server fails, says so, and stops itself.
ServerFails ==
  /\ brokerPc = "listening" /\ brokerStop = "idle"
  /\ terminalFailure' = TRUE
  /\ brokerStop' = "closing"
  /\ UNCHANGED <<sandboxVars, brokerPc, conn, answer>>

\* server.close has called back: every connection is closed.  The sandbox is
\* stopped, unless the rollback of start has done so.
ServerClosed ==
  /\ brokerStop = "closing"
  /\ \A c \in Commands : conn[c] \in {"none", "closed"}
  /\ brokerStop' = "sandbox"
  /\ IF stopPc = "idle" THEN StopSandbox ELSE UNCHANGED <<state, intakeClosed, stopPc>>
  /\ UNCHANGED <<supervisorVars, child, startVars, removeOwned, removals, toolVars,
                 brokerPc, terminalFailure, conn, answer>>

BrokerStopped ==
  /\ brokerStop = "sandbox" /\ stopPc \in {"done", "failed"}
  /\ brokerStop' = stopPc
  /\ UNCHANGED <<sandboxVars, brokerPc, terminalFailure, conn, answer>>

-----------------------------------------------------------------------------
BrokerInit ==
  /\ SandboxInit
  /\ brokerPc = "idle"
  /\ brokerStop = "idle"
  /\ terminalFailure = FALSE
  /\ conn = [c \in Commands |-> "none"]
  /\ answer = [c \in Commands |-> NoResult]

\* Steps of the supervisor, which may also hang.
ContainerStep ==
  /\ \/ ContainerDown \/ HandleFrame
     \/ \E c \in Commands : CommandLimit(c) \/ CommandClose(c)
  /\ UNCHANGED sandboxOwn

\* Steps of the host's event loop: promises, timers and events it has got.
SandboxStep ==
  \/ ChildGone \/ RouteLine \/ ReadContainerId \/ ReadinessTimeout \/ AwaitReady
  \/ RollbackStart \/ StopGrace \/ StopRemove
ToolStep == StartTool \/ CommandTimeout \/ GraceOver
ConnectionStep(c) == Reply(c) \/ RequestTimeout(c)
BrokerStep == Listen \/ RollbackListen \/ ServerClosed \/ BrokerStopped

\* One step of the broker and what is below it.
BrokerWork ==
  \/ (StartContainer \/ ContainerStep \/ SandboxStep \/ ToolStep) /\ UNCHANGED brokerOwn
  \/ BrokerStep \/ ServerFails
  \/ \E c \in Commands : ConnectionStep(c)

\* The client's steps: a tool of the worker opens a connection, sends its one
\* request, and closes the connection once it has a line of answer, or dies.
ClientStep(c) == Connect(c) \/ Ask(c) \/ Disconnect(c)

\* The launcher starts the broker once and stops it once start has returned.
Next ==
  \/ StartBroker
  \/ brokerPc \in {"listening", "failed"} /\ StopBroker
  \/ BrokerWork
  \/ \E c \in Commands : ClientStep(c)

Spec == BrokerInit /\ [][Next]_brokerVars

\* Timers fire, promises that have settled are resumed, and the runtime's
\* removal returns: the host's own steps are fair.  The container, the commands
\* in it and the client owe nothing.
FairSpec ==
  /\ Spec
  /\ WF_brokerVars(SandboxStep /\ UNCHANGED brokerOwn)
  /\ WF_brokerVars(ToolStep /\ UNCHANGED brokerOwn)
  /\ WF_brokerVars(BrokerStep)
  /\ \A c \in Commands : WF_brokerVars(ConnectionStep(c))

-----------------------------------------------------------------------------
(* Properties.                                                             *)

\* The broker and what is below it have their types.
BrokerTypeOK ==
  /\ SandboxTypeOK
  /\ brokerPc \in {"idle", "starting", "rollback", "listening", "failed"}
  /\ brokerStop \in {"idle", "closing", "sandbox", "done", "failed"}
  /\ terminalFailure \in BOOLEAN
  /\ conn \in [Commands -> {"none", "open", "asked", "replied", "closed"}]
  /\ DOMAIN answer = Commands

\* A client is answered with what its own command did: the response of a
\* command the host has given up on, which arrives while a later request waits,
\* never answers that one.
AnswerIsOwn ==
  \A c \in Commands : answer[c] # NoResult => answer[c].id = c

\* The container whose id was captured is removed by exactly one call of the
\* runtime, whichever of start's rollback, listen's rollback and stop comes
\* first, and it is gone when stop returns without an error.
OwnedRemovedOnce ==
  /\ removals <= 1
  /\ brokerStop = "done" /\ ownedContainerId => container = "removed"
  /\ brokerStop = "failed" => removals = 1 /\ container # "removed"

\* No request holds up the ones behind it for ever, though the container dies or
\* hangs with a command in it: again and again the chain of requests is empty.
ChainDrains == []<>(active = NoCommand /\ chain = <<>>)
=============================================================================
