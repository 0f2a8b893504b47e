--------------------------- MODULE TaskRunProofs ----------------------------
(***************************************************************************)
(* The sandbox and its broker, for any number of tool requests, and the    *)
(* run of a task above them.  The first part is about SandboxBroker by     *)
(* itself; the second shows that a task run only takes steps of the broker *)
(* that the first part allows, so that its results carry over, and proves  *)
(* what the run promises on top of them.                                   *)
(***************************************************************************)
EXTENDS TaskRun, SequenceTheorems, TLAPS

-----------------------------------------------------------------------------
(* The inductive invariant of the broker and what is below it.             *)

ToolFrames == [kind : {"tool", "cancel"}, id : Commands]
Responses == [kind : {"ready", "result", "error"}, id : Commands \cup {NoCommand}]
Results == [kind : {"none", "result", "error"}, id : Commands \cup {NoCommand}]

SupervisorOK ==
  /\ container \in {"none", "up", "down", "removed"}
  /\ inbox \in Seq(ToolFrames)
  /\ outbox \in Seq(Responses)
  /\ inFlight \in Commands \cup {NoCommand}
  /\ proc \in [Commands -> ProcStates]

HostOK ==
  /\ state \in SandboxStates
  /\ child \in {"none", "running", "killed", "exited"}
  /\ ready \in {"none", "pending", "true", "false"}
  /\ startPc \in {"idle", "cid", "ready", "rollback", "ok", "failed"}
  /\ stopPc \in {"idle", "grace", "remove", "removeOnly", "done", "failed"}
  /\ phase \in {"sent", "grace"}
  /\ aborted \subseteq Commands
  /\ brokerPc \in {"idle", "starting", "rollback", "listening", "failed"}
  /\ brokerStop \in {"idle", "closing", "sandbox", "done", "failed"}

FlagsOK ==
  /\ intakeClosed \in BOOLEAN /\ ownedContainerId \in BOOLEAN /\ readySeen \in BOOLEAN
  /\ terminalFailure \in BOOLEAN

\* A request is in the chain once, after its connection has asked, and has no
\* answer until its turn is over.
Pending(c) == conn[c] \notin {"none", "open"} /\ toolResult[c] = NoResult
RequestsOK ==
  /\ chain \in Seq(Commands)
  /\ active \in Commands \cup {NoCommand}
  /\ toolResult \in [Commands -> Results]
  /\ conn \in [Commands -> {"none", "open", "asked", "replied", "closed"}]
  /\ DOMAIN answer = Commands
  /\ \A k \in 1..Len(chain) : Pending(chain[k]) /\ chain[k] # active
  /\ \A i, j \in 1..Len(chain) : chain[i] = chain[j] => i = j
  /\ active # NoCommand => Pending(active)
  /\ \A c \in Commands : conn[c] \in {"none", "open"} => toolResult[c] = NoResult
  /\ \A c \in Commands : toolResult[c] # NoResult => toolResult[c].id = c
  /\ \A c \in Commands : answer[c] # NoResult => answer[c].id = c

\* The memoized removal: it is called for a container that is owned, once, and
\* what it came to is what stop has returned.
RemovalOK ==
  /\ removeOwned \in {"none", "ok", "failed"}
  /\ removals = IF removeOwned = "none" THEN 0 ELSE 1
  /\ removeOwned = "ok" <=> container = "removed"
  /\ stopPc = "done" /\ ownedContainerId => removeOwned = "ok"
  /\ stopPc = "failed" => removeOwned = "failed"

\* The order of start and stop: the sandbox is stopped after start has settled,
\* and a sandbox that is up has an id.
PhasesOK ==
  /\ startPc \in {"ready", "ok"} => ownedContainerId
  /\ brokerPc \in {"idle", "starting"} => stopPc = "idle"
  /\ brokerPc = "listening" => startPc = "ok"
  /\ brokerPc \in {"rollback", "failed"} => startPc \in {"ok", "failed"}
  /\ stopPc # "idle" => startPc \in {"ok", "failed"}
  /\ brokerStop # "idle" => brokerPc \in {"listening", "failed"}
  /\ brokerStop \in {"done", "failed"} => stopPc = brokerStop

BrokerInv ==
  /\ SupervisorOK
  /\ HostOK
  /\ FlagsOK
  /\ RequestsOK
  /\ RemovalOK
  /\ PhasesOK

-----------------------------------------------------------------------------
(* The inductive invariant of a task run.                                  *)

\* The launcher's cleanup tries to remove the credentials and stops a broker that has
\* listened; a process that was waited for ends before launch does.
LauncherOK ==
  /\ launchPc \in {"idle", "verifying", "brokerStart", "brokerRollback", "running", "returned"}
  /\ launchResult \in {"none", "failure", "rejected", "exited", "timedOut"}
  /\ launchPc = "returned" <=> launchResult # "none"
  /\ creds \in {"none", "held", "left"} /\ piError \in BOOLEAN
  /\ pi \in {"none", "running", "dead"}
  /\ timer \in {"armed", "term", "kill", "completion"}
  /\ cleanup \in {"none", "running", "done"}
  /\ launchPc \in {"idle", "verifying"} => creds = "none"
  /\ launchPc = "running" => brokerPc = "listening"
  /\ cleanup # "none" => creds # "held" /\ brokerPc = "listening" /\ brokerStop # "idle"
                         /\ launchPc \in {"running", "returned"}
  /\ cleanup = "done" => brokerStop \in {"done", "failed"}
  /\ launchResult \in {"exited", "timedOut"} =>
       cleanup = "done" /\ (pi = "dead" \/ timer = "completion")

RunTypes ==
  /\ runPc \in runPcs
  /\ execRoot \in BOOLEAN /\ socketDir \in BOOLEAN /\ storeOpen \in BOOLEAN
  /\ disposition \in BOOLEAN /\ rmFailed \in BOOLEAN
  /\ attempt \in {"none", "held", "released"}
  /\ row \in Statuses \cup {"none"}
  /\ verdict \in Statuses
  /\ submitted \in Statuses \cup {"error", "none"}
  /\ evidence \in Statuses \cup {"none"}
  /\ outcome \in {"none", "thrown", "refused", "failed", "ok"}
  /\ runPc = "returned" <=> outcome # "none"

\* What the run holds at each position.
BeforeAttempt == {"idle", "base", "store", "submit"}
HoldsAttempt ==
  {"persistAttempt", "launch", "verify", "persistResult", "persistFailed", "release"}
HoldingOK ==
  /\ runPc \in BeforeAttempt \cup {"persistAttempt"} => launchPc = "idle"
  /\ runPc \in BeforeAttempt => attempt = "none" /\ socketDir = FALSE
  /\ attempt = "held" => runPc \in HoldsAttempt
  /\ runPc # "launch" => launchPc \in {"idle", "returned"}
  /\ storeOpen => runPc \in HoldsAttempt \cup {"submit", "report"}
  /\ runPc = "idle" => execRoot = FALSE
  /\ runPc = "report" \/ runPc = "returned" => (creds # "none" \/ socketDir => rmFailed)
  /\ runPc = "returned" => (execRoot => rmFailed \/ outcome = "refused")

\* What is known of the worker when a verdict is given, stored and reported.
VerdictOK ==
  /\ runPc = "verify" => launchResult \in {"exited", "timedOut"}
  /\ verdict = "passed" => launchResult = "exited"
  /\ submitted = "passed" => row = "passed" /\ verdict = "passed"
  /\ submitted # "none" => runPc \in {"release", "report", "returned"}
  /\ evidence # "none" => runPc = "returned"
  /\ evidence = "passed" => submitted = "passed" /\ disposition

RunInv ==
  /\ BrokerInv
  /\ LauncherOK
  /\ RunTypes
  /\ HoldingOK
  /\ VerdictOK

-----------------------------------------------------------------------------
(* The supervisor's queues and processes.                                  *)

LEMMA FrameTypes ==
  /\ ReadyFrame \in Responses
  /\ \A c \in Commands : /\ ToolFrame(c) \in ToolFrames /\ CancelFrame(c) \in ToolFrames
                         /\ Result(c) \in Responses /\ Failure(c) \in Responses
  /\ \A f \in ToolFrames : f.id \in Commands
BY DEF ReadyFrame, Responses, ToolFrame, CancelFrame, ToolFrames, Result, Failure

\* Frames that are written are typed, and a kill changes one process.
LEMMA QueueTypes ==
  ASSUME SupervisorOK
  PROVE  /\ \A f \in ToolFrames : Written(<<f>>) \in Seq(ToolFrames)
         /\ \A f, g \in ToolFrames : Written(<<f, g>>) \in Seq(ToolFrames)
         /\ inbox # <<>> => Tail(inbox) \in Seq(ToolFrames) /\ Head(inbox).id \in Commands
         /\ outbox # <<>> => Tail(outbox) \in Seq(Responses) /\ Head(outbox) \in Responses
         /\ \A r \in Responses : Append(outbox, r) \in Seq(Responses)
         /\ killInFlight \in [Commands -> ProcStates]
         /\ <<>> \in Seq(ToolFrames) /\ <<>> \in Seq(Responses)
<1>1. inbox \in Seq(ToolFrames) /\ outbox \in Seq(Responses) /\ proc \in [Commands -> ProcStates]
  BY DEF SupervisorOK
<1>2. \A f \in ToolFrames : inbox \o <<f>> \in Seq(ToolFrames)
  BY <1>1
<1>3. \A f, g \in ToolFrames : inbox \o <<f, g>> \in Seq(ToolFrames)
  BY <1>1
<1>4. inbox # <<>> => Tail(inbox) \in Seq(ToolFrames) /\ Head(inbox) \in ToolFrames
  BY <1>1
<1>5. outbox # <<>> => Tail(outbox) \in Seq(Responses) /\ Head(outbox) \in Responses
  BY <1>1
<1>6. \A r \in Responses : Append(outbox, r) \in Seq(Responses)
  BY <1>1
<1>7. killInFlight \in [Commands -> ProcStates]
  BY <1>1 DEF killInFlight, ProcStates
<1>8. <<>> \in Seq(ToolFrames) /\ <<>> \in Seq(Responses)
  BY EmptySeq
<1> QED
  BY <1>1, <1>2, <1>3, <1>4, <1>5, <1>6, <1>7, <1>8, FrameTypes DEF Written

\* The steps that leave the supervisor's side alone.
LEMMA SupervisorStep ==
  ASSUME BrokerInv, [Next]_brokerVars
  PROVE  SupervisorOK'
<1>1. SupervisorOK /\ RequestsOK
  BY DEF BrokerInv
<1>2. /\ container \in {"none", "up", "down", "removed"} /\ inbox \in Seq(ToolFrames)
      /\ outbox \in Seq(Responses) /\ inFlight \in Commands \cup {NoCommand}
      /\ proc \in [Commands -> ProcStates]
  BY <1>1 DEF SupervisorOK
<1>3. CASE UNCHANGED supervisorVars
  BY <1>1, <1>3 DEF supervisorVars, SupervisorOK
<1>4. CASE StartContainer
  BY <1>1, <1>2, <1>4, QueueTypes, FrameTypes DEF StartContainer, ContainerUp, SupervisorOK
<1>5. CASE ContainerStep
  <2>1. CASE ContainerDown
    BY <1>2, <2>1 DEF ContainerDown, SupervisorOK, ProcStates
  <2>2. CASE HandleCancel
    BY <1>1, <1>2, <2>2, QueueTypes DEF HandleCancel, SupervisorOK
  <2>3. CASE HandleFileTool
    <3>1. Head(inbox).id \in Commands /\ Tail(inbox) \in Seq(ToolFrames)
      BY <1>1, <2>3, QueueTypes DEF HandleFileTool
    <3>2. Append(outbox, Result(Head(inbox).id)) \in Seq(Responses)
      BY <1>1, <3>1, QueueTypes, FrameTypes
    <3> QED
      BY <1>2, <2>3, <3>1, <3>2 DEF HandleFileTool, SupervisorOK
  <2>4. CASE HandleBash
    <3>1. Head(inbox).id \in Commands /\ Tail(inbox) \in Seq(ToolFrames)
      BY <1>1, <2>4, QueueTypes DEF HandleBash
    <3>2. proc' \in [Commands -> ProcStates]
      BY <1>2, <2>4 DEF HandleBash, ProcStates
    <3> QED
      BY <1>2, <2>4, <3>1, <3>2 DEF HandleBash, SupervisorOK
  <2>5. CASE \E c \in Commands : CommandLimit(c)
    BY <1>1, <1>2, <2>5, QueueTypes DEF CommandLimit, SupervisorOK
  <2>6. CASE \E c \in Commands : CommandClose(c)
    <3>1. PICK c \in Commands : CommandClose(c)
      BY <2>6
    <3>2. outbox' \in Seq(Responses)
      BY <1>1, <3>1, QueueTypes, FrameTypes DEF CommandClose
    <3>3. proc' \in [Commands -> ProcStates]
      BY <1>2, <3>1 DEF CommandClose, ProcStates
    <3> QED
      BY <1>2, <3>1, <3>2, <3>3 DEF CommandClose, SupervisorOK
  <2> QED
    BY <1>5, <2>1, <2>2, <2>3, <2>4, <2>5, <2>6 DEF ContainerStep, HandleFrame
<1>6. ASSUME NEW r, RemoveOwnedOnce(r), outbox' = outbox PROVE SupervisorOK'
  <2>1. [c \in Commands |-> IF proc[c] = "none" THEN "none" ELSE "closed"]
          \in [Commands -> ProcStates]
    BY DEF ProcStates
  <2>2. proc' \in [Commands -> ProcStates] /\ container' \in {"none", "up", "down", "removed"}
        /\ inFlight' \in Commands \cup {NoCommand}
    BY <1>2, <1>6, <2>1 DEF RemoveOwnedOnce
  <2>3. inbox' = inbox \/ inbox' = <<>>
    BY <1>6 DEF RemoveOwnedOnce
  <2>4. inbox' \in Seq(ToolFrames)
    BY <1>1, <1>2, <2>3, QueueTypes
  <2> QED
    BY <1>2, <1>6, <2>2, <2>4 DEF SupervisorOK
<1>7. CASE ChildGone \/ RouteLine
  <2>1. UNCHANGED <<container, inbox, inFlight, proc>>
    BY <1>7 DEF ChildGone, RouteLine
  <2>2. outbox' = <<>> \/ (outbox # <<>> /\ outbox' = Tail(outbox))
    BY <1>7 DEF ChildGone, RouteLine
  <2>3. outbox' \in Seq(Responses)
    BY <1>1, <2>2, QueueTypes
  <2> QED
    BY <1>2, <2>1, <2>3 DEF SupervisorOK
<1>8. CASE RollbackStart \/ StopRemove
  BY <1>6, <1>8 DEF RollbackStart, StopRemove
<1>9. ASSUME UNCHANGED <<container, outbox, inFlight, proc>>, inbox' \in Seq(ToolFrames)
      PROVE  SupervisorOK'
  BY <1>2, <1>9 DEF SupervisorOK
<1>10. CASE StartTool
  <2>1. Head(chain) \in Commands
    BY <1>1, <1>10 DEF StartTool, RequestsOK
  <2>2. inbox' \in Seq(ToolFrames)
    BY <1>1, <1>10, <2>1, QueueTypes, FrameTypes DEF StartTool
  <2> QED
    BY <1>9, <1>10, <2>2 DEF StartTool
<1>11. CASE CommandTimeout
  <2>1. active \in Commands
    BY <1>1, <1>11 DEF CommandTimeout, RequestsOK
  <2>2. inbox' \in Seq(ToolFrames)
    BY <1>1, <1>11, <2>1, QueueTypes, FrameTypes DEF CommandTimeout
  <2> QED
    BY <1>9, <1>11, <2>2 DEF CommandTimeout
<1>12. CASE \E c \in Commands : RequestTimeout(c) \/ Disconnect(c)
  <2>1. PICK c \in Commands : RequestTimeout(c) \/ Disconnect(c)
    BY <1>12
  <2>2. inbox' = inbox \/ inbox' = Written(<<CancelFrame(c)>>)
    BY <2>1 DEF RequestTimeout, Disconnect, AbortTool
  <2>3. inbox' \in Seq(ToolFrames)
    BY <1>1, <1>2, <2>2, QueueTypes, FrameTypes
  <2> QED
    BY <1>9, <2>1, <2>3 DEF RequestTimeout, Disconnect
<1>13. CASE \/ ReadContainerId \/ ReadinessTimeout \/ AwaitReady \/ StopGrace \/ GraceOver
            \/ StartBroker \/ BrokerStep \/ ServerFails \/ StopBroker
            \/ \E c \in Commands : Reply(c) \/ Connect(c) \/ Ask(c)
  BY <1>3, <1>13
     DEF ReadContainerId, ReadinessTimeout, AwaitReady, StopGrace, GraceOver, StartBroker, Start,
         BrokerStep, Listen, RollbackListen, ServerClosed, BrokerStopped, ServerFails, StopBroker,
         Reply, Connect, Ask, sandboxVars
<1> QED
  BY <1>3, <1>4, <1>5, <1>7, <1>8, <1>10, <1>11, <1>12, <1>13
     DEF Next, BrokerWork, SandboxStep, ToolStep, ConnectionStep, ClientStep, brokerVars, sandboxVars

LEMMA HostStep ==
  ASSUME BrokerInv, [Next]_brokerVars
  PROVE  HostOK'
<1>1. HostOK
  BY DEF BrokerInv
<1>2. CASE UNCHANGED <<sandboxOwn, brokerPc, brokerStop, terminalFailure>>
  BY <1>1, <1>2 DEF sandboxOwn, HostOK
<1>3. CASE SandboxStep /\ UNCHANGED brokerOwn
  <2>1. CASE ChildGone
    BY <1>1, <1>3, <2>1 DEF ChildGone, Finish, stopVars, brokerOwn, HostOK, SandboxStates
  <2>2. CASE RouteLine
    BY <1>1, <1>3, <2>2 DEF RouteLine, Finish, stopVars, brokerOwn, HostOK, SandboxStates
  <2>3. CASE ReadContainerId
    BY <1>1, <1>3, <2>3 DEF ReadContainerId, stopVars, toolVars, brokerOwn, HostOK
  <2>4. CASE ReadinessTimeout
    BY <1>1, <1>3, <2>4 DEF ReadinessTimeout, stopVars, toolVars, brokerOwn, HostOK
  <2>5. CASE AwaitReady
    BY <1>1, <1>3, <2>5 DEF AwaitReady, stopVars, toolVars, brokerOwn, HostOK, SandboxStates
  <2>6. CASE RollbackStart
    BY <1>1, <1>3, <2>6 DEF RollbackStart, toolVars, brokerOwn, HostOK, SandboxStates
  <2>7. CASE StopGrace
    BY <1>1, <1>3, <2>7 DEF StopGrace, startVars, toolVars, brokerOwn, HostOK
  <2>8. CASE StopRemove
    BY <1>1, <1>3, <2>8 DEF StopRemove, Finish, startVars, brokerOwn, HostOK, SandboxStates
  <2> QED
    BY <1>3, <2>1, <2>2, <2>3, <2>4, <2>5, <2>6, <2>7, <2>8 DEF SandboxStep
<1>4. CASE ToolStep /\ UNCHANGED brokerOwn
  BY <1>1, <1>4 DEF ToolStep, StartTool, CommandTimeout, GraceOver, Finish, startVars, stopVars,
                    brokerOwn, HostOK
<1>5. CASE StartBroker
  BY <1>1, <1>5 DEF StartBroker, Start, stopVars, toolVars, HostOK, SandboxStates
<1>6. CASE BrokerStep
  <2>1. CASE Listen
    BY <1>1, <2>1 DEF Listen, StopSandbox, startVars, toolVars, HostOK, SandboxStates
  <2>2. CASE RollbackListen \/ BrokerStopped
    BY <1>1, <2>2 DEF RollbackListen, BrokerStopped, sandboxVars, sandboxOwn, HostOK
  <2>3. CASE ServerClosed
    BY <1>1, <2>3 DEF ServerClosed, StopSandbox, startVars, toolVars, HostOK, SandboxStates
  <2> QED
    BY <1>6, <2>1, <2>2, <2>3 DEF BrokerStep
<1>7. CASE ServerFails \/ StopBroker
  BY <1>1, <1>7 DEF ServerFails, StopBroker, sandboxVars, sandboxOwn, HostOK
<1>8. CASE \E c \in Commands : RequestTimeout(c) \/ Disconnect(c)
  BY <1>1, <1>8 DEF RequestTimeout, Disconnect, AbortTool, startVars, stopVars, HostOK
<1>9. CASE \E c \in Commands : Ask(c)
  BY <1>1, <1>9 DEF Ask, startVars, stopVars, HostOK
<1>10. CASE \E c \in Commands : Reply(c) \/ Connect(c)
  BY <1>2, <1>10 DEF Reply, Connect, sandboxVars
<1>11. CASE (StartContainer \/ ContainerStep) /\ UNCHANGED brokerOwn
  BY <1>2, <1>11 DEF StartContainer, ContainerStep, brokerOwn
<1> QED
  BY <1>2, <1>3, <1>4, <1>5, <1>6, <1>7, <1>8, <1>9, <1>10, <1>11
     DEF Next, BrokerWork, ConnectionStep, ClientStep, brokerVars, sandboxVars, brokerOwn

\* Flags are only ever set.
LEMMA FlagsStep ==
  ASSUME BrokerInv, [Next]_brokerVars
  PROVE  FlagsOK'
<1>1. FlagsOK
  BY DEF BrokerInv
<1> DEFINE Set(x, y) == y = x \/ y = TRUE
<1>2. /\ Set(intakeClosed, intakeClosed') /\ Set(ownedContainerId, ownedContainerId')
      /\ Set(readySeen, readySeen') /\ Set(terminalFailure, terminalFailure')
  <2>1. CASE UNCHANGED <<sandboxOwn, terminalFailure>>
    BY <2>1, Zenon DEF sandboxOwn
  <2>2. CASE SandboxStep /\ UNCHANGED brokerOwn
    BY <2>2, Zenon
       DEF SandboxStep, ChildGone, RouteLine, ReadContainerId, ReadinessTimeout, AwaitReady,
           RollbackStart, StopGrace, StopRemove, Finish, startVars, stopVars, toolVars, brokerOwn
  <2>3. CASE ToolStep /\ UNCHANGED brokerOwn
    BY <2>3, Zenon
       DEF ToolStep, StartTool, CommandTimeout, GraceOver, startVars, brokerOwn
  <2>4. CASE StartBroker
    BY <2>4, Zenon DEF StartBroker, Start
  <2>5. CASE BrokerStep
    BY <2>5, Zenon
       DEF BrokerStep, Listen, RollbackListen, ServerClosed, BrokerStopped, StopSandbox, startVars,
           sandboxVars, sandboxOwn
  <2>6. CASE ServerFails \/ StopBroker
    BY <2>6, Zenon DEF ServerFails, StopBroker, sandboxVars, sandboxOwn
  <2>7. CASE \E c \in Commands : RequestTimeout(c) \/ Disconnect(c)
    BY <2>7, Zenon DEF RequestTimeout, Disconnect, startVars
  <2>8. CASE \E c \in Commands : Ask(c)
    BY <2>8, Zenon DEF Ask, startVars
  <2>9. CASE \E c \in Commands : Reply(c) \/ Connect(c)
    BY <2>1, <2>9 DEF Reply, Connect, sandboxVars
  <2>10. CASE (StartContainer \/ ContainerStep) /\ UNCHANGED brokerOwn
    BY <2>1, <2>10 DEF StartContainer, ContainerStep, brokerOwn
  <2> QED
    BY <2>1, <2>2, <2>3, <2>4, <2>5, <2>6, <2>7, <2>8, <2>9, <2>10
       DEF Next, BrokerWork, ConnectionStep, ClientStep, brokerVars, sandboxVars, brokerOwn
<1>3. \A x, y : x \in BOOLEAN /\ Set(x, y) => y \in BOOLEAN
  BY Zenon
<1> HIDE DEF Set
<1> QED
  BY <1>1, <1>2, <1>3, Zenon DEF FlagsOK

-----------------------------------------------------------------------------
(* Requests and their answers.                                             *)

LEMMA ResultTypes ==
  /\ NoResult \in Results
  /\ \A c \in Commands : Failure(c) \in Results /\ Failure(c).id = c
  /\ \A r \in Responses : r.kind # "ready" => r \in Results
BY DEF NoResult, Results, Failure, Responses

\* finish: whoever is active gets a result with its own id.
LEMMA FinishKeeps ==
  ASSUME BrokerInv, NEW r, Finish(r), UNCHANGED <<chain, conn, answer>>,
         active # NoCommand => r \in Results /\ r.id = active
  PROVE  RequestsOK'
<1>1. RequestsOK
  BY DEF BrokerInv
<1>2. active' = NoCommand
  BY DEF Finish
<1>3. /\ toolResult' \in [Commands -> Results]
      /\ \A c \in Commands : toolResult'[c] = IF c = active THEN r ELSE toolResult[c]
  <2>1. CASE active = NoCommand
    BY <1>1, <2>1, SupervisorAssumption DEF Finish, RequestsOK
  <2>2. CASE active # NoCommand
    <3>1. toolResult' = [toolResult EXCEPT ![active] = r] /\ r \in Results /\ active \in Commands
      BY <1>1, <2>2 DEF Finish, RequestsOK
    <3> QED
      BY <1>1, <3>1 DEF RequestsOK
  <2> QED
    BY <2>1, <2>2
<1>4. \A k \in 1..Len(chain) : chain[k] \in Commands /\ chain[k] # active
  BY <1>1 DEF RequestsOK
<1>5. \A k \in 1..Len(chain') : Pending(chain[k])' /\ chain'[k] # active'
  BY <1>1, <1>2, <1>3, <1>4, SupervisorAssumption DEF RequestsOK, Pending
<1>6. \A c \in Commands : toolResult'[c] # NoResult => toolResult'[c].id = c
  BY <1>1, <1>3, SupervisorAssumption DEF RequestsOK
<1>7. \A c \in Commands : conn'[c] \in {"none", "open"} => toolResult'[c] = NoResult
  BY <1>1, <1>3, SupervisorAssumption DEF RequestsOK, Pending
<1> QED
  BY <1>1, <1>2, <1>3, <1>5, <1>6, <1>7 DEF RequestsOK

\* A change of connections and answers that takes no one back to "open".
Moved(c, to) == conn' = [conn EXCEPT ![c] = to]
Answered(c, a) == answer' = [answer EXCEPT ![c] = a]
LEMMA ConnectionKeeps ==
  ASSUME BrokerInv, UNCHANGED <<chain, active, toolResult>>,
         NEW c \in Commands, NEW to \in {"open", "replied", "closed"}, Moved(c, to),
         to = "open" => conn[c] = "none",
         UNCHANGED answer \/ \E a : Answered(c, a) /\ (a # NoResult => a.id = c)
  PROVE  RequestsOK'
<1>1. RequestsOK
  BY DEF BrokerInv
<1>2. /\ conn' \in [Commands -> {"none", "open", "asked", "replied", "closed"}]
      /\ \A d \in Commands : conn'[d] = IF d = c THEN to ELSE conn[d]
  BY <1>1 DEF RequestsOK, Moved
<1>3. \A k \in 1..Len(chain) : chain[k] \in Commands
  BY <1>1 DEF RequestsOK
<1>4. \A k \in 1..Len(chain') : Pending(chain[k])' /\ chain'[k] # active'
  BY <1>1, <1>2, <1>3 DEF RequestsOK, Pending
<1>5. active' # NoCommand => Pending(active)'
  BY <1>1, <1>2 DEF RequestsOK, Pending
<1>6. DOMAIN answer' = Commands /\ \A d \in Commands : answer'[d] # NoResult => answer'[d].id = d
  <2>1. CASE UNCHANGED answer
    BY <1>1, <2>1 DEF RequestsOK
  <2>2. ASSUME NEW a, Answered(c, a), a # NoResult => a.id = c
        PROVE  DOMAIN answer' = Commands
               /\ \A d \in Commands : answer'[d] # NoResult => answer'[d].id = d
    <3>1. /\ DOMAIN answer' = Commands
          /\ \A d \in Commands : answer'[d] = IF d = c THEN a ELSE answer[d]
      BY <1>1, <2>2 DEF RequestsOK, Answered
    <3> QED
      BY <1>1, <2>2, <3>1 DEF RequestsOK
  <2> QED
    BY <2>1, <2>2
<1>7. \A d \in Commands : conn'[d] \in {"none", "open"} => toolResult'[d] = NoResult
  BY <1>1, <1>2 DEF RequestsOK
<1> QED
  BY <1>1, <1>2, <1>4, <1>5, <1>6, <1>7 DEF RequestsOK

\* The oldest request leaves the chain and becomes the active one.
LEMMA StartToolKeeps ==
  ASSUME BrokerInv, StartTool, UNCHANGED <<conn, answer>>
  PROVE  RequestsOK'
<1>1. RequestsOK
  BY DEF BrokerInv
<1>2. /\ chain \in Seq(Commands) /\ chain # <<>> /\ active' = Head(chain) /\ chain' = Tail(chain)
      /\ UNCHANGED <<toolResult, conn, answer>>
  BY <1>1 DEF StartTool, RequestsOK
<1>3. /\ Tail(chain) \in Seq(Commands) /\ Len(Tail(chain)) = Len(chain) - 1 /\ Head(chain) = chain[1]
      /\ Len(chain) \in Nat /\ Len(chain) >= 1
      /\ \A k \in 1..Len(Tail(chain)) : Tail(chain)[k] = chain[k + 1] /\ k + 1 \in 1..Len(chain)
  BY <1>2, HeadTailProperties
<1>4. \A k \in 1..Len(chain) : Pending(chain[k])
  BY <1>1 DEF RequestsOK
<1>5. \A i, j \in 1..Len(chain) : chain[i] = chain[j] => i = j
  BY <1>1 DEF RequestsOK
<1>6. \A c \in Commands : Pending(c)' <=> Pending(c)
  BY <1>2 DEF Pending
<1>7. active' \in Commands /\ Pending(active)'
  BY <1>2, <1>3, <1>4 DEF Pending
<1>8. \A k \in 1..Len(chain') : Pending(chain[k])' /\ chain'[k] # active'
  <2> SUFFICES ASSUME NEW k \in 1..Len(Tail(chain))
               PROVE  /\ conn[Tail(chain)[k]] \notin {"none", "open"}
                      /\ toolResult[Tail(chain)[k]] = NoResult
                      /\ Tail(chain)[k] # Head(chain)
    BY <1>2 DEF Pending
  <2>1. Tail(chain)[k] = chain[k + 1] /\ k + 1 \in 1..Len(chain) /\ k + 1 # 1 /\ 1 \in 1..Len(chain)
    BY <1>3
  <2>2. chain[k + 1] # chain[1]
    BY <1>5, <2>1
  <2> QED
    BY <1>3, <1>4, <2>1, <2>2 DEF Pending
<1>9. \A i, j \in 1..Len(chain') : chain'[i] = chain'[j] => i = j
  <2> SUFFICES ASSUME NEW i \in 1..Len(Tail(chain)), NEW j \in 1..Len(Tail(chain)),
                      Tail(chain)[i] = Tail(chain)[j]
               PROVE  i = j
    BY <1>2
  <2>1. i + 1 = j + 1
    BY <1>3, <1>5
  <2> QED
    BY <1>3, <2>1
<1> QED
  BY <1>1, <1>2, <1>3, <1>7, <1>8, <1>9 DEF RequestsOK

\* A request that arrives is in nobody's chain yet.
LEMMA AskKeeps ==
  ASSUME BrokerInv, NEW c \in Commands, Ask(c)
  PROVE  RequestsOK'
<1>1. RequestsOK
  BY DEF BrokerInv
<1>2. conn[c] = "open" /\ active' = active
  BY DEF Ask
<1>3. /\ \A k \in 1..Len(chain) : chain[k] \in Commands /\ chain[k] # c /\ chain[k] # active
                                  /\ conn[chain[k]] \notin {"none", "open"}
                                  /\ toolResult[chain[k]] = NoResult
      /\ active # c
  BY <1>1, <1>2, SupervisorAssumption DEF RequestsOK, Pending
<1>4. CASE conn' = [conn EXCEPT ![c] = "replied"] /\ answer' = [answer EXCEPT ![c] = Failure(c)]
           /\ UNCHANGED <<chain, toolResult>>
  <2>1. Moved(c, "replied") /\ \E a : Answered(c, a) /\ (a # NoResult => a.id = c)
    BY <1>4, ResultTypes DEF Moved, Answered
  <2> QED
    BY <1>2, <1>4, <2>1, ConnectionKeeps
<1>5. CASE conn' = [conn EXCEPT ![c] = "asked"] /\ RunTool(c) /\ UNCHANGED answer
  <2>1. /\ conn' \in [Commands -> {"none", "open", "asked", "replied", "closed"}]
        /\ \A d \in Commands : conn'[d] = IF d = c THEN "asked" ELSE conn[d]
    BY <1>1, <1>5 DEF RequestsOK
  <2>2. CASE state = "started"
    <3>1. chain' = Append(chain, c) /\ toolResult' = toolResult
      BY <1>5, <2>2 DEF RunTool
    <3>2. toolResult[c] = NoResult
      BY <1>1, <1>2 DEF RequestsOK
    <3>3. QED
      <4>1. /\ chain' \in Seq(Commands) /\ Len(chain') = Len(chain) + 1 /\ Len(chain) \in Nat
            /\ \A k \in 1..Len(chain) : chain'[k] = chain[k]
            /\ chain'[Len(chain) + 1] = c
        BY <1>1, <3>1, AppendProperties DEF RequestsOK
      <4>2. \A k \in 1..Len(chain') : \/ k \in 1..Len(chain) /\ chain'[k] = chain[k]
                                      \/ k = Len(chain) + 1 /\ chain'[k] = c
        BY <4>1
      <4>3. \A k \in 1..Len(chain') : Pending(chain[k])' /\ chain'[k] # active'
        BY <1>2, <1>3, <2>1, <3>1, <3>2, <4>2 DEF Pending
      <4>4. \A i, j \in 1..Len(chain') : chain'[i] = chain'[j] => i = j
        <5>1. \A i, j \in 1..Len(chain) : chain[i] = chain[j] => i = j
          BY <1>1 DEF RequestsOK
        <5> QED
          BY <1>3, <4>2, <5>1
      <4>5. active' # NoCommand => Pending(active)'
        BY <1>1, <1>2, <1>3, <2>1, <3>1 DEF RequestsOK, Pending
      <4>6. \A d \in Commands : conn'[d] \in {"none", "open"} => toolResult'[d] = NoResult
        BY <1>1, <2>1, <3>1 DEF RequestsOK
      <4> QED
        BY <1>1, <1>2, <1>5, <2>1, <3>1, <4>1, <4>3, <4>4, <4>5, <4>6 DEF RequestsOK
  <2>3. CASE state # "started"
    <3>1. chain' = chain /\ toolResult' = [toolResult EXCEPT ![c] = Failure(c)]
      BY <1>5, <2>3 DEF RunTool
    <3>2. /\ toolResult' \in [Commands -> Results]
          /\ \A d \in Commands : toolResult'[d] = IF d = c THEN Failure(c) ELSE toolResult[d]
      BY <1>1, <3>1, ResultTypes DEF RequestsOK
    <3>3. \A k \in 1..Len(chain') : Pending(chain[k])' /\ chain'[k] # active'
      BY <1>2, <1>3, <2>1, <3>1, <3>2 DEF Pending
    <3>4. active' # NoCommand => Pending(active)'
      BY <1>1, <1>2, <1>3, <2>1, <3>2 DEF RequestsOK, Pending
    <3>5. \A d \in Commands : toolResult'[d] # NoResult => toolResult'[d].id = d
      BY <1>1, <3>2, ResultTypes DEF RequestsOK
    <3>6. \A d \in Commands : conn'[d] \in {"none", "open"} => toolResult'[d] = NoResult
      BY <1>1, <2>1, <3>2 DEF RequestsOK
    <3> QED
      BY <1>1, <1>2, <1>5, <2>1, <3>1, <3>2, <3>3, <3>4, <3>5, <3>6 DEF RequestsOK
  <2> QED
    BY <2>2, <2>3
<1> QED
  BY <1>4, <1>5 DEF Ask

LEMMA RequestsStep ==
  ASSUME BrokerInv, [Next]_brokerVars
  PROVE  RequestsOK'
<1>1. RequestsOK /\ SupervisorOK
  BY DEF BrokerInv
<1>2. CASE UNCHANGED <<chain, active, toolResult, conn, answer>>
  BY <1>1, <1>2 DEF RequestsOK, Pending
<1>3. ASSUME NEW r, Finish(r), UNCHANGED <<chain, conn, answer>>, r = Failure(active)
      PROVE  RequestsOK'
  BY <1>1, <1>3, FinishKeeps, ResultTypes DEF RequestsOK
<1>4. CASE SandboxStep /\ UNCHANGED brokerOwn
  <2>1. CASE ChildGone
    BY <1>3, <1>4, <2>1 DEF ChildGone, brokerOwn
  <2>2. CASE RouteLine
    <3>1. CASE UNCHANGED <<active, toolResult>>
      BY <1>2, <1>4, <2>2, <3>1 DEF RouteLine, brokerOwn
    <3>2. CASE Head(outbox).kind # "ready" /\ Head(outbox).id = active /\ Finish(Head(outbox))
      <4>1. Head(outbox) \in Results
        BY <1>1, <2>2, <3>2, QueueTypes, ResultTypes DEF RouteLine
      <4> QED
        BY <1>4, <2>2, <3>2, <4>1, FinishKeeps DEF RouteLine, brokerOwn
    <3> QED
      BY <2>2, <3>1, <3>2 DEF RouteLine
  <2>3. CASE StopRemove
    BY <1>2, <1>3, <1>4, <2>3 DEF StopRemove, brokerOwn
  <2>4. CASE ReadContainerId \/ ReadinessTimeout \/ AwaitReady \/ RollbackStart \/ StopGrace
    BY <1>2, <1>4, <2>4
       DEF ReadContainerId, ReadinessTimeout, AwaitReady, RollbackStart, StopGrace, toolVars,
           brokerOwn
  <2> QED
    BY <1>4, <2>1, <2>2, <2>3, <2>4 DEF SandboxStep
<1>5. CASE ToolStep /\ UNCHANGED brokerOwn
  <2>1. CASE StartTool
    BY <1>5, <2>1, StartToolKeeps DEF brokerOwn
  <2>2. CASE CommandTimeout
    BY <1>2, <1>5, <2>2 DEF CommandTimeout, brokerOwn
  <2>3. CASE GraceOver
    BY <1>3, <1>5, <2>3 DEF GraceOver, brokerOwn
  <2> QED
    BY <1>5, <2>1, <2>2, <2>3 DEF ToolStep
<1>6. ASSUME NEW c \in Commands, Reply(c) PROVE RequestsOK'
  <2>1. Moved(c, "replied") /\ UNCHANGED <<chain, active, toolResult>>
    BY <1>6 DEF Reply, Moved, sandboxVars, sandboxOwn
  <2>2. Answered(c, toolResult[c]) /\ (toolResult[c] # NoResult => toolResult[c].id = c)
    BY <1>1, <1>6 DEF Reply, Answered, RequestsOK
  <2> QED
    BY <2>1, <2>2, ConnectionKeeps
<1>7. ASSUME NEW c \in Commands, RequestTimeout(c) PROVE RequestsOK'
  <2>1. Moved(c, "replied") /\ UNCHANGED <<chain, active, toolResult>>
    BY <1>7 DEF RequestTimeout, Moved
  <2>2. Answered(c, Failure(c)) /\ Failure(c).id = c
    BY <1>7, ResultTypes DEF RequestTimeout, Answered
  <2> QED
    BY <2>1, <2>2, ConnectionKeeps
<1>8. ASSUME NEW c \in Commands, Disconnect(c) PROVE RequestsOK'
  <2>1. Moved(c, "closed") /\ UNCHANGED <<chain, active, toolResult, answer>>
    BY <1>8 DEF Disconnect, Moved
  <2> QED
    BY <2>1, ConnectionKeeps
<1>9. ASSUME NEW c \in Commands, Connect(c) PROVE RequestsOK'
  <2>1. Moved(c, "open") /\ conn[c] = "none" /\ UNCHANGED <<chain, active, toolResult, answer>>
    BY <1>9 DEF Connect, Moved, sandboxVars, sandboxOwn
  <2> QED
    BY <2>1, ConnectionKeeps
<1>10. CASE StartBroker \/ BrokerStep \/ ServerFails \/ StopBroker
  BY <1>2, <1>10
     DEF StartBroker, Start, BrokerStep, Listen, RollbackListen, ServerClosed, BrokerStopped,
         ServerFails, StopBroker, toolVars, sandboxVars, sandboxOwn
<1>11. CASE (StartContainer \/ ContainerStep) /\ UNCHANGED brokerOwn
  BY <1>2, <1>11 DEF StartContainer, ContainerStep, sandboxOwn, brokerOwn
<1>12. CASE UNCHANGED brokerVars
  BY <1>2, <1>12 DEF brokerVars, sandboxVars, sandboxOwn, brokerOwn
<1> QED
  BY <1>4, <1>5, <1>6, <1>7, <1>8, <1>9, <1>10, <1>11, <1>12, AskKeeps
     DEF Next, BrokerWork, ConnectionStep, ClientStep

-----------------------------------------------------------------------------
(* Start, stop and the removal.                                            *)

\* Only two steps remove the container, and only one changes what start owns.
LEMMA RemovalFrame ==
  ASSUME BrokerInv, [Next]_brokerVars
  PROVE  \/ RollbackStart
         \/ StopRemove
         \/ /\ UNCHANGED <<removeOwned, removals>>
            /\ container' = "removed" <=> container = "removed"
            /\ \/ stopPc' = stopPc
               \/ stopPc = "idle" /\ stopPc' \in {"removeOnly", "grace", "remove"}
               \/ stopPc = "grace" /\ stopPc' = "remove"
            /\ ownedContainerId' = ownedContainerId \/ startPc = "cid"
<1>1. CASE UNCHANGED <<sandboxOwn, container>>
  BY <1>1 DEF sandboxOwn
<1>2. CASE (StartContainer \/ ContainerStep) /\ UNCHANGED brokerOwn
  BY <1>2 DEF StartContainer, ContainerUp, ContainerStep, ContainerDown, HandleFrame, HandleCancel,
              HandleFileTool, HandleBash, CommandLimit, CommandClose, sandboxOwn
<1>3. CASE SandboxStep /\ UNCHANGED brokerOwn
  <2>1. CASE ChildGone
    BY <2>1 DEF ChildGone, stopVars
  <2>2. CASE RouteLine
    BY <2>2 DEF RouteLine, stopVars
  <2>3. CASE ReadContainerId \/ ReadinessTimeout \/ AwaitReady
    BY <2>3 DEF ReadContainerId, ReadinessTimeout, AwaitReady, stopVars, supervisorVars
  <2>4. CASE StopGrace
    BY <2>4 DEF StopGrace, startVars, supervisorVars
  <2> QED
    BY <1>3, <2>1, <2>2, <2>3, <2>4 DEF SandboxStep
<1>4. CASE ToolStep /\ UNCHANGED brokerOwn
  BY <1>4 DEF ToolStep, StartTool, CommandTimeout, GraceOver, startVars, stopVars, supervisorVars
<1>5. CASE StartBroker
  BY <1>5 DEF StartBroker, Start, stopVars, supervisorVars
<1>6. CASE BrokerStep
  <2>1. CASE Listen
    BY <2>1 DEF Listen, StopSandbox, startVars, supervisorVars, BrokerInv, PhasesOK
  <2>2. CASE RollbackListen \/ BrokerStopped
    BY <2>2 DEF RollbackListen, BrokerStopped, sandboxVars, sandboxOwn, supervisorVars
  <2>3. CASE ServerClosed
    BY <2>3 DEF ServerClosed, StopSandbox, startVars, supervisorVars
  <2> QED
    BY <1>6, <2>1, <2>2, <2>3 DEF BrokerStep
<1>7. CASE ServerFails \/ StopBroker
  BY <1>7 DEF ServerFails, StopBroker, sandboxVars, sandboxOwn, supervisorVars
<1>8. CASE \E c \in Commands : RequestTimeout(c) \/ Disconnect(c)
  BY <1>8 DEF RequestTimeout, Disconnect, startVars, stopVars
<1>9. CASE \E c \in Commands : Ask(c)
  BY <1>9 DEF Ask, startVars, stopVars, supervisorVars
<1>10. CASE \E c \in Commands : Reply(c) \/ Connect(c)
  BY <1>1, <1>10 DEF Reply, Connect, sandboxVars, supervisorVars
<1> QED
  BY <1>1, <1>2, <1>3, <1>4, <1>5, <1>6, <1>7, <1>8, <1>9, <1>10
     DEF Next, BrokerWork, ConnectionStep, ClientStep, brokerVars, sandboxVars, supervisorVars

LEMMA RemovalStep ==
  ASSUME BrokerInv, [Next]_brokerVars
  PROVE  RemovalOK'
<1>1. RemovalOK /\ PhasesOK
  BY DEF BrokerInv
<1>2. ASSUME NEW r, r \in RemovalOutcomes, RemoveOwnedOnce(r)
      PROVE  /\ removeOwned' = r /\ r \in {"none", "ok", "failed"}
             /\ removals' = IF r = "none" THEN 0 ELSE 1
             /\ r = "ok" <=> container' = "removed"
             /\ ownedContainerId => r # "none"
  <2>1. removeOwned' = r /\ r \in {"none", "ok", "failed"}
    BY <1>1, <1>2 DEF RemoveOwnedOnce, RemovalOutcomes, RemovalOK
  <2>2. CASE removeOwned = "none" /\ r # "none"
    BY <1>1, <1>2, <2>1, <2>2 DEF RemoveOwnedOnce, RemovalOK
  <2>3. CASE ~(removeOwned = "none" /\ r # "none")
    BY <1>1, <1>2, <2>1, <2>3 DEF RemoveOwnedOnce, RemovalOutcomes, RemovalOK
  <2>4. ownedContainerId => r # "none"
    BY <1>2 DEF RemovalOutcomes
  <2> QED
    BY <2>1, <2>2, <2>3, <2>4
<1>3. CASE RollbackStart
  <2>1. PICK r \in RemovalOutcomes : RemoveOwnedOnce(r)
    BY <1>3 DEF RollbackStart
  <2>2. stopPc' = stopPc /\ stopPc = "idle"
    BY <1>1, <1>3 DEF RollbackStart, PhasesOK
  <2> QED
    BY <1>2, <2>1, <2>2 DEF RemovalOK
<1>4. CASE StopRemove
  <2>1. PICK r \in RemovalOutcomes :
          RemoveOwnedOnce(r) /\ stopPc' = IF r = "failed" THEN "failed" ELSE "done"
    BY <1>4 DEF StopRemove
  <2>2. ownedContainerId' = ownedContainerId
    BY <1>4 DEF StopRemove, startVars
  <2> QED
    BY <1>2, <2>1, <2>2 DEF RemovalOK
<1>5. CASE /\ UNCHANGED <<removeOwned, removals>>
           /\ container' = "removed" <=> container = "removed"
           /\ \/ stopPc' = stopPc
              \/ stopPc = "idle" /\ stopPc' \in {"removeOnly", "grace", "remove"}
              \/ stopPc = "grace" /\ stopPc' = "remove"
           /\ ownedContainerId' = ownedContainerId \/ startPc = "cid"
  <2>1. stopPc' = "done" /\ ownedContainerId' => stopPc = "done" /\ ownedContainerId
    BY <1>1, <1>5 DEF PhasesOK
  <2>2. stopPc' = "failed" => stopPc = "failed"
    BY <1>5
  <2> QED
    BY <1>1, <1>5, <2>1, <2>2 DEF RemovalOK
<1> QED
  BY <1>3, <1>4, <1>5, RemovalFrame

\* One step moves one of start, the broker's start, its stop and the sandbox's
\* stop, each in its order.
LEMMA PhasesStep ==
  ASSUME BrokerInv, [Next]_brokerVars
  PROVE  PhasesOK'
<1>1. PhasesOK
  BY DEF BrokerInv
<1>2. CASE UNCHANGED <<startPc, ownedContainerId, stopPc, brokerPc, brokerStop>>
  BY <1>1, <1>2 DEF PhasesOK
<1>3. CASE SandboxStep /\ UNCHANGED brokerOwn
  <2>1. CASE ChildGone
    BY <1>2, <1>3, <2>1 DEF ChildGone, stopVars, brokerOwn
  <2>2. CASE RouteLine
    BY <1>2, <1>3, <2>2 DEF RouteLine, stopVars, brokerOwn
  <2>3. CASE ReadContainerId
    BY <1>1, <1>3, <2>3 DEF ReadContainerId, stopVars, brokerOwn, PhasesOK
  <2>4. CASE ReadinessTimeout
    BY <1>2, <1>3, <2>4 DEF ReadinessTimeout, stopVars, brokerOwn
  <2>5. CASE AwaitReady
    BY <1>1, <1>3, <2>5 DEF AwaitReady, stopVars, brokerOwn, PhasesOK
  <2>6. CASE RollbackStart
    BY <1>1, <1>3, <2>6 DEF RollbackStart, brokerOwn, PhasesOK
  <2>7. CASE StopGrace
    BY <1>1, <1>3, <2>7 DEF StopGrace, startVars, brokerOwn, PhasesOK
  <2>8. CASE StopRemove
    BY <1>1, <1>3, <2>8 DEF StopRemove, startVars, brokerOwn, PhasesOK
  <2> QED
    BY <1>3, <2>1, <2>2, <2>3, <2>4, <2>5, <2>6, <2>7, <2>8 DEF SandboxStep
<1>4. CASE ToolStep /\ UNCHANGED brokerOwn
  BY <1>2, <1>4 DEF ToolStep, StartTool, CommandTimeout, GraceOver, startVars, stopVars, brokerOwn
<1>5. CASE StartBroker
  BY <1>1, <1>5 DEF StartBroker, Start, stopVars, PhasesOK
<1>6. CASE Listen
  BY <1>1, <1>6 DEF Listen, StopSandbox, startVars, PhasesOK
<1>7. CASE RollbackListen \/ BrokerStopped
  BY <1>1, <1>7 DEF RollbackListen, BrokerStopped, sandboxVars, sandboxOwn, PhasesOK
<1>8. CASE ServerClosed
  BY <1>1, <1>8 DEF ServerClosed, StopSandbox, startVars, PhasesOK
<1>9. CASE ServerFails \/ (brokerPc \in {"listening", "failed"} /\ StopBroker)
  BY <1>1, <1>9 DEF ServerFails, StopBroker, sandboxVars, sandboxOwn, PhasesOK
<1>10. CASE \E c \in Commands : RequestTimeout(c) \/ Disconnect(c)
  BY <1>2, <1>10 DEF RequestTimeout, Disconnect, startVars, stopVars
<1>11. CASE \E c \in Commands : Ask(c)
  BY <1>2, <1>11 DEF Ask, startVars, stopVars
<1>12. CASE \E c \in Commands : Reply(c) \/ Connect(c)
  BY <1>2, <1>12 DEF Reply, Connect, sandboxVars, sandboxOwn
<1>13. CASE (StartContainer \/ ContainerStep) /\ UNCHANGED brokerOwn
  BY <1>2, <1>13 DEF StartContainer, ContainerStep, brokerOwn, sandboxOwn
<1>14. CASE UNCHANGED brokerVars
  BY <1>2, <1>14 DEF brokerVars, sandboxVars, sandboxOwn, brokerOwn
<1> QED
  BY <1>3, <1>4, <1>5, <1>6, <1>7, <1>8, <1>9, <1>10, <1>11, <1>12, <1>13, <1>14
     DEF Next, BrokerWork, BrokerStep, ConnectionStep, ClientStep

LEMMA BrokerInvInit ==
  ASSUME BrokerInit
  PROVE  BrokerInv
<1>1. SupervisorOK
  BY EmptySeq DEF BrokerInit, SandboxInit, SupervisorInit, SupervisorOK, ProcStates
<1>2. HostOK
  BY DEF BrokerInit, SandboxInit, HostOK, SandboxStates
<1>3. FlagsOK
  BY DEF BrokerInit, SandboxInit, FlagsOK
<1>4. chain = <<>> /\ active = NoCommand /\ toolResult = [c \in Commands |-> NoResult]
      /\ conn = [c \in Commands |-> "none"] /\ answer = [c \in Commands |-> NoResult]
  BY DEF BrokerInit, SandboxInit
<1>5. chain \in Seq(Commands) /\ Len(chain) = 0
  BY <1>4, EmptySeq
<1>6. RequestsOK
  BY <1>4, <1>5, ResultTypes DEF RequestsOK
<1>7. RemovalOK /\ PhasesOK
  BY DEF BrokerInit, SandboxInit, SupervisorInit, RemovalOK, PhasesOK
<1> QED
  BY <1>1, <1>2, <1>3, <1>6, <1>7 DEF BrokerInv

LEMMA BrokerInvStep ==
  ASSUME BrokerInv, [Next]_brokerVars
  PROVE  BrokerInv'
BY SupervisorStep, HostStep, FlagsStep, RequestsStep, RemovalStep, PhasesStep DEF BrokerInv

LEMMA BrokerInvTypes ==
  ASSUME BrokerInv
  PROVE  BrokerTypeOK
<1>1. SupervisorTypeOK
  <2>1. SupervisorOK
    BY DEF BrokerInv
  <2>2. \A k \in DOMAIN inbox : inbox[k] \in ToolFrames
    BY <2>1 DEF SupervisorOK
  <2>3. \A k \in DOMAIN outbox : outbox[k] \in Responses
    BY <2>1 DEF SupervisorOK
  <2> QED
    BY <2>1, <2>2, <2>3 DEF SupervisorOK, SupervisorTypeOK, ToolFrames, Responses
<1>2. removals \in Nat /\ removeOwned \in {"none", "ok", "failed"}
  BY DEF BrokerInv, RemovalOK
<1>3. /\ \A k \in DOMAIN chain : chain[k] \in Commands
      /\ active \in Commands \cup {NoCommand} /\ (active # NoCommand => toolResult[active] = NoResult)
      /\ toolResult \in [Commands -> Results]
  BY DEF BrokerInv, RequestsOK, Pending
<1>4. SandboxTypeOK
  BY <1>1, <1>2, <1>3 DEF BrokerInv, HostOK, FlagsOK, SandboxTypeOK, Results
<1> QED
  BY <1>4 DEF BrokerInv, HostOK, FlagsOK, RequestsOK, BrokerTypeOK

LEMMA BrokerInvAlways == Spec => []BrokerInv
BY BrokerInvInit, BrokerInvStep, PTL DEF Spec

\* A client is only ever answered with what its own command did, or with an
\* error of its own: for any number of requests, whichever of them time out, are
\* aborted or outlive the host's patience, and however late responses are.
THEOREM AnswersAlwaysOwn == Spec => []AnswerIsOwn
<1>1. BrokerInv => AnswerIsOwn
  BY DEF BrokerInv, RequestsOK, AnswerIsOwn
<1> QED
  BY <1>1, BrokerInvAlways, PTL

\* The owned container is removed by at most one call of the runtime, and is gone
\* when stop has returned without an error.
THEOREM OwnedContainerRemovedOnce == Spec => []OwnedRemovedOnce
<1>1. BrokerInv => OwnedRemovedOnce
  BY DEF BrokerInv, RemovalOK, PhasesOK, OwnedRemovedOnce
<1> QED
  BY <1>1, BrokerInvAlways, PTL

-----------------------------------------------------------------------------
(* A task run takes the broker's steps.                                    *)

\* The cleanup of a launch stops a broker that listens, if it is not stopping.
LEMMA RunStepsBroker ==
  ASSUME RunInv, [RunNext]_vars
  PROVE  [Next]_brokerVars
<1>1. LauncherOK
  BY DEF RunInv
<1>2. CASE UNCHANGED vars
  BY <1>2 DEF vars, launcherVars
<1>3. CASE RunStep
  <2>1. UNCHANGED brokerVars
    BY <1>3
       DEF RunStep, RefuseRun, RefuseManifest, FailWorkspace, StartRun, RunException, BaseState,
           OpenStore, Allocate, AllocateFails, PersistAttempt, LaunchWorker, Launch, RefuseContext,
           LaunchReturned, Verify, PersistResult, PersistFailed, Release, Report, launcherVars,
           launchUnchanged
  <2> QED
    BY <2>1
<1>4. CASE LauncherStep
  <2>1. CASE PrepareBroker
    BY <2>1 DEF PrepareBroker, Next
  <2>2. CASE RollbackBroker
    BY <2>2 DEF RollbackBroker, Next
  <2>3. CASE CompletionTimeout \/ BeginCleanup
    <3>1. brokerPc = "listening"
      BY <1>1, <2>3 DEF CompletionTimeout, BeginCleanup, LauncherOK
    <3>2. UNCHANGED cleanupUnchanged
      BY <2>3 DEF CompletionTimeout, BeginCleanup
    <3>3. brokerStop' = brokerStop \/ (brokerStop = "idle" /\ brokerStop' = "closing")
      BY <2>3 DEF CompletionTimeout, BeginCleanup, StartCleanup
    <3>4. CASE brokerStop' = brokerStop
      BY <3>2, <3>4 DEF cleanupUnchanged, brokerVars, brokerOwn
    <3>5. CASE brokerStop = "idle" /\ brokerStop' = "closing"
      BY <3>1, <3>2, <3>5 DEF cleanupUnchanged, StopBroker, Next
    <3> QED
      BY <3>3, <3>4, <3>5
  <2>4. CASE RefuseProfile \/ FailPreparation \/ BrokerRolledBack \/ SpawnPi \/ LaunchTimeout
             \/ CleanupDone \/ Settle
    BY <2>4 DEF RefuseProfile, FailPreparation, BrokerRolledBack, SpawnPi, LaunchTimeout,
                CleanupDone, Settle
  <2> QED
    BY <1>4, <2>1, <2>2, <2>3, <2>4 DEF LauncherStep
<1>5. CASE PiExit
  BY <1>5 DEF PiExit
<1>6. CASE BrokerWork
  BY <1>6 DEF Next
<1>7. CASE \E c \in Commands : PiRequest(c) \/ PiGone(c)
  BY <1>7 DEF PiRequest, PiGone, Next, ClientStep
<1> QED
  BY <1>2, <1>3, <1>4, <1>5, <1>6, <1>7 DEF RunNext, LauncherWork

\* A broker that listens goes on doing so, and its stop goes one way.
LEMMA BrokerForward ==
  ASSUME BrokerInv, [Next]_brokerVars
  PROVE  /\ brokerPc = "listening" => brokerPc' = "listening"
         /\ brokerStop # "idle" => brokerStop' # "idle"
         /\ brokerStop \in {"done", "failed"} => brokerStop' = brokerStop
<1>1. CASE UNCHANGED <<brokerPc, brokerStop>>
  BY <1>1
<1>2. CASE BrokerStep
  BY <1>2 DEF BrokerStep, Listen, RollbackListen, ServerClosed, BrokerStopped
<1>3. CASE ServerFails \/ StopBroker
  BY <1>3 DEF ServerFails, StopBroker
<1>4. CASE StartBroker
  BY <1>4 DEF StartBroker
<1>5. CASE \E c \in Commands : ConnectionStep(c) \/ ClientStep(c)
  BY <1>1, <1>5 DEF ConnectionStep, ClientStep, Reply, RequestTimeout, Connect, Ask, Disconnect
<1>6. CASE UNCHANGED brokerOwn
  BY <1>1, <1>6 DEF brokerOwn
<1> QED
  BY <1>2, <1>3, <1>4, <1>5, <1>6 DEF Next, BrokerWork, brokerVars

-----------------------------------------------------------------------------
(* The launcher.                                                           *)

\* What a run does to the launcher's state: start it, or remove credentials.
LEMMA RunStepsLauncher ==
  ASSUME RunInv, RunStep
  PROVE  \/ runPc = "launch" /\ (Launch \/ RefuseContext)
         \/ UNCHANGED launcherVars
         \/ UNCHANGED launchUnchanged /\ creds' \in {creds, "none"}
<1>2. CASE Release
  <2>1. creds' \in {creds, "none"}
    BY <1>2 DEF Release
  <2> QED
    BY <1>2, <2>1 DEF Release
<1>3. CASE RunException \/ Report
  BY <1>3 DEF RunException, Report, CleanupRun
<1>4. CASE LaunchWorker
  BY <1>4 DEF LaunchWorker
<1> QED
  BY <1>2, <1>3, <1>4
     DEF RunStep, RefuseRun, RefuseManifest, FailWorkspace, StartRun, BaseState, OpenStore, Allocate,
         AllocateFails, PersistAttempt, LaunchReturned, Verify, PersistResult, PersistFailed

LEMMA LauncherStepKeeps ==
  ASSUME RunInv, [RunNext]_vars
  PROVE  LauncherOK'
<1>1. LauncherOK /\ BrokerInv
  BY DEF RunInv
<1>2. /\ brokerPc = "listening" => brokerPc' = "listening"
      /\ brokerStop # "idle" => brokerStop' # "idle"
      /\ brokerStop \in {"done", "failed"} => brokerStop' = brokerStop
  BY <1>1, RunStepsBroker, BrokerForward
<1>3. CASE UNCHANGED launcherOwn
  BY <1>1, <1>2, <1>3 DEF LauncherOK, launcherOwn
<1>4. CASE RunStep
  <2>1. CASE Launch \/ RefuseContext
    BY <1>1, <1>2, <2>1 DEF Launch, RefuseContext, Return, LauncherOK
  <2>2. CASE UNCHANGED launchUnchanged /\ creds' \in {creds, "none"}
    BY <1>1, <1>2, <2>2 DEF launchUnchanged, LauncherOK
  <2> QED
    BY <1>3, <1>4, <2>1, <2>2, RunStepsLauncher DEF launcherVars
<1>5. CASE LauncherStep
  <2>1. CASE RefuseProfile \/ BrokerRolledBack
    BY <1>1, <1>2, <2>1 DEF RefuseProfile, BrokerRolledBack, Return, LauncherOK
  <2>2. CASE FailPreparation
    BY <1>1, <1>2, <2>2 DEF FailPreparation, Return, LauncherOK
  <2>3. CASE PrepareBroker \/ RollbackBroker
    BY <1>1, <1>2, <2>3 DEF PrepareBroker, RollbackBroker, removeProviderAuth, LauncherOK
  <2>4. CASE SpawnPi
    BY <1>1, <1>2, <2>4 DEF SpawnPi, Return, LauncherOK
  <2>5. CASE LaunchTimeout
    BY <1>1, <1>2, <2>5 DEF LaunchTimeout, LauncherOK
  <2>6. CASE CompletionTimeout
    BY <1>1, <1>2, <2>6 DEF CompletionTimeout, StartCleanup, removeProviderAuth, LauncherOK
  <2>7. CASE BeginCleanup
    BY <1>1, <1>2, <2>7 DEF BeginCleanup, StartCleanup, removeProviderAuth, LauncherOK
  <2>8. CASE CleanupDone
    BY <1>1, <1>2, <2>8 DEF CleanupDone, LauncherOK
  <2>9. CASE Settle
    BY <1>1, <1>2, <2>9 DEF Settle, Return, LauncherOK
  <2> QED
    BY <1>5, <2>1, <2>2, <2>3, <2>4, <2>5, <2>6, <2>7, <2>8, <2>9 DEF LauncherStep
<1>6. CASE PiExit
  BY <1>1, <1>2, <1>6 DEF PiExit, LauncherOK
<1> QED
  BY <1>3, <1>4, <1>5, <1>6 DEF RunNext, LauncherWork, PiRequest, PiGone, vars, launcherVars

\* Once launch has returned, or before it is called, nothing below the run
\* changes its result or brings credentials back.
LEMMA LauncherQuiet ==
  ASSUME RunInv, LauncherWork, launchPc \in {"idle", "returned"}
  PROVE  UNCHANGED <<launchPc, launchResult, creds>>
BY DEF LauncherWork, LauncherStep, RefuseProfile, FailPreparation, PrepareBroker, RollbackBroker,
       BrokerRolledBack, SpawnPi, LaunchTimeout, CompletionTimeout, BeginCleanup, CleanupDone, Settle,
       PiExit, PiRequest, PiGone, launcherOwn

-----------------------------------------------------------------------------
(* The run.                                                                *)

\* What release and the removal of the root leave behind is on record.
LEMMA ReleaseKeeps ==
  ASSUME RunInv, Release
  PROVE  /\ disposition' \in BOOLEAN /\ socketDir' \in BOOLEAN /\ rmFailed' \in BOOLEAN
         /\ creds' # "none" \/ socketDir' => rmFailed'
         /\ rmFailed => rmFailed'
<1>1. rmFailed \in BOOLEAN
  BY DEF RunInv, LauncherOK, RunTypes
<1>2. PICK rootRemoved, socketRemoved \in BOOLEAN :
        /\ disposition' = rootRemoved
        /\ rootRemoved => creds' = "none"
        /\ socketDir' = ~socketRemoved
        /\ rmFailed' = (rmFailed \/ ~rootRemoved \/ ~socketRemoved)
  BY Zenon DEF Release
<1>3. \A x, y, z \in BOOLEAN :
        (~z) \in BOOLEAN /\ (x \/ ~y \/ ~z) \in BOOLEAN
  BY Zenon
<1>4. disposition' \in BOOLEAN /\ socketDir' \in BOOLEAN /\ rmFailed' \in BOOLEAN
  BY <1>1, <1>2, <1>3, Zenon
<1>5. (creds' # "none" \/ socketDir' => rmFailed') /\ (rmFailed => rmFailed')
  BY <1>2, Zenon
<1> QED
  BY <1>4, <1>5

LEMMA CleanupKeeps ==
  ASSUME RunInv, CleanupRun
  PROVE  /\ storeOpen' = FALSE /\ execRoot' \in BOOLEAN /\ rmFailed' \in BOOLEAN
         /\ creds' # "none" => creds # "none"
         /\ rmFailed => rmFailed'
         /\ execRoot' => rmFailed'
<1>1. rmFailed \in BOOLEAN /\ execRoot \in BOOLEAN
  BY DEF RunInv, LauncherOK, RunTypes
<1>2. storeOpen' = FALSE
  BY DEF CleanupRun
<1>3. CASE execRoot' = FALSE /\ creds' = "none" /\ UNCHANGED rmFailed
  BY <1>1, <1>2, <1>3
<1>4. CASE rmFailed' = TRUE /\ UNCHANGED execRoot /\ creds' \in {creds, "none"}
  BY <1>1, <1>2, <1>4
<1> QED
  BY <1>3, <1>4 DEF CleanupRun

LEMMA RunTypesStep ==
  ASSUME RunInv, [RunNext]_vars
  PROVE  RunTypes'
<1>1. RunTypes
  BY DEF RunInv
<1>2. CASE UNCHANGED runOwn
  BY <1>1, <1>2 DEF runOwn, RunTypes
<1>3. CASE RefuseRun \/ RefuseManifest \/ FailWorkspace \/ StartRun
  BY <1>1, <1>3 DEF RefuseRun, RefuseManifest, FailWorkspace, StartRun, ReturnRun, Goto, RunTypes,
                    runPcs
<1>4. CASE BaseState \/ OpenStore \/ Allocate \/ AllocateFails
  BY <1>1, <1>4 DEF BaseState, OpenStore, Allocate, AllocateFails, Goto, RunTypes, runPcs
<1>5. CASE PersistAttempt \/ LaunchReturned
  BY <1>1, <1>5 DEF PersistAttempt, LaunchReturned, attemptUnchanged, Goto, RunTypes, runPcs
<1>6. CASE Verify
  BY <1>1, <1>6 DEF Verify, attemptUnchanged, Goto, RunTypes, runPcs, Statuses
<1>7. CASE PersistResult \/ PersistFailed
  BY <1>1, <1>7 DEF PersistResult, PersistFailed, attemptUnchanged, Goto, RunTypes, runPcs, Statuses
<1>8. CASE Release
  BY <1>1, <1>8, ReleaseKeeps DEF Release, Goto, RunTypes, runPcs
<1>9. CASE RunException
  BY <1>1, <1>9, CleanupKeeps DEF RunException, ReturnRun, RunTypes, runPcs, Statuses
<1>10. CASE Report
  BY <1>1, <1>10, CleanupKeeps DEF Report, EvidenceStatus, ReturnRun, RunTypes, runPcs, Statuses
<1> QED
  BY <1>2, <1>3, <1>4, <1>5, <1>6, <1>7, <1>8, <1>9, <1>10
     DEF RunNext, RunStep, LaunchWorker, vars

\* The attempt and the store are released on every way out, and the credentials
\* with them, since launch has returned (or was never called) by then.
LEMMA HoldingStep ==
  ASSUME RunInv, [RunNext]_vars
  PROVE  HoldingOK'
<1>1. HoldingOK /\ LauncherOK /\ RunTypes
  BY DEF RunInv
<1>2. CASE UNCHANGED vars
  BY <1>1, <1>2 DEF vars, runOwn, launcherVars, launcherOwn, HoldingOK
<1>3. CASE LauncherWork /\ UNCHANGED runOwn
  <2>1. CASE runPc = "launch"
    BY <1>1, <1>3, <2>1 DEF runOwn, HoldingOK, BeforeAttempt, HoldsAttempt
  <2>2. CASE runPc # "launch"
    <3>1. UNCHANGED <<launchPc, creds>>
      BY <1>1, <1>3, <2>2, LauncherQuiet DEF HoldingOK
    <3> QED
      BY <1>1, <1>3, <3>1 DEF runOwn, HoldingOK
  <2> QED
    BY <2>1, <2>2
<1>4. CASE LaunchWorker
  BY <1>1, <1>4 DEF LaunchWorker, runOwn, HoldingOK, BeforeAttempt, HoldsAttempt
<1>5. CASE RefuseRun \/ RefuseManifest \/ FailWorkspace \/ StartRun
  BY <1>1, <1>5
     DEF RefuseRun, RefuseManifest, FailWorkspace, StartRun, ReturnRun, Goto, launcherVars,
         launcherOwn, HoldingOK, LauncherOK, RunTypes, BeforeAttempt, HoldsAttempt
<1>6. CASE BaseState \/ OpenStore \/ Allocate \/ AllocateFails
  BY <1>1, <1>6
     DEF BaseState, OpenStore, Allocate, AllocateFails, Goto, launcherVars, launcherOwn, HoldingOK,
         LauncherOK, RunTypes, BeforeAttempt, HoldsAttempt
<1>7. CASE PersistAttempt \/ LaunchReturned
  BY <1>1, <1>7
     DEF PersistAttempt, LaunchReturned, attemptUnchanged, Goto, launcherVars, launcherOwn, HoldingOK,
         LauncherOK, BeforeAttempt, HoldsAttempt
<1>8. CASE Verify \/ PersistResult \/ PersistFailed
  BY <1>1, <1>8
     DEF Verify, PersistResult, PersistFailed, attemptUnchanged, Goto, launcherVars, launcherOwn,
         HoldingOK, LauncherOK, BeforeAttempt, HoldsAttempt
<1>9. CASE Release
  BY <1>1, <1>9, ReleaseKeeps
     DEF Release, Goto, launchUnchanged, HoldingOK, BeforeAttempt, HoldsAttempt
<1>10. CASE RunException \/ Report
  <2>1. /\ runPc' = "returned" /\ CleanupRun
        /\ UNCHANGED <<launchPc, attempt, socketDir>>
    BY <1>10 DEF RunException, Report, ReturnRun, launchUnchanged
  <2>2. attempt # "held" /\ launchPc \in {"idle", "returned"}
    BY <1>1, <1>10 DEF RunException, Report, HoldingOK, BeforeAttempt, HoldsAttempt
  <2>3. creds # "none" \/ socketDir => rmFailed
    BY <1>1, <1>10 DEF RunException, Report, HoldingOK, LauncherOK, BeforeAttempt
  <2> QED
    BY <2>1, <2>2, <2>3, CleanupKeeps DEF HoldingOK, BeforeAttempt, HoldsAttempt
<1> QED
  BY <1>2, <1>3, <1>4, <1>5, <1>6, <1>7, <1>8, <1>9, <1>10 DEF RunNext, RunStep

\* A verdict is given on a launch that has settled; what is stored, answered and
\* written follows it in that order.
LEMMA VerdictStep ==
  ASSUME RunInv, [RunNext]_vars
  PROVE  VerdictOK'
<1>1. VerdictOK /\ HoldingOK /\ LauncherOK /\ RunTypes
  BY DEF RunInv
<1>2. CASE UNCHANGED vars
  BY <1>1, <1>2 DEF vars, runOwn, launcherVars, launcherOwn, VerdictOK
<1>3. CASE LauncherWork /\ UNCHANGED runOwn
  <2>1. CASE launchPc \in {"idle", "returned"}
    BY <1>1, <1>3, <2>1, LauncherQuiet DEF runOwn, VerdictOK
  <2>2. CASE launchPc \notin {"idle", "returned"}
    <3>1. runPc = "launch" /\ launchResult = "none"
      BY <1>1, <2>2 DEF HoldingOK, LauncherOK
    <3> QED
      BY <1>1, <1>3, <3>1 DEF runOwn, VerdictOK
  <2> QED
    BY <2>1, <2>2
<1>4. CASE LaunchWorker
  <2>1. runPc = "launch" /\ launchResult = "none"
    BY <1>1, <1>4 DEF LaunchWorker, Launch, RefuseContext, LauncherOK
  <2> QED
    BY <1>1, <1>4, <2>1 DEF LaunchWorker, runOwn, VerdictOK
<1>5. CASE RefuseRun \/ RefuseManifest \/ FailWorkspace \/ StartRun
  BY <1>1, <1>5
     DEF RefuseRun, RefuseManifest, FailWorkspace, StartRun, ReturnRun, Goto, launcherVars,
         launcherOwn, VerdictOK
<1>6. CASE BaseState \/ OpenStore \/ Allocate \/ AllocateFails
  BY <1>1, <1>6
     DEF BaseState, OpenStore, Allocate, AllocateFails, Goto, launcherVars, launcherOwn, VerdictOK
<1>7. CASE PersistAttempt \/ LaunchReturned
  BY <1>1, <1>7
     DEF PersistAttempt, LaunchReturned, attemptUnchanged, Goto, launcherVars, launcherOwn, VerdictOK,
         LauncherOK
<1>8. CASE Verify
  <2>1. /\ runPc' \in {"persistResult", "persistFailed"}
        /\ verdict' = verdict \/ verdict' = "failed" \/ launchResult # "timedOut"
    BY <1>8 DEF Verify, Goto, verifierStatus
  <2> QED
    BY <1>1, <1>8, <2>1 DEF Verify, attemptUnchanged, launcherVars, launcherOwn, VerdictOK
<1>9. CASE PersistResult \/ PersistFailed
  BY <1>1, <1>9
     DEF PersistResult, PersistFailed, attemptUnchanged, Goto, launcherVars, launcherOwn, VerdictOK
<1>10. CASE Release
  BY <1>1, <1>10 DEF Release, Goto, launchUnchanged, VerdictOK
<1>11. CASE RunException
  BY <1>1, <1>11 DEF RunException, ReturnRun, launchUnchanged, VerdictOK
<1>12. CASE Report
  BY <1>1, <1>12
     DEF Report, EvidenceStatus, ValidEvidence, ReturnRun, launchUnchanged, VerdictOK
<1> QED
  BY <1>2, <1>3, <1>4, <1>5, <1>6, <1>7, <1>8, <1>9, <1>10, <1>11, <1>12 DEF RunNext, RunStep

-----------------------------------------------------------------------------
(* The theorems about a run.                                               *)

LEMMA RunInvAlways == RunSpec => []RunInv
<1>1. Init => RunInv
  <2> SUFFICES ASSUME Init PROVE RunInv
    OBVIOUS
  <2>1. BrokerInv
    BY BrokerInvInit DEF Init, LauncherInit
  <2>2. LauncherOK
    BY DEF Init, LauncherInit, LauncherOK
  <2>3. RunTypes /\ HoldingOK /\ VerdictOK
    BY DEF Init, LauncherInit, RunTypes, runPcs, Statuses, HoldingOK, BeforeAttempt, HoldsAttempt,
           VerdictOK
  <2> QED
    BY <2>1, <2>2, <2>3 DEF RunInv
<1>2. RunInv /\ [RunNext]_vars => RunInv'
  <2> SUFFICES ASSUME RunInv, [RunNext]_vars PROVE RunInv'
    OBVIOUS
  <2>1. BrokerInv'
    BY RunStepsBroker, BrokerInvStep DEF RunInv
  <2> QED
    BY <2>1, LauncherStepKeeps, RunTypesStep, HoldingStep, VerdictStep DEF RunInv
<1> QED
  BY <1>1, <1>2, PTL DEF RunSpec

\* A task run implements the broker's specification: the launcher starts the
\* broker once, and whichever of its timers and events comes first stops it only
\* when the broker's own contract allows.
THEOREM RunImplementsBroker == RunSpec => Spec
<1>1. Init => BrokerInit
  BY DEF Init, LauncherInit
<1>2. RunInv /\ [RunNext]_vars => [Next]_brokerVars
  BY RunStepsBroker
<1> QED
  BY <1>1, <1>2, RunInvAlways, PTL DEF RunSpec, Spec

\* The run, its launcher and everything below them keep their types.
THEOREM RunTypeCorrect == RunSpec => []RunTypeOK
<1>1. RunInv => RunTypeOK
  <2> SUFFICES ASSUME RunInv PROVE RunTypeOK
    OBVIOUS
  <2>1. LauncherTypeOK
    BY BrokerInvTypes DEF RunInv, LauncherOK, LauncherTypeOK
  <2> QED
    BY <2>1 DEF RunInv, RunTypes, RunTypeOK
<1> QED
  BY <1>1, RunInvAlways, PTL

\* Whichever event ended the launch, the container is removed (unless the runtime
\* failed to), the process is over (unless SIGKILL has not ended it) and the
\* removal of the credentials has been tried before the verification reads the
\* workspace: whatever of them is left, the file system refused to remove.
THEOREM RunVerifiedAtRest == RunSpec => []VerifiedAtRest
<1>1. RunInv => VerifiedAtRest
  <2> SUFFICES ASSUME RunInv, runPc = "verify"
               PROVE  /\ container # "up" \/ removeOwned = "failed"
                      /\ pi = "dead" \/ timer = "completion"
                      /\ creds # "held"
    BY DEF VerifiedAtRest
  <2>1. cleanup = "done" /\ (pi = "dead" \/ timer = "completion")
    BY DEF RunInv, VerdictOK, LauncherOK
  <2>2. creds # "held" /\ brokerPc = "listening" /\ brokerStop \in {"done", "failed"}
    BY <2>1 DEF RunInv, LauncherOK
  <2>3. ownedContainerId /\ stopPc \in {"done", "failed"}
    BY <2>2 DEF RunInv, BrokerInv, PhasesOK
  <2>4. container = "removed" \/ removeOwned = "failed"
    BY <2>3 DEF RunInv, BrokerInv, RemovalOK
  <2> QED
    BY <2>1, <2>2, <2>4
<1> QED
  BY <1>1, RunInvAlways, PTL

\* Whichever way a run ended, nothing the file system agreed to remove is left.
THEOREM RunHoldsNothing == RunSpec => []NothingHeld
<1>1. RunInv => NothingHeld
  BY DEF RunInv, HoldingOK, BeforeAttempt, HoldsAttempt, NothingHeld
<1> QED
  BY <1>1, RunInvAlways, PTL

\* Evidence that says passed stands for a passed, stored verdict on a worker that
\* ended in time.
THEOREM RunEvidenceIsTrue == RunSpec => []EvidenceIsTrue
<1>1. RunInv => EvidenceIsTrue
  BY DEF RunInv, VerdictOK, EvidenceIsTrue
<1> QED
  BY <1>1, RunInvAlways, PTL
=============================================================================
