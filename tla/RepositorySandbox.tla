------------------------- MODULE RepositorySandbox --------------------------
(***************************************************************************)
(* The host side of the sandbox: createRepositorySandbox starts one        *)
(* container, runs tool requests in it one at a time, and removes exactly  *)
(* the container it owns.  Every function is code of one event loop, and a *)
(* step is what runs between two awaits, timers or events.                 *)
(*                                                                         *)
(* stop is only called once start has settled (its callers are             *)
(* SandboxBroker.stop and the rollback of a failed listen), so the branch  *)
(* of stop that cancels a start in flight is left out.                     *)
(***************************************************************************)
EXTENDS SandboxSupervisor

VARIABLES
  state,             \* SandboxState
  child,             \* the runtime's client process: "none", "running",
                     \* "killed" (signalled), "exited"
  intakeClosed,
  ownedContainerId,  \* has the id of the container been captured?
  readySeen,         \* latch: a readiness frame was read
  ready,             \* the readiness promise: "none", "pending", "true", "false"
  startPc,           \* where doStart is
  stopPc,            \* where stop is
  removeOwned,       \* the memoized removal: "none", "ok", "failed"
  removals,          \* history: calls of the runtime to remove the container
  chain,             \* requests that wait for their turn, oldest first
  active,            \* the request with a waiter, or NoCommand
  phase,             \* of the active request: "sent", or "grace" after a cancel
  aborted,           \* requests whose signal is aborted
  toolResult         \* what runTool answered, NoResult before

sandboxOwn == <<state, child, intakeClosed, ownedContainerId, readySeen, ready,
                startPc, stopPc, removeOwned, removals, chain, active, phase,
                aborted, toolResult>>
sandboxVars == <<supervisorVars, sandboxOwn>>

NoResult == [kind |-> "none", id |-> NoCommand]
SandboxStates == {"created", "starting", "started", "stopping", "stopped", "terminal"}

startVars == <<startPc, ready, readySeen, ownedContainerId>>
stopVars == <<stopPc, removeOwned, removals>>
toolVars == <<chain, active, phase, aborted, toolResult>>

-----------------------------------------------------------------------------
(* Settling requests                                                       *)

\* finish: the active request is answered; its timers and listener are gone.
Finish(result) ==
  /\ toolResult' = IF active = NoCommand THEN toolResult
                   ELSE [toolResult EXCEPT ![active] = result]
  /\ active' = NoCommand
  /\ phase' = "sent"

\* writeFrame: nothing is written once the intake is closed.
Written(frames) == IF child = "none" \/ intakeClosed THEN inbox ELSE inbox \o frames

\* settleWaitersAndTerminal, when the client process ends or its output does:
\* whatever the sandbox was doing, it is terminal.  (What is left in the pipe
\* finds no waiter, and is dropped here.)
ChildGone ==
  /\ child = "killed" \/ (child = "running" /\ container # "up")
  /\ child' = "exited"
  /\ state' = "terminal"
  /\ intakeClosed' = TRUE
  /\ ready' = IF ready = "pending" THEN "false" ELSE ready
  /\ Finish(Failure(active))
  /\ outbox' = <<>>
  /\ UNCHANGED <<container, inbox, inFlight, proc, ownedContainerId, readySeen, startPc,
                 stopVars, chain, aborted>>

\* Mutant: a response answers whoever waits.
RouteLine_IgnoresId ==
  /\ outbox # <<>>
  /\ outbox' = Tail(outbox)
  /\ \/ /\ Head(outbox).kind = "ready"
        /\ readySeen' = TRUE
        /\ ready' = IF ready = "pending" THEN "true" ELSE ready
        /\ UNCHANGED <<active, phase, toolResult>>
     \/ /\ Head(outbox).kind # "ready"
        /\ Finish(Head(outbox))
        /\ UNCHANGED <<readySeen, ready>>
  /\ UNCHANGED <<container, inbox, inFlight, proc, state, child, intakeClosed,
                 ownedContainerId, startPc, stopVars, chain, aborted>>

\* A readiness frame sets the latch and settles the readiness promise; a
\* response settles the request with its id, and is dropped if nobody waits.
RouteLine ==
  /\ outbox # <<>>
  /\ outbox' = Tail(outbox)
  /\ \/ /\ Head(outbox).kind = "ready"
        /\ readySeen' = TRUE
        /\ ready' = IF ready = "pending" THEN "true" ELSE ready
        /\ UNCHANGED <<active, phase, toolResult>>
     \/ /\ Head(outbox).kind # "ready"
        /\ IF Head(outbox).id = active THEN Finish(Head(outbox))
           ELSE UNCHANGED <<active, phase, toolResult>>
        /\ UNCHANGED <<readySeen, ready>>
  /\ UNCHANGED <<container, inbox, inFlight, proc, state, child, intakeClosed,
                 ownedContainerId, startPc, stopVars, chain, aborted>>

\* The runtime brings the container up while its client runs.
StartContainer ==
  /\ child = "running"
  /\ ContainerUp
  /\ UNCHANGED sandboxOwn

-----------------------------------------------------------------------------
(* removeOwnedOnce                                                         *)

\* What the memoized removal has come to once the step that awaits it is over:
\* "ok" also without an id (nothing is owned), or when an earlier caller has
\* removed the container.
RemovalOutcomes ==
  IF removeOwned # "none" THEN {removeOwned}
  ELSE IF ownedContainerId THEN {"ok", "failed"} ELSE {"none"}

\* Mutant: the removal is not memoized.
RemoveOwnedOnce_Again(outcome) ==
  /\ outcome \in IF ownedContainerId THEN {"ok", "failed"} ELSE {"none"}
  /\ removeOwned' = outcome
  /\ removals' = IF ownedContainerId THEN removals + 1 ELSE removals
  /\ container' = IF outcome = "ok" THEN "removed" ELSE container
  /\ proc' = IF outcome = "ok"
             THEN [c \in Commands |-> IF proc[c] = "none" THEN "none" ELSE "closed"]
             ELSE proc
  /\ inFlight' = IF outcome = "ok" THEN NoCommand ELSE inFlight
  /\ inbox' = IF outcome = "ok" THEN <<>> ELSE inbox

RemoveOwnedOnce(outcome) ==
  /\ outcome \in RemovalOutcomes
  /\ removeOwned' = outcome
  /\ IF removeOwned = "none" /\ outcome # "none"
     THEN /\ removals' = removals + 1
          /\ container' = IF outcome = "ok" THEN "removed" ELSE container
          /\ proc' = IF outcome = "ok"
                     THEN [c \in Commands |-> IF proc[c] = "none" THEN "none" ELSE "closed"]
                     ELSE proc
          /\ inFlight' = IF outcome = "ok" THEN NoCommand ELSE inFlight
          /\ inbox' = IF outcome = "ok" THEN <<>> ELSE inbox
     ELSE UNCHANGED <<removals, container, proc, inFlight, inbox>>

-----------------------------------------------------------------------------
(* start                                                                   *)

\* doStart: the client process is spawned and the readiness promise bound, or
\* the runtime is missing.
Start ==
  /\ startPc = "idle" /\ state = "created"
  /\ \/ /\ state' = "starting"
        /\ child' = "running"
        /\ ready' = "pending"
        /\ startPc' = "cid"
        /\ UNCHANGED intakeClosed
     \/ /\ state' = "terminal"
        /\ intakeClosed' = TRUE
        /\ startPc' = "failed"
        /\ UNCHANGED <<child, ready>>
  /\ UNCHANGED <<supervisorVars, readySeen, ownedContainerId, stopVars, toolVars>>

\* readContainerId finds the id in the cid file, or its deadline passes.
ReadContainerId ==
  /\ startPc = "cid"
  /\ \/ /\ container # "none"
        /\ ownedContainerId' = TRUE
        /\ startPc' = "ready"
     \/ /\ startPc' = "rollback"
        /\ UNCHANGED ownedContainerId
  /\ UNCHANGED <<supervisorVars, state, child, intakeClosed, ready, readySeen, stopVars,
                 toolVars>>

\* The readiness timer reads the latch.
ReadinessTimeout ==
  /\ startPc \in {"cid", "ready"} /\ ready = "pending"
  /\ ready' = IF readySeen THEN "true" ELSE "false"
  /\ UNCHANGED <<supervisorVars, state, child, intakeClosed, readySeen, ownedContainerId,
                 startPc, stopVars, toolVars>>

\* Ready if the promise or the latch says so, also when the supervisor has
\* gone in the meantime.
AwaitReady ==
  /\ startPc = "ready" /\ ready # "pending"
  /\ IF ready = "true" \/ readySeen
     THEN startPc' = "ok" /\ state' = "started"
     ELSE startPc' = "rollback" /\ UNCHANGED state
  /\ UNCHANGED <<supervisorVars, child, intakeClosed, ready, readySeen, ownedContainerId,
                 stopVars, toolVars>>

\* A start that failed kills the client and removes what it owns; a removal
\* that fails takes the place of the error and leaves the state as it is.
RollbackStart ==
  /\ startPc = "rollback"
  /\ \E outcome \in RemovalOutcomes :
       /\ RemoveOwnedOnce(outcome)
       /\ IF outcome = "failed" THEN UNCHANGED <<state, intakeClosed>>
          ELSE state' = "terminal" /\ intakeClosed' = TRUE
  /\ startPc' = "failed"
  /\ child' = "killed"
  /\ UNCHANGED <<outbox, ready, readySeen, ownedContainerId, stopPc, toolVars>>

-----------------------------------------------------------------------------
(* runTool                                                                 *)

\* The request joins the chain, or is refused by a sandbox that is not started.
RunTool(c) ==
  IF state = "started"
  THEN chain' = Append(chain, c) /\ UNCHANGED toolResult
  ELSE toolResult' = [toolResult EXCEPT ![c] = Failure(c)] /\ UNCHANGED chain

\* The next request of the chain is registered and its frame written, followed
\* by a cancel frame if its signal is already aborted.  The frame spreads the
\* request over the fresh id: a request with an id or a control of its own, which
\* neither the worker's extension nor the tool adapters send, is left out.
StartTool ==
  /\ active = NoCommand /\ chain # <<>>
  /\ active' = Head(chain)
  /\ chain' = Tail(chain)
  /\ IF Head(chain) \in aborted
     THEN /\ inbox' = Written(<<ToolFrame(Head(chain)), CancelFrame(Head(chain))>>)
          /\ phase' = "grace"
     ELSE /\ inbox' = Written(<<ToolFrame(Head(chain))>>)
          /\ phase' = "sent"
  /\ UNCHANGED <<container, outbox, inFlight, proc, state, child, intakeClosed,
                 startVars, stopVars, aborted, toolResult>>

\* The command timer of the active request cancels it and opens the grace.
CommandTimeout ==
  /\ active # NoCommand /\ phase = "sent"
  /\ inbox' = Written(<<CancelFrame(active)>>)
  /\ phase' = "grace"
  /\ UNCHANGED <<container, outbox, inFlight, proc, state, child, intakeClosed,
                 startVars, stopVars, chain, active, aborted, toolResult>>

\* Mutant: the grace also waits for the cancelled command to close.
GraceOver_AwaitsClose ==
  /\ active # NoCommand /\ phase = "grace"
  /\ proc[active] \notin {"running", "killed"}
  /\ Finish(Failure(active))
  /\ UNCHANGED <<supervisorVars, state, child, intakeClosed, startVars, stopVars, chain, aborted>>

\* The grace is over: the request is answered, whatever the command does.
GraceOver ==
  /\ active # NoCommand /\ phase = "grace"
  /\ Finish(Failure(active))
  /\ UNCHANGED <<supervisorVars, state, child, intakeClosed, startVars, stopVars, chain, aborted>>

\* onAbort: the signal of a request is aborted.
AbortTool(c) ==
  /\ aborted' = aborted \cup {c}
  /\ IF active = c
     THEN /\ inbox' = Written(<<CancelFrame(c)>>)
          /\ phase' = "grace"
     ELSE UNCHANGED <<inbox, phase>>

-----------------------------------------------------------------------------
(* stop                                                                    *)

\* A terminal sandbox only removes what it owns; another closes its intake, and
\* ends the input of a started container, which makes the supervisor exit.
StopSandbox ==
  /\ IF state \in {"stopped", "terminal"}
     THEN stopPc' = "removeOnly" /\ UNCHANGED <<state, intakeClosed>>
     ELSE /\ state' = "stopping"
          /\ intakeClosed' = TRUE
          /\ stopPc' = IF state = "started" THEN "grace" ELSE "remove"

\* The container was given its time to exit.
StopGrace ==
  /\ stopPc = "grace"
  /\ stopPc' = "remove"
  /\ UNCHANGED <<supervisorVars, state, child, intakeClosed, startVars, removeOwned,
                 removals, toolVars>>

\* Forced removal, then the waiters are settled and the error, if any, is
\* thrown to the caller of stop.
StopRemove ==
  /\ stopPc \in {"remove", "removeOnly"}
  /\ \E outcome \in RemovalOutcomes :
       /\ RemoveOwnedOnce(outcome)
       /\ stopPc' = IF outcome = "failed" THEN "failed" ELSE "done"
  /\ IF stopPc = "remove"
     THEN state' = "stopped" /\ Finish(Failure(active))
     ELSE UNCHANGED <<state, active, phase, toolResult>>
  /\ UNCHANGED <<outbox, child, intakeClosed, startVars, chain, aborted>>

SandboxInit ==
  /\ SupervisorInit
  /\ state = "created"
  /\ child = "none"
  /\ intakeClosed = FALSE
  /\ ownedContainerId = FALSE
  /\ readySeen = FALSE
  /\ ready = "none"
  /\ startPc = "idle"
  /\ stopPc = "idle"
  /\ removeOwned = "none"
  /\ removals = 0
  /\ chain = <<>>
  /\ active = NoCommand
  /\ phase = "sent"
  /\ aborted = {}
  /\ toolResult = [c \in Commands |-> NoResult]

\* Types; the request with a waiter has no answer yet.
SandboxTypeOK ==
  /\ SupervisorTypeOK
  /\ state \in SandboxStates
  /\ child \in {"none", "running", "killed", "exited"}
  /\ intakeClosed \in BOOLEAN
  /\ ownedContainerId \in BOOLEAN
  /\ readySeen \in BOOLEAN
  /\ ready \in {"none", "pending", "true", "false"}
  /\ startPc \in {"idle", "cid", "ready", "rollback", "ok", "failed"}
  /\ stopPc \in {"idle", "grace", "remove", "removeOnly", "done", "failed"}
  /\ removeOwned \in {"none", "ok", "failed"}
  /\ removals \in Nat
  /\ \A k \in DOMAIN chain : chain[k] \in Commands
  /\ active \in Commands \cup {NoCommand}
  /\ active # NoCommand => toolResult[active] = NoResult
  /\ phase \in {"sent", "grace"}
  /\ aborted \subseteq Commands
  /\ toolResult \in [Commands -> [kind : {"none", "result", "error"},
                                  id : Commands \cup {NoCommand}]]
=============================================================================
