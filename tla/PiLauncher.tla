----------------------------- MODULE PiLauncher -----------------------------
(***************************************************************************)
(* One launch of the worker (createPoolProofPiLauncher): checks, provider  *)
(* credentials in the attempt's runtime directory, the broker, the Pi      *)
(* process under a timeout, and one memoized cleanup that every way to end *)
(* shares.                                                                 *)
(*                                                                         *)
(* External: the Pi process, which may exit, hang or fail to spawn.  The   *)
(* content of the context, the contract and the prompts is not modelled;   *)
(* whether the checks on them succeed is a choice.                         *)
(***************************************************************************)
EXTENDS SandboxBroker

VARIABLES
  launchPc,      \* where launch is
  launchResult,  \* what it settled with: "none", "failure" (an ExecutionFailure),
                 \* "rejected", or the end of the process: "exited", "timedOut"
  creds,         \* provider credentials in the runtime directory: "none", "held", or
                 \* "left" (their removal was tried and failed, and is not tried again)
  pi,            \* the process: "none", "running", "dead"
  piError,       \* did the process fail to spawn (an 'error' event)?
  timer,         \* "armed", then "term" and "kill" (signals sent), "completion"
  cleanup        \* the memoized cleanup: "none", "running", "done"

launcherOwn == <<launchPc, launchResult, creds, pi, piError, timer, cleanup>>
launcherVars == <<brokerVars, launcherOwn>>

Return(result) == launchPc' = "returned" /\ launchResult' = result

-----------------------------------------------------------------------------
(* Before the process                                                      *)

\* The context is stale, replayed or not of this attempt, or its contract or the
\* Pi digest is not the expected one.
RefuseContext ==
  /\ launchPc = "idle"
  /\ Return("failure")
  /\ UNCHANGED <<brokerVars, creds, pi, piError, timer, cleanup>>

\* Context and contract are frozen; then the package and the profile are read
\* again, which is an await.
Launch ==
  /\ launchPc = "idle"
  /\ launchPc' = "verifying"
  /\ UNCHANGED <<brokerVars, launchResult, creds, pi, piError, timer, cleanup>>

\* The profile has changed or is not a worker's: nothing was written yet.
RefuseProfile ==
  /\ launchPc = "verifying"
  /\ Return("failure")
  /\ UNCHANGED <<brokerVars, creds, pi, piError, timer, cleanup>>

\* The launcher context is written and the selected provider's entry copied
\* from the operator's files, which may not parse.  After that the workspace
\* cannot be prepared (the copies are removed), or the broker cannot be created
\* (they are not).
FailPreparation ==
  /\ launchPc = "verifying"
  /\ \/ Return("rejected") /\ UNCHANGED creds
     \/ Return("failure") /\ creds' \in {"none", "left"}
     \/ Return("rejected") /\ creds' = "held"
  /\ UNCHANGED <<brokerVars, pi, piError, timer, cleanup>>

\* Everything is in place and the broker is started.
PrepareBroker ==
  /\ launchPc = "verifying"
  /\ creds' \in {"none", "held"}
  /\ launchPc' = "brokerStart"
  /\ StartBroker
  /\ UNCHANGED <<launchResult, pi, piError, timer, cleanup>>

\* removeProviderAuth, which is called once and swallows what the file system
\* refuses.
removeProviderAuth == creds' \in (IF creds = "held" THEN {"none", "left"} ELSE {creds})

\* A broker that does not start is stopped, and launch rejects.
RollbackBroker ==
  /\ launchPc = "brokerStart" /\ brokerPc = "failed"
  /\ removeProviderAuth
  /\ launchPc' = "brokerRollback"
  /\ StopBroker
  /\ UNCHANGED <<launchResult, pi, piError, timer, cleanup>>

\* Mutant: the error of the broker is swallowed with the one of its stop.
BrokerRolledBack_NoResult ==
  /\ launchPc = "brokerRollback" /\ brokerStop \in {"done", "failed"}
  /\ launchPc' = "returned"
  /\ UNCHANGED <<brokerVars, launchResult, creds, pi, piError, timer, cleanup>>

BrokerRolledBack ==
  /\ launchPc = "brokerRollback" /\ brokerStop \in {"done", "failed"}
  /\ Return("rejected")
  /\ UNCHANGED <<brokerVars, creds, pi, piError, timer, cleanup>>

\* Pi is spawned; the error of a spawn that fails arrives as an event, or is
\* thrown (when the system is out of memory), past every cleanup.
SpawnPi ==
  /\ launchPc = "brokerStart" /\ brokerPc = "listening"
  /\ \/ pi' = "running" /\ launchPc' = "running" /\ UNCHANGED <<launchResult, piError>>
     \/ pi' = "dead" /\ piError' = TRUE /\ launchPc' = "running" /\ UNCHANGED launchResult
     \/ Return("rejected") /\ UNCHANGED <<pi, piError>>
  /\ timer' = "armed"
  /\ UNCHANGED <<brokerVars, creds, cleanup>>

-----------------------------------------------------------------------------
(* The process                                                             *)

PiExit ==
  /\ pi = "running"
  /\ pi' = "dead"
  /\ UNCHANGED <<brokerVars, launchPc, launchResult, creds, piError, timer, cleanup>>

\* A connection needs a live process to open it, and closes with the process.
PiRequest(c) ==
  /\ \/ pi = "running" /\ (Connect(c) \/ Disconnect(c))
     \/ Ask(c)
  /\ UNCHANGED launcherOwn
PiGone(c) ==
  /\ pi = "dead"
  /\ Disconnect(c)
  /\ UNCHANGED launcherOwn

\* cleanup, memoized: the removal of the credentials comes first, then the
\* broker is stopped.
StartCleanup ==
  IF cleanup = "none"
  THEN /\ cleanup' = "running"
       /\ removeProviderAuth
       /\ brokerStop' = IF brokerStop = "idle" THEN "closing" ELSE brokerStop
  ELSE UNCHANGED <<cleanup, creds, brokerStop>>

cleanupUnchanged == <<sandboxVars, brokerPc, terminalFailure, conn, answer>>

\* The timeout sends SIGTERM, and SIGKILL ten seconds later.  It may still come
\* before the exit event of a process that is dead, which clears the first timer
\* and leaves the second.  (Once the broker has failed, cleanup does not show
\* whether that event has come.)
LaunchTimeout ==
  /\ launchPc = "running"
  /\ \/ /\ timer = "armed" /\ timer' = "term"
        /\ pi = "running" \/ cleanup = "none" \/ terminalFailure
     \/ timer = "term" /\ timer' = "kill"
  /\ UNCHANGED <<brokerVars, launchPc, launchResult, creds, pi, piError, cleanup>>

\* Twenty-five seconds after the timeout launch no longer waits for the exit of
\* the process, only for cleanup.
CompletionTimeout ==
  /\ launchPc = "running" /\ timer = "kill"
  /\ timer' = "completion"
  /\ StartCleanup
  /\ UNCHANGED <<cleanupUnchanged, launchPc, launchResult, pi, piError>>

\* The exit or error event of the process starts cleanup, and so does a broker
\* that fails while the process runs.
BeginCleanup ==
  /\ launchPc = "running" /\ cleanup = "none"
  /\ pi = "dead" \/ terminalFailure
  /\ StartCleanup
  /\ UNCHANGED <<cleanupUnchanged, launchPc, launchResult, pi, piError, timer>>

\* Mutant: cleanup fails when the broker's stop does.
CleanupDone_OnlyOk ==
  /\ cleanup = "running" /\ brokerStop = "done"
  /\ cleanup' = "done"
  /\ UNCHANGED <<brokerVars, launchPc, launchResult, creds, pi, piError, timer>>

\* cleanup never rejects: a stop that failed ends it too.
CleanupDone ==
  /\ cleanup = "running" /\ brokerStop \in {"done", "failed"}
  /\ cleanup' = "done"
  /\ UNCHANGED <<brokerVars, launchPc, launchResult, creds, pi, piError, timer>>

\* Mutant: launch settles without waiting for cleanup.
Settle_NoWait ==
  /\ launchPc = "running" /\ cleanup # "none"
  /\ pi = "dead" \/ timer = "completion"
  /\ Return(IF piError THEN "rejected" ELSE IF timer = "armed" THEN "exited" ELSE "timedOut")
  /\ UNCHANGED <<brokerVars, creds, pi, piError, timer, cleanup>>

\* After cleanup launch settles: the process has ended, or its time has.
Settle ==
  /\ launchPc = "running" /\ cleanup = "done"
  /\ pi = "dead" \/ timer = "completion"
  /\ Return(IF piError THEN "rejected" ELSE IF timer = "armed" THEN "exited" ELSE "timedOut")
  /\ UNCHANGED <<brokerVars, creds, pi, piError, timer, cleanup>>

-----------------------------------------------------------------------------
LauncherInit ==
  /\ BrokerInit
  /\ launchPc = "idle"
  /\ launchResult = "none"
  /\ creds = "none"
  /\ pi = "none"
  /\ piError = FALSE
  /\ timer = "armed"
  /\ cleanup = "none"

LauncherStep ==
  \/ RefuseProfile \/ FailPreparation \/ PrepareBroker \/ RollbackBroker
  \/ BrokerRolledBack \/ SpawnPi \/ LaunchTimeout \/ CompletionTimeout \/ BeginCleanup
  \/ CleanupDone \/ Settle

\* Everything that happens below the caller of launch.
LauncherWork ==
  \/ LauncherStep \/ PiExit
  \/ BrokerWork /\ UNCHANGED launcherOwn
  \/ \E c \in Commands : PiRequest(c) \/ PiGone(c)

\* The host's steps are fair, and so is what the kernel owes it: a process that
\* was sent SIGKILL dies, and a dead process's connections are closed.
LauncherFairness ==
  /\ WF_launcherVars(LauncherStep)
  /\ WF_launcherVars(SandboxStep /\ UNCHANGED <<brokerOwn, launcherOwn>>)
  /\ WF_launcherVars(ToolStep /\ UNCHANGED <<brokerOwn, launcherOwn>>)
  /\ WF_launcherVars(BrokerStep /\ UNCHANGED launcherOwn)
  /\ \A c \in Commands : WF_launcherVars(ConnectionStep(c) /\ UNCHANGED launcherOwn)
  /\ WF_launcherVars(timer \in {"kill", "completion"} /\ PiExit)
  /\ \A c \in Commands : WF_launcherVars(PiGone(c))

LauncherTypeOK ==
  /\ BrokerTypeOK
  /\ launchPc \in {"idle", "verifying", "brokerStart", "brokerRollback", "running", "returned"}
  /\ launchResult \in {"none", "failure", "rejected", "exited", "timedOut"}
  /\ launchPc = "returned" <=> launchResult # "none"
  /\ creds \in {"none", "held", "left"}
  /\ pi \in {"none", "running", "dead"}
  /\ piError \in BOOLEAN
  /\ timer \in {"armed", "term", "kill", "completion"}
  /\ cleanup \in {"none", "running", "done"}
=============================================================================
