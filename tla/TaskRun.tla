------------------------------ MODULE TaskRun -------------------------------
(***************************************************************************)
(* One run of a configured repository-bound pool (run-task.ts): an         *)
(* execution root, a manifest snapshot in it, a clone, the store, one      *)
(* attempt through the pool runtime (whose launcher is PiLauncher), the    *)
(* verification, and the evidence file.  The attempt's resources are those *)
(* of attempt-resources.ts: everything below the root but the directory of *)
(* the broker's socket.                                                    *)
(*                                                                         *)
(* External: Git, the file system, SQLite and the sandbox of the           *)
(* verification commands; each call of them may fail.                      *)
(***************************************************************************)
EXTENDS PiLauncher

VARIABLES
  runPc,        \* where the run is
  execRoot,     \* does the execution root exist?
  attempt,      \* resources of the attempt: "none", "held", "released"
  socketDir,    \* does the directory of the broker's socket exist?
  storeOpen,
  row,          \* status in the result table, or "none"
  verdict,      \* of the verification
  submitted,    \* what the runtime answered: a status or "error"
  disposition,  \* did release remove the workspace and the attempt's root?
  rmFailed,     \* history: a removal has failed
  evidence,     \* status in the evidence file, or "none"
  outcome       \* how the run returned

runOwn == <<runPc, execRoot, attempt, socketDir, storeOpen, row, verdict, submitted,
            disposition, rmFailed, evidence, outcome>>
vars == <<launcherVars, runOwn>>

Statuses == {"passed", "failed"}
runPcs == {"idle", "base", "store", "submit", "persistAttempt", "launch", "verify", "persistResult",
           "persistFailed", "release", "report", "returned"}

Goto(pc) == runPc' = pc
ReturnRun(how) == runPc' = "returned" /\ outcome' = how

\* cleanup: the store is closed and the root removed with all that is in it,
\* or its removal fails.
CleanupRun ==
  /\ storeOpen' = FALSE
  /\ \/ execRoot' = FALSE /\ creds' = "none" /\ UNCHANGED rmFailed
     \/ rmFailed' = TRUE /\ UNCHANGED execRoot /\ creds' \in {creds, "none"}

launchUnchanged == <<brokerVars, launchPc, launchResult, pi, piError, timer, cleanup>>

-----------------------------------------------------------------------------
(* Before the attempt                                                      *)

\* runConfiguredPoolTask: the root is not valid, the base does not resolve, or
\* the snapshot cannot be written; then the root is removed again.
RefuseRun ==
  /\ runPc = "idle"
  /\ ReturnRun("thrown")
  /\ UNCHANGED <<launcherVars, execRoot, attempt, socketDir, storeOpen, row, verdict,
                 submitted, disposition, rmFailed, evidence>>

\* The root has been handed to runTaskInternal, which refuses the snapshot (the
\* manifest's rules are stricter than those of the task's content) or finds no
\* place for the evidence, and returns.
RefuseManifest ==
  /\ runPc = "idle"
  /\ ReturnRun("refused")
  /\ execRoot' = TRUE
  /\ UNCHANGED <<launcherVars, attempt, socketDir, storeOpen, row, verdict, submitted,
                 disposition, rmFailed, evidence>>

\* The base commit cannot be cloned, checked out, or is not clean.
FailWorkspace ==
  /\ runPc = "idle"
  /\ ReturnRun("refused")
  /\ \/ UNCHANGED <<execRoot, rmFailed>>
     \/ execRoot' = TRUE /\ rmFailed' = TRUE
  /\ UNCHANGED <<launcherVars, attempt, socketDir, storeOpen, row, verdict, submitted,
                 disposition, evidence>>

\* The workspace is at the base commit; the first verification command is run
\* on it for information.
StartRun ==
  /\ runPc = "idle"
  /\ execRoot' = TRUE
  /\ Goto("base")
  /\ UNCHANGED <<launcherVars, attempt, socketDir, storeOpen, row, verdict, submitted,
                 disposition, rmFailed, evidence, outcome>>

\* An exception outside the runtime (of the store that is opened, or read for the
\* result the runtime has answered with): failed evidence is written, if it can
\* be, after the root is removed.
RunException ==
  /\ \/ runPc \in {"base", "store", "submit"}
     \/ runPc = "report" /\ submitted # "error"
  /\ CleanupRun
  /\ evidence' \in {"failed", "none"}
  /\ ReturnRun("failed")
  /\ UNCHANGED <<launchUnchanged, attempt, socketDir, row, verdict, submitted, disposition>>

BaseState ==
  /\ runPc = "base"
  /\ Goto("store")
  /\ UNCHANGED <<launcherVars, execRoot, attempt, socketDir, storeOpen, row, verdict,
                 submitted, disposition, rmFailed, evidence, outcome>>

\* The store is opened; the job and the launch identity are made from the manifest.
OpenStore ==
  /\ runPc = "store"
  /\ storeOpen' = TRUE
  /\ Goto("submit")
  /\ UNCHANGED <<launcherVars, execRoot, attempt, socketDir, row, verdict, submitted,
                 disposition, rmFailed, evidence, outcome>>

\* The job is submitted: allocate creates the attempt's directories and, outside
\* the execution root, the socket's.
Allocate ==
  /\ runPc = "submit"
  /\ attempt' = "held"
  /\ socketDir' = TRUE
  /\ Goto("persistAttempt")
  /\ UNCHANGED <<launcherVars, execRoot, storeOpen, row, verdict, submitted, disposition,
                 rmFailed, evidence, outcome>>

\* allocateBrokerSocket finds its root or its directory unfit, and removes the
\* directory before it throws: the runtime answers with an error.
AllocateFails ==
  /\ runPc = "submit"
  /\ submitted' = "error"
  /\ Goto("report")
  /\ UNCHANGED <<launcherVars, execRoot, attempt, socketDir, storeOpen, row, verdict,
                 disposition, rmFailed, evidence, outcome>>

-----------------------------------------------------------------------------
(* The attempt: runOne of the pool runtime                                 *)

attemptUnchanged == <<execRoot, attempt, socketDir, storeOpen, disposition, rmFailed,
                      evidence, outcome>>

PersistAttempt ==
  /\ runPc = "persistAttempt"
  /\ Goto("launch") \/ Goto("persistFailed")
  /\ UNCHANGED <<launcherVars, attemptUnchanged, row, verdict, submitted>>

LaunchWorker ==
  /\ runPc = "launch"
  /\ Launch \/ RefuseContext
  /\ UNCHANGED runOwn

LaunchReturned ==
  /\ runPc = "launch" /\ launchPc = "returned"
  /\ Goto(IF launchResult \in {"failure", "rejected"} THEN "persistFailed" ELSE "verify")
  /\ UNCHANGED <<launcherVars, attemptUnchanged, row, verdict, submitted>>

\* What the verifier looks at: how the process ended, the workspace and its one
\* commit, the fixture test and the probes in the sandbox, and other results.
VerifierChecks == {"process", "workspace", "sandbox", "conflict"}

\* The verifier's verdict.  A launch that ran into its timeout has exit code 124,
\* whatever the process ended with.
verifierStatus(checks) ==
  IF launchResult # "timedOut" /\ \A k \in VerifierChecks : checks[k]
  THEN "passed" ELSE "failed"

\* verify: the verifier's verdict on the workspace, then the verification
\* commands that are left; all of them have to pass.
Verify ==
  /\ runPc = "verify"
  /\ \/ \E checks \in [VerifierChecks -> BOOLEAN], rest \in Statuses :
          /\ verdict' = IF verifierStatus(checks) = "passed" /\ rest = "passed"
                        THEN "passed" ELSE "failed"
          /\ Goto("persistResult")
     \/ Goto("persistFailed") /\ UNCHANGED verdict
  /\ UNCHANGED <<launcherVars, attemptUnchanged, row, submitted>>

\* recordResult stores the row, or throws, before the row is committed or after
\* it (the audit record is written last).
PersistResult ==
  /\ runPc = "persistResult"
  /\ \/ row' = verdict /\ submitted' = verdict /\ Goto("release")
     \/ row' \in {row, verdict} /\ UNCHANGED submitted /\ Goto("persistFailed")
  /\ UNCHANGED <<launcherVars, attemptUnchanged, verdict>>

\* persistFailed: a failed row is stored, unless there is one or it cannot be; the
\* runtime answers with an error either way.
PersistFailed ==
  /\ runPc = "persistFailed"
  /\ row' \in (IF row = "none" THEN {"none", "failed"} ELSE {row})
  /\ submitted' = "error"
  /\ Goto("release")
  /\ UNCHANGED <<launcherVars, attemptUnchanged, verdict>>

\* Mutant: the directory of the socket, outside the attempt's root, is kept.
Release_KeepsSocket ==
  /\ runPc = "release"
  /\ attempt' = "released"
  /\ disposition' = TRUE
  /\ creds' = "none"
  /\ Goto("report")
  /\ UNCHANGED <<launchUnchanged, execRoot, storeOpen, row, verdict, submitted, evidence,
                 outcome, socketDir, rmFailed>>

\* release: session, runtime directory (with what the launcher left in it),
\* workspace, attempt root and socket directory are removed, as far as they can be.
Release ==
  /\ runPc = "release"
  /\ attempt' = "released"
  /\ \E rootRemoved, socketRemoved \in BOOLEAN :
       /\ disposition' = rootRemoved
       /\ creds' \in (IF rootRemoved THEN {"none"} ELSE {creds, "none"})
       /\ socketDir' = ~socketRemoved
       /\ rmFailed' = (rmFailed \/ ~rootRemoved \/ ~socketRemoved)
  /\ Goto("report")
  /\ UNCHANGED <<launchUnchanged, execRoot, storeOpen, row, verdict, submitted, evidence, outcome>>

-----------------------------------------------------------------------------
(* Evidence                                                                *)

\* Mutant: an attempt that the runtime answered without an error has passed.
EvidenceStatus_AnyVerdict == IF submitted # "error" THEN "passed" ELSE "failed"

\* The status the evidence claims.
EvidenceStatus == IF submitted = "passed" THEN "passed" ELSE "failed"

\* validateTaskRunEvidence: passed evidence needs a complete cleanup (and a
\* commit and only passed checks, which a passed result has).
ValidEvidence(status) == status = "passed" => disposition

\* The evidence is built from the stored result and what release reported; the
\* root is removed, and then the evidence is written if it is valid.
Report ==
  /\ runPc = "report"
  /\ CleanupRun
  /\ \/ /\ ValidEvidence(EvidenceStatus)
        /\ evidence' = EvidenceStatus
        /\ ReturnRun("ok")
     \/ ReturnRun("failed") /\ UNCHANGED evidence
  /\ UNCHANGED <<launchUnchanged, attempt, socketDir, row, verdict, submitted, disposition>>

-----------------------------------------------------------------------------
Init ==
  /\ LauncherInit
  /\ runPc = "idle"
  /\ execRoot = FALSE
  /\ attempt = "none"
  /\ socketDir = FALSE
  /\ storeOpen = FALSE
  /\ row = "none"
  /\ verdict = "failed"
  /\ submitted = "none"
  /\ disposition = FALSE
  /\ rmFailed = FALSE
  /\ evidence = "none"
  /\ outcome = "none"

RunStep ==
  \/ RefuseRun \/ RefuseManifest \/ FailWorkspace \/ StartRun \/ RunException \/ BaseState
  \/ OpenStore \/ Allocate \/ AllocateFails \/ PersistAttempt \/ LaunchWorker \/ LaunchReturned \/ Verify \/ PersistResult
  \/ PersistFailed \/ Release \/ Report

RunNext == RunStep \/ (LauncherWork /\ UNCHANGED runOwn)

RunSpec == Init /\ [][RunNext]_vars

\* The run is resumed when what it awaits has settled; Git, SQLite and the
\* verification sandbox (which has a timeout of its own) settle.
FairRunSpec == RunSpec /\ WF_vars(RunStep) /\ LauncherFairness

-----------------------------------------------------------------------------
(* Properties.                                                             *)

\* The run and everything below it have their types; a run has an outcome
\* exactly when it has returned.
RunTypeOK ==
  /\ LauncherTypeOK
  /\ runPc \in runPcs
  /\ {execRoot, socketDir, storeOpen, disposition, rmFailed} \subseteq BOOLEAN
  /\ attempt \in {"none", "held", "released"}
  /\ row \in Statuses \cup {"none"}
  /\ verdict \in Statuses
  /\ submitted \in Statuses \cup {"error", "none"}
  /\ evidence \in Statuses \cup {"none"}
  /\ outcome \in {"none", "thrown", "refused", "failed", "ok"}
  /\ runPc = "returned" <=> outcome # "none"

\* The worker's process and its container are over when the verification reads
\* the workspace, and the removal of its credentials has been tried: launch has
\* waited for cleanup, which has waited for the last connection and the removal of
\* the container.  What may be left is a container the runtime failed to remove, a
\* process that SIGKILL has not ended yet, and credentials whose files the file
\* system refused to remove (launch does not say so, and does not try again).
VerifiedAtRest ==
  runPc = "verify" =>
    /\ container # "up" \/ removeOwned = "failed"
    /\ pi = "dead" \/ timer = "completion"
    /\ creds # "held"

\* Whichever way the attempt ended (also when launch threw past its cleanup),
\* what it held on the host is released when the run returns: no open store, no
\* credentials, no socket directory and, unless the run was refused at the start,
\* no execution root (what the file system refused to remove stays).  It says
\* nothing of the broker and its container, which stay up when spawn throws.
NothingHeld ==
  runPc = "returned" =>
    /\ ~storeOpen
    /\ attempt # "held"
    /\ creds # "none" \/ socketDir => rmFailed
    /\ execRoot => rmFailed \/ outcome = "refused"

\* Evidence that says passed stands for a stored result that passed, verified
\* after a worker that ended within its time (not one that was still writing when
\* the timeout came), whose workspace and session were removed.
EvidenceIsTrue ==
  evidence = "passed" =>
    /\ row = "passed" /\ verdict = "passed"
    /\ launchResult = "exited"
    /\ disposition

\* A run that has started returns, though the worker hangs, the broker fails
\* under it or its container cannot be removed.
RunReturns == []<>(runPc \in {"idle", "returned"})
=============================================================================
