# A TLA+ model of agent-pool

agent-pool takes coding work from authenticated callers, turns it into works made of
nodes, and runs one worker attempt per node in a sandbox. Its durable state is one SQLite
database; everything else is process-local TypeScript on an event loop, child processes and
files. This directory models the parts where order, time and failure decide whether the
system is right. Paths below are relative to `src/`.

## The system's parts

| Part | State | Operations | What is hard | What makes it correct |
|---|---|---|---|---|
| Orchestration store (`domains/orchestration/sqlite-store.ts`, `lifecycle.ts`, `contracts.ts`) | tables: works, nodes, dependencies, attempts, leases, accepted results, completion authorizations, proof results, submissions, idempotency keys | one write transaction per method | any caller calls any method at any time with old clock readings, versions and tokens | fencing, final revocation, one accepted result per attempt, applied exactly once |
| Dispatch and reconciliation (`dispatch-service.ts`, `reconciliation.ts`, `ready-frontier.ts`, `attempt-dispatch.ts`) | a snapshot of the node records per pass; jobs in a queue | `dispatchReadyFrontier`, `reconcile`, `consumeQueueEnvelope` | stale snapshots, overlapping passes, a crash between any two awaits, lost or repeated jobs | no node before its dependencies, no lost node, verdict = accepted result |
| Scheduling policy and predicted touch (`contracts.ts`, `importPredictedTouch`) | frozen provenance and serialize rows of a work | import, query | repeated imports, drifting evidence | overlaps serialized without a circle, only by the frozen evidence |
| Direct-task intake (`composition/direct-task-service.ts` `handlePost`, `work-intake/idempotency.ts`) | submissions and idempotency rows | `POST /tasks`, `GET /tasks/{id}` | retries after a lost answer, key reuse | one work per caller and key |
| Direct-task claim loop (`direct-task-service.ts` `claimOnce`, `composition/task-runner.ts`) | proof results, a lease per attempt | `claimOnce` | overlapping calls, restarts, runs longer than their lease | one verdict per task, no second run after a verdict |
| Minimal pool runtime (`agent-execution/minimal-pool-runtime.ts`) | FIFO queue, slots, admitted ids, shutdown waiters | `submit`, `shutdown`, the end of a run | adapters that throw anywhere, lost wake-ups | order, one launch per attempt id, drained on shutdown |
| Sandbox supervisor (`profiles/pool-proof-builder/broker.mjs`) | the command it can cancel, running process groups | request and cancel frames | the close of a killed command arrives late | one response per request |
| Repository sandbox and broker (`repository-sandbox.ts`, `sandbox-broker.ts`, `trusted-bootstrap.ts`) | one container, a chain of requests, one connection per request, timers | start, `runTool`, stop, answer | container death, hang, timeouts, aborts and disconnects race | answers are a request's own, the container is removed once, no request blocks the next for ever |
| Pi launcher (`pool-proof-pi-launcher.ts`) | credentials, the child process, a memoized cleanup | launch, timeout, exit, cleanup | exit, spawn error, timeout and broker failure race | one settlement, nothing running afterwards |
| Task run and attempt resources (`packages/pool-proof-harness/src/run-task.ts`, `attempt-resources.ts`, `broker-socket.ts`) | execution root, clone, store, resources, evidence file | one configured run | any step fails | nothing held, evidence is true |
| Proof stages and retained reports (`run-stage-1.ts`, `run-stage-2.ts`, `publish-retained-report.ts`, `verify-retained-reports.ts`) | candidates, two retained reports, a manifest of hashes | both stages, publish, verify | commands die or overlap; the gate is read twice | reports that verify prove both stages |
| Index cache (`codebase-knowledge/`) | blobs and records in a directory without a lock | build, publish, evict, retrieve | the repository changes during a build, builds overlap and evict each other | a reader gets the graph of its revision's files |
| Decomposition (`work-intake/decomposition-harness.ts`, `model-router.ts` `selectForRole`) | one job | retrieve, ask, repair once | a deadline at any await | bounded calls, each with its record, and an end |
| Model routing and bootstrap, unit validation, HTTP adapter, backend fallback, retention, workspaces, verifier, hardened Git | none durable, or directories | resolve, validate, prune, verify | - | see "What is not modelled" |

They interact as follows. Intake and import write works into the store. The graph
controller and the claim loop are two clients of the store's attempt and lease methods;
each awaits every store call, so their steps interleave with each other's and with the
workers'. The claim loop runs a task through a pool runtime it creates for that task; the
runtime calls back into the store to record the proof result. The launcher is an adapter of
the pool: it starts the broker, whose socket the worker process calls; the broker starts the
sandbox, which talks to the supervisor in the container. The task run and the proof stages
are commands around the pool. Decomposition reads the index cache. Nothing but the
store, the retained reports and the cache directory survives a restart.

## The modules

* `OrchestrationStore` - the store. Variables are tables: `nodeState` and `nodeVersion` are
  columns of `nodes`, `attemptState` and `leaseGeneration` of `attempts`; `leases`, `accepted`
  and `authorizations` hold an attempt's one row or a "no row" value. Each method is one
  action (`BEGIN IMMEDIATE ... COMMIT` contains no await); its refusals are guards, because
  they write nothing. `ClaimLease` and `ReclaimLease` take a clock reading that may lie in
  the past. `grants` is a history variable: every lease ever handed to a caller. Tokens are
  fresh numbers: the code draws 32 random bytes. `ValidWork` states acyclicity directly
  where `validateWork` runs a topological sort. The audit table is left out.
  `CompleteAuthorizedResult` completes an attempt's own node: the method takes work, node and
  attempt from its caller and does not compare them, but both callers pass matching ids.
* `ResultLedger` - what the store promises, with the clock, tokens and lease rows hidden: an
  attempt has one holder at a time, only the holder decides the verdict, once, and the
  verdict is applied at most once. `OrchestrationStore` instantiates it (`Ledger`).
* `...Proofs` - the theorems about a module and the ones it extends: `OrchestrationStoreProofs`,
  `DispatchProofs` (extends the store's), `PredictedTouchProofs` (with the intake),
  `DirectTaskServiceProofs`, `MinimalPoolRuntimeProofs`, `TaskRunProofs` (with the broker and what is
  below it), `ProofStagesProofs` (with the retained reports) and `DecompositionProofs` (with the cache).
* `Dispatch` - extends the store with dispatch passes (one step per await: list, transition,
  route and create, enqueue), reconciliation (restore jobs, reclaim, complete, remove job),
  the queue and workers. The queue and the worker are outside the repository and are
  modelled from the queue port and from how the orchestration tests drive an attempt.
  Failures: a controller crash, a worker crash, a lost job, a queue call or a routing
  resolver that throws.
* `DirectTaskIntake` - extends the store with `POST /tasks`. Bodies that fail validation never
  reach the store, so a payload is its hash.
* `PredictedTouch` - extends the intake with approved decompositions and evidence on which nodes
  are likely to touch the same units. An evidence is a list and may name a node more than once,
  which `validatePredictedTouchEvidence` accepts. `classify` is the repository's policy; a node's own
  entry is its first one (`isSelf`), while every entry of another node counts.
  `ImportMatching` and `persistSchedulingDecision` are the two ways `importPredictedTouch` ends.
  `frozen` holds the `frozen_*` columns; `decisions` the serialize rows and, so that properties
  can speak of it, the evidence they came from. The approval, head and repository of an
  evidence are reduced to whether they are the work's; graph revision, manifest digest and
  algorithm version to one revision.
* `DirectTaskService` - extends the intake with `claimOnce`. A call's local variables (`now`,
  the row it picked, `nodeState`, `nodeVersion`, the lease) are a record per call. The run is:
  prepare (may throw), allocate (may fail without a proof result), launch, verify and record.
  Storing a result may throw before its row is committed or after it. Restarts cut every call
  off. `LongRuns` and `CrashAnywhere` are environment assumptions that the runs switch on and off, to
  separate what holds always from what holds only then. `launches`, `lapses` (leases that ran out
  under the call that held them) and `unconfirmed` (attempts whose result was stored by a call that
  then threw) are history variables.
* `MinimalPoolRuntime` - the pool. `submit`, `shutdown` and the end of a run are synchronous and
  so atomic; a run is split at its awaits. `schedule` is the loop over the slots in closed
  form. Storing a result may throw before or after its row was written. `RefuseSubmit` covers
  the refusals of `submit` that depend on state; a runtime with rejected adapters refuses
  every call and has no behaviour to check.
* `SandboxSupervisor`, `RepositorySandbox`, `SandboxBroker`, `PiLauncher`, `TaskRun` - a tower: each
  extends the one before it with the component that uses it, and adds its own variables
  and steps. `SandboxSupervisor` is the process in the container: frames in, frames out, and the
  one command it can cancel. `RepositorySandbox` is the host's side: `doStart` with its rollback,
  the promise chain that runs one request at a time, timeout, abort and grace, and the
  memoized removal of the container. (A request that brings an id or a control of its own, which would
  override the frame's, is left out; the worker's extension and the tool adapters send none.)
  `SandboxBroker` has a connection per request and a stop
  that waits for them. `PiLauncher` has the credentials (whose one removal swallows what the file
  system refuses), the worker process, the timers
  (SIGTERM, SIGKILL, completion) and the memoized cleanup. `TaskRun` is one run of a configured
  pool around one launch, from the execution root to the evidence file; the attempt's
  resources are part of it. A step is the code between two awaits, timers or events. The
  worker, the container and the commands in it may ask, hang, die and go away at any time.
* `RetainedReports`, `ProofStages` - the proof commands. A publication is three steps (validate
  and read the manifest, copy the file, write the manifest back) and may die or fail between them; when
  the Stage 1 command's own publication fails, its handler overwrites the candidate with a failed
  report. Publications of the two files, started by whichever operator, run beside each other. Two of
  the same file do not, although the code has no lock that keeps them apart. A hash stands for the content. `ProofStages` has Stage 1 and
  Stage 2, with each attempt reduced to the outcomes the stages tell apart, because
  `MinimalPoolRuntime` and `TaskRun` have its steps. Either command may die at any point.
* `IndexCache`, `Decomposition` - builds with one step per read of the repository and per file
  operation; retrieval of a revision; and a decomposition job over it. A tree stands for the
  contents of a worktree. Builds and jobs are not ordered in any way, a build may stop for
  good at any step, and a job may name a revision that nobody has published. A scan for eviction is
  two steps, all records and then all blobs; in the code each file is one await.
* `MC...` - constants and symmetry sets for TLC. A definition whose name contains an underscore
  and whose comment starts with "Mutant" is a plausible wrong version of the operation before
  the underscore; it is used only to see the properties fail.

## What the runs check

Every property is stated with its meaning in its module; `PROJECT.json` lists them per run.

| Run | Instance | Shows |
|---|---|---|
| `store` | 1 node, 2 attempts, time 0..2, lease of 1, 2 claims per attempt | fencing, final revocation, exactly-once completion, immutability, refinement of `ResultLedger`, and the inductive invariant the proofs use |
| `dispatch` | chain of 2 nodes, 2 passes, 2 workers, 1 failure, time 0..1 | no node leaves pending before its dependencies passed, although passes work from old records; a verdict is the accepted result of the newest lease; every authorization can be completed |
| `dispatch_live` | chain of 2, 1 pass, 1 worker, 2 failures, time 0..2 | every node whose dependencies passed settles |
| `intake` | 2 callers, 1 key, 2 payloads, 2 direct tasks; a decomposed work of 3 nodes, 43 evidences, 2 policies | one work per caller and key; answers and refusals are about the caller's own requests; overlaps are serialized without a circle; only the frozen evidence serializes |
| `service` | 2 calls of any length, 2 tasks, 2 faults, time 0..2, lease of 1 | a node that passed has a proof that passed, and otherwise verdict and proof differ only after an unconfirmed store or a lapsed lease; a launch beyond the first for each fault and each lapse at most; no call gets past a stored proof, and without a lapse no launch follows one |
| `service_live` | 1 claim loop, 2 tasks, 2 faults, runs within their lease | every task settles |
| `pool` | 2 slots, 4 calls of 3 ids, 1 shutdown | start order is admission order with no idle slot beside a queued job, one launch per id, shutdown returns only when drained and is never left waiting on a drained pool, answers agree with the table, every call returns |
| `sandbox` | 2 requests | an answer is its request's own, the container is removed once, the chain of requests drains |
| `taskrun` | 1 request, any step failing | verification finds the worker at rest and the removal of its credentials tried, what the attempt held on the host is released when the run returns, passed evidence is true, the run returns |
| `proof` | 2 runs of Stage 1, 1 of Stage 2, 3 attempts in 2 slots, publications at any time | reports that verify prove both stages, the Stage 2 report is true, pins match |
| `decompose` | 2 commits and trees, 2 changes, 2 builds whose outputs may differ, a cache of 1 entry, 1 job for either commit, 2 models | a candidate was made from its own revision's files, calls have their records, the job returns |

`service_crash` ends in a counterexample, where the code does something else than the repository's
documents say (`findings` in `PROJECT.json` quotes them): a restart after the proof result was
stored and before the node was completed leaves the task unfinished for ever. `claimOnce`
returns when it finds the proof, the lease of an accepted attempt is not reclaimed, and
nothing in the service calls `reconcile`. The task stays first in line, so later tasks wait
too. With `LongRuns = TRUE` in `service_live.cfg` the same property fails without any restart: the lease
(ten minutes) is never renewed, one verification command may take fifteen, and a run that outlasts it
stores its proof and has its report refused. So `service` covers long runs for safety, and
`service_live` leaves them out.

### What the models show that is not a run

Each of these can be reproduced by the change named, or was met while modelling.

* A node can be failed while its stored proof, which `GET` shows first, says passed. It takes an audit
  record that cannot be written after the proof was committed (`sqlite-store.ts:1959`: the method's
  ROLLBACK throws too, storing the failure is refused, and `task-runner.ts:392` reports failed), or two
  runs of a task whose lease ran out (`direct-task-service.ts:399`). Drop `a \notin unconfirmed` or
  `lapses[a] = 0` from `VerdictMatchesProof` and `service` shows either. The other way round never
  happens.
* A run that outlasts its lease and stores its proof leaves its node in progress for ever, as the
  oldest task in line.
* `SerializedNodeReleased` fails with `BlockerMaps <- SerializeSecond` in `dispatch_live.cfg`: a node
  serialized behind another is never dispatched, since its blocker's state is not consulted and
  its row is never cleared (`ready-frontier.ts:20`; `docs/raw/specs/orchestrator-spec.md:157`).
* The policy looks at ids and not at dependencies: a node can be serialized behind one that
  depends on it (ADR-019 speaks of "otherwise-ready nodes"). An entry for a node of another work
  between two overlapping ones leaves them unserialized, since a blocker outside the work is
  dropped; `OverlapsSerialized` says so in its precondition. If a node is listed twice, only its first
  entry makes it wait (`overlaps.find`, `contracts.ts:262`): two nodes that overlap through a later
  entry of the second one stay unserialized. Evidence that does not match deletes the serialize
  rows of a frozen work.
* `releaseLease` resets an attempt to created whatever its state. No caller in the repository
  releases a lease after its result was accepted.
* `run-task.ts:643` passes `timeoutMs` inside `brokerOptions`, but the launcher reads it at the
  top level: the configured launch timeout is not used.
* Once `runTask` has been handed its execution root, an early return of it leaves the root behind
  ("runTask owns the root after handoff", `run-task.ts:387`); `NothingHeld` leaves the root out for every
  refused run, which is wider than needed, since a run refused before the handoff removes it. A
  synchronous throw of spawn or of the broker's creation passes the launcher's cleanup
  (`pool-proof-pi-launcher.ts:556`). The release of the attempt then removes the credentials and the
  socket directory; a broker that was started, and its container, stay up.
* `removeProviderAuth` swallows a failing `rmSync` and is called once (`pool-proof-pi-launcher.ts:227`,
  `455`): credentials that could not be removed are still there during verification, and launch
  does not say so. `VerifiedAtRest` promises only that the removal was tried.
* A container whose id was never captured is not removed. A supervisor that exits right after
  it was ready has its terminal state overwritten by the started one.
* In `broker.mjs`, `settle` clears `inFlight` whichever command closed, so the late close of a killed
  command makes the next one uncancellable, and the command timer kills whatever is in flight.
* A refused or failing `--publish` of Stage 1 is caught by the handler that overwrites a passed
  candidate with a failed report, also after the retained file was replaced by it. Overlapping publications can lose a pin; verification then fails, and never
  passes falsely. `verifyRetainedReports` accepts a failed Stage 1 report by itself, and Stage 2's
  report is not compared with the id of the injected fault; `VerifiedIsProven` and
  `Stage2ReportIsTrue` show that neither matters.
* In the cache, a commit between the second read of head and the status can publish an old head
  with a new tree; two builds of one revision can leave a record whose digest is not the
  blob's, which is a miss until the next build; listing entries can throw while another build
  evicts, so a build may reject although it has published.
* A decomposition job emits a record for a call that the deadline prevented, and the first record
  twice if the repair's prompt is too long.

### Bounds and why they suffice

The hard cases need two of something and are reached: two claims of one attempt and two
attempts of one node (fencing, double completion), two passes whose snapshots differ, a
dependency that passes or fails between a snapshot and its use, two overlapping calls with
different clock readings, a lease that expires before, during and after a run (or is expired when it
is handed out), both calls running one task, a queue longer
than the number of free slots, a shutdown before, between and after submissions, a request
that runs while the killed one before it has not closed, a Stage 1 report that replaces the one
Stage 2 was gated on, three nodes that overlap in pairs with a foreign id between them or one of them
listed twice, two builds that overwrite and evict each other. `taskrun` has one request, because what two requests
do to each other is the subject of `sandbox`. Clock values matter only relative to an expiry, so
`MaxTime` leaves room for every lease to run out once; timers elsewhere have no clock and may fire
at any moment they are armed. `MaxGeneration`, `MaxTime`, `MaxFailures`, `MaxFaults`, `MaxStage1`,
`MaxStage2`, `MaxChanges` and `Builds` are bounds of the model only. Crashes of the services are
allowed only while the clock has room to expire the lease they leave behind, since the
real clock always has. Where a completed run may stop for good (`store` at its bounds, `pool`,
`sandbox`, `taskrun`, `proof`, `decompose`) deadlock is not checked; it is checked in `dispatch`, `intake`
and the service runs.

### Fairness

* `Dispatch!FairSpec` - dispatch and reconciliation are invoked again and again by their caller,
  workers finish what they started, and time passes: weak fairness each. Failures owe nothing.
  The repository has the functions and not yet the loop that calls them.
* `DirectTaskService!FairSpec` - `claimOnce` is called repeatedly and a call ends unless the
  process restarts (launch and verification have timeouts): weak fairness. Time gets strong
  fairness because in that run a tick is disabled while a call is near its lease's end, and
  between calls the wall clock always advances. The liveness run has one claim loop: with
  overlapping calls the model's clock could stand still for ever while calls follow each other
  without a gap, which no real clock does. Overlap is checked for safety by `service`.
* `MinimalPoolRuntime!FairSpec` - the event loop resumes a run when its adapter settles, and every
  adapter settles: weak fairness per slot, none on `submit` and `shutdown`.
* `SandboxBroker!FairSpec` - the host's own steps: timers fire, settled promises are resumed, the
  runtime's removal returns. The container, its commands and the client owe nothing.
* `PiLauncher!LauncherFairness`, `TaskRun!FairRunSpec` - the same for the launcher and the run; in
  addition a process that got SIGKILL dies and its connections close, and the calls of Git,
  SQLite and the verification sandbox settle.
* `Decomposition!Fairness` - the deadline's timer fires, and nothing else.

## What is proved

Every safety invariant and every safety action property that a passing run checks is also a
theorem, for all values of the constants that satisfy the named assumptions of the modules. Each
proof has the same shape: an inductive invariant that implies the property, a lemma per action (or
per group of actions that disturb the same parts) that it is preserved, and one temporal step.
Every inductive invariant was checked by TLC on its run's instance before it was proved.

| Module | Invariant | Theorems (property) |
|---|---|---|
| `OrchestrationStoreProofs` | `StoreInv` | `StoreTypeCorrect` (`TypeOK`), `StoreInvariant`, `StoreExactlyOnce` (`CompletionAppliedOnce`), `StoreFencing` (`SingleHonouredGrant`), `StoreRevocationFinal` (`RevocationIsFinal`), `StoreResultsImmutable` (`AcceptedResultImmutable`), `StoreImplementsLedger` |
| `DispatchProofs` | `DispatchInv` | `DispatchTypeCorrect`, `NodesStartAfterDependencies` (`StartedAfterDependencies`), `VerdictsFromAcceptedResults`, `AcceptedResultsCompletable`, `DispatchImplementsStore`, `DispatchImplementsLedger` |
| `PredictedTouchProofs` | `IntakeInv`, `TouchInv` | `KeysNameOneWork`, `AnswersAreOwnAlways`, `OverlapsAreSerialized`, `SerializedByFrozen` |
| `DirectTaskServiceProofs` | `ServiceInv` | `VerdictsMatchProofs`, `LaunchesArePaidFor` (`OneLaunchPerFault`), `ProvenTasksNotRelaunched` (`NoRelaunchAfterProof`) |
| `MinimalPoolRuntimeProofs` | `RuntimeInv` | `RuntimeTypeCorrect`, `JobsStartInOrder`, `AttemptsLaunchedOnce`, `ShutdownWaitsForDrain`, `AnswersMatchTable` |
| `TaskRunProofs` | `BrokerInv`, `RunInv` | `AnswersAlwaysOwn`, `OwnedContainerRemovedOnce`, `RunImplementsBroker`, `RunTypeCorrect`, `RunVerifiedAtRest`, `RunHoldsNothing`, `RunEvidenceIsTrue` |
| `ProofStagesProofs` | `StagesInv` | `VerifiedReportsProven`, `Stage2CandidatesTrue`, `PinnedHashesMatch`, `StagesTypeCorrect` |
| `DecompositionProofs` | `DecompositionInv` | `CandidatesFromOwnIndex`, `CallsAreAccountedFor` |

### From which assumptions

The assumptions are the `ASSUME`s of the modules, which TLC evaluates on every run: constants have
their types, "no value" constants are not values, a lease lasts at least one tick, `deriveAttemptId`
names one attempt per node, the pool has a slot, and its calls are a finite set. `DispatchAssumption`
also says that `"worker"`, the name under which the modelled worker claims, is one of the lease owners,
and `CacheAssumption` that there are a head and an output of Graphify at all; both are needed for the
store steps, and the initial state, to exist. The bounds (`MaxTime`, `MaxGeneration`,
`MaxFailures`, `MaxFaults`, ...) are arbitrary numbers in the proofs.

No theorem restricts `LongRuns` or `CrashAnywhere`: those of `DirectTaskServiceProofs` hold for calls of
any length and restarts at any point. Evidence may list a node any number of times.

### Along which argument

*The store.* `CompletionAppliedOnce` alone is not inductive: completing a result sets the node
to the accepted outcome at the next version only if the authorization is pinned to the version
the result was accepted against (`AuthorizationShadowsResult`), and no later step may move the
node, which holds because a terminal state has no successor in `isValidTransition`. Two attempts
cannot both decide a node, because the first completion leaves a terminal state. Fencing needs
that a lease row is always the attempt's newest claim and that no caller holds a generation the
attempt has not reached (`LeaseRowIsNewest`), and that generations are never reused
(`GenerationsUnique`); with them, a new claim cannot revive an old grant, and renewal cannot
because it refuses an expired row. `StoreInv` is the conjunction; `LeaseInvStep` and
`ResultInvStep` show that each method preserves its two halves. The refinement maps an attempt's
holder to its generation while its row is unexpired; the step that passes time maps to a
revocation of all attempts whose lease runs out at once, and a claim with an old clock reading may
map to an epoch that nobody holds.

*Dispatch.* Every step of the controller is a step of the store or leaves it alone
(`DispatchImplementsStore`), so `StoreInv` and the ledger carry over. A pass works from old records, but
what it relies on is stable: a dependency that its snapshot saw passed is still passed
(`SnapshotsCurrent`). A node's version tells its state (`VersionTellsState`), so a transition at an old
version is refused. A result is completable because its lease row is never given up
(`AcceptedKeepsLease`), since an attempt listed for reclaiming keeps its expired row until it is
reclaimed and cannot have a result accepted meanwhile (`ReclaimListCurrent`), and because it
was accepted against a node in progress (`AuthorizedInProgress`).

*Intake and predicted touch.* Every idempotency row has the submission and the answer it was written
with, and every accepted answer under a key rests on the one row of its scope (`RowsBacked`,
`AnswersBacked`). A work's serialize rows are none, or exactly what the policy makes of some
evidence with the work's frozen provenance (`DecisionsDerived`); no circle then follows from
`ClassifyEarlier`: a node waits only for one with a smaller id.

*The claim loop.* A call past its claim was handed a lease of its own, and until that one expires the
row is still that lease (`Holds`, `OwnerOK`), so nobody else can claim the attempt (`OneHolder`).
What a call is about to report as passed, it has stored as passed (`OwnerOK`), and a verdict that was
accepted comes from such a report: that half of `VerdictMatchesProof` needs no lease at all. For the
other half, a proof result of an attempt without a lapse is in the hands of a call about to
report it, or was accepted, or no call is beyond the lookup (`ResultOK`): the claim of a late call is
refused while the row stands, and the row of an accepted result stands for ever. After a
restart there are no such calls, which is why the proof result then keeps everybody out. Launches are
counted against leases: a call launches once per lease, and a further lease of an attempt is handed
out only after the one before was given up, by a fault, or ran out under its call (`LeasesOK`,
`LaunchesOK`).

*The pool.* No id is pending twice (`PendingDistinct`), whatever is pending was admitted and, before its
launch, not launched (`PendingAdmitted`, `PendingUnlaunched`); `schedule` fills the free slots by rank
(`RankOfFree`), so order and the absence of idle slots go together.

*Sandbox, broker, launcher, run.* A request is in the chain once and unanswered until its turn is
over (`RequestsOK`), and responses are matched by id, so a late response of a killed command answers
nobody. Removal is memoized, and stop follows start in a fixed order (`RemovalOK`, `PhasesOK`). The task
run's launcher keeps the broker's contract (`RunImplementsBroker`), so the broker's theorems hold of a
run. What a run holds is a function of its position and of what the file system refused; this gives
`NothingHeld` and `VerifiedAtRest`.

*Proof stages.* A Stage 2 report, wherever it is, names a Stage 1 report that opened the gate
(`ReportsEarned`): as a hash stands for the content, a manifest that verifies cannot mix reports
of different runs. A publication is of a whole report that its validator accepted (`Publication`). One
that is alone works on the manifest as it is, one that is not has torn
both files (`PublicationsOK`).

*Decomposition and cache.* A blob file holds a graph of the tree in its name, not always the same one
(`BlobsNamed`), because a build keeps a graph only if the tree it read is the manifest's (`Memory`); so the
retriever may load another blob than the one it verified, and still one of the right tree.

### Only model-checked

Liveness under fairness is out of the prover's reach: `NodesSettle`, `TasksSettle`, `CallsReturn`,
`ChainDrains`, `RunReturns`, `JobReturns`. So is the counterexample of `service_crash`. `IntakeTypeOK`, `ServiceTypeOK` and
the type invariants of the lower modules of the tower are documentation; the typing the proofs
need is part of their inductive invariants.

## What is not modelled

* Syntax: `unit-validation.ts`, the stand-alone HTTP adapter, manifests, contracts and evidence
  files, bootstrap and routing policies. Each is a check of one value; the models take its
  outcome as accepted or refused.
* Plumbing: hardened Git, path safety, documentation discovery, credential filters, sandbox
  identity, workspace lifecycle, the layout of reports. They are single file-system or process
  calls; where a modelled part uses one it may fail.
* Backend fallback, transcript retention, `recordPhaseArtifact` and the migrations (see the plan).
* In modelled parts: the audit table (but the pool, the claim loop and the task run model a proof
  result whose audit entry fails after the commit), the read-only queries, a transition that throws inside a dispatch pass (the entry is
  skipped, as for a refusal), SQLite failing to begin a transaction, which refuses the call;
  stopping a sandbox whose start is in flight (no caller does), the supervisor's input buffer
  dropping frames at its bound; the walk of `captureManifest` is one step; a cache entry may be too
  old at any time and the byte limit is the entry count; two publications of one file at once; the
  listing of records and that of blobs, each one step; the third retained report, on the
  sandbox's lifecycle.

## Plan

1. Theorems: that `DirectTaskIntake` and `DirectTaskService` take only store steps, so that `StoreInv`
   and the ledger carry over to them as they do to `Dispatch` (it needs the empty dependency map among the
   `Manifests`); `StoreInv` in `PredictedTouch`.
2. `Dispatch` with its blockers taken from `PredictedTouch`.
3. `WorkValidation` - the topological sort of `validateWork` and the dependency check of
   `unit-validation.ts` against `ValidWork`.
4. Store: phase artifacts and the append-only tables, migrations with a crash between versions.
5. `BackendFallback` (bounded retries, exhausted candidates), bootstrap policy (reviewer differs
   from builder), transcript retention at its limits.
6. The task runner composed with the pool (`DirectTaskService` with `MinimalPoolRuntime`'s steps for
   a run), and publications of one file that overlap.
