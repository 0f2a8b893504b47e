------------------------------ MODULE Dispatch ------------------------------
(***************************************************************************)
(* The graph controller: dispatchReadyFrontier, reconcile and the queue    *)
(* consumer, working concurrently on the orchestration store.  Every       *)
(* await is a point where the others run: a dispatch pass works from the   *)
(* node records it listed when it started.  A crash of the controller      *)
(* loses every pass in flight; the store and the queue survive it.         *)
(*                                                                         *)
(* External: the queue (ensureJob is idempotent by job id and may fail; a  *)
(* job stays until it is removed, so it may be delivered again) and the    *)
(* worker that drives an attempt the way the orchestration tests do:       *)
(* start the node, claim the lease, report the result.                     *)
(***************************************************************************)
EXTENDS OrchestrationStore

CONSTANTS
  Dispatchers,   \* concurrent passes of dispatchReadyFrontier
  Workers,       \* queue consumers
  BlockerMaps,   \* scheduling blockers a caller may pass: node -> blocker or NoNode
  NoNode,
  NoAttempt,
  MaxFailures    \* bound: crashes, lost jobs, failing queue calls and resolvers

\* Node ids are compared by localeCompare; here they are numbers.  dispatch
\* derives one attempt per node, always with attempt number 1.
ASSUME DispatchAssumption ==
  /\ Nodes \subseteq Nat
  /\ NoNode \notin Nodes
  /\ NoAttempt \notin Attempts
  /\ MaxFailures \in Nat
  /\ BlockerMaps \subseteq [Nodes -> Nodes \cup {NoNode}]
  /\ \A n \in Nodes : \E a \in Attempts : NodeOf[a] = n
  /\ \A a, b \in Attempts : NodeOf[a] = NodeOf[b] => a = b
  /\ "worker" \in Owners

VARIABLES
  queue,       \* attempts with a job in the queue
  blockers,    \* the serialize rows handed to every dispatch pass
  passes,      \* dispatcher -> its position, snapshot and remaining frontier
  recon,       \* the reconciliation in flight
  worker,      \* worker -> the attempt it works on and its lease
  failures     \* failures injected so far

ctlVars == <<queue, blockers, passes, recon, worker, failures>>
vars == <<storeVars, ctlVars>>

deriveAttemptId(n) == CHOOSE a \in Attempts : NodeOf[a] = n

-----------------------------------------------------------------------------
(* dispatchReadyFrontier                                                   *)

\* The snapshot of a pass that has not started, or has returned.
EmptySnapshot == [state |-> [n \in Nodes |-> "absent"], version |-> [n \in Nodes |-> 0]]
IdlePass == [pc |-> "idle", snapshot |-> EmptySnapshot, todo |-> {}]

\* Mutant: a dependency that is settled, even failed, counts as passed.
computeReadyFrontier_Settled(snap, blocked) ==
  {n \in Nodes : /\ snap.state[n] \notin {"absent", "passed"}
                 /\ \A m \in dependencies[n] : snap.state[m] \in TerminalStates
                 /\ blocked[n] = NoNode}

\* The selectable frontier: nodes not passed, every dependency passed, and not
\* serialized behind a blocker.
computeReadyFrontier(snap, blocked) ==
  {n \in Nodes : /\ snap.state[n] \notin {"absent", "passed"}
                 /\ \A m \in dependencies[n] : snap.state[m] = "passed"
                 /\ blocked[n] = NoNode}

\* The pass takes its frontier in the order of the node ids.
First(S) == CHOOSE n \in S : \A m \in S : n <= m

\* Mutant: the loop does not notice that it has served its last entry.
Advanced_NoReturn(p) ==
  [p EXCEPT !.pc = "entry", !.todo = @ \ {First(@)}]

\* A pass moves on to its next entry, or returns.
Advanced(p) ==
  LET rest == p.todo \ {First(p.todo)} IN
  IF rest = {} THEN IdlePass ELSE [p EXCEPT !.pc = "entry", !.todo = rest]

SkipEntry(d) == passes' = [passes EXCEPT ![d] = Advanced(passes[d])]

\* listNodes: the records, versions included, are read once for the pass.
StartPass(d) ==
  /\ passes[d].pc = "idle"
  /\ \E n \in Nodes : nodeState[n] # "absent"
  /\ LET snap == [state |-> nodeState, version |-> nodeVersion]
         todo == computeReadyFrontier(snap, blockers) IN
     /\ todo # {}
     /\ passes' = [passes EXCEPT ![d] = [pc |-> "entry", snapshot |-> snap, todo |-> todo]]
  /\ UNCHANGED <<storeVars, queue, blockers, recon, worker, failures>>

\* A pending node is made ready at the version of the snapshot; a refusal, and
\* a record that is neither pending nor ready, skips the entry.
VisitEntry(d) ==
  /\ passes[d].pc = "entry"
  /\ LET p == passes[d]
         n == First(p.todo)
         routed == [passes EXCEPT ![d].pc = "route"] IN
     \/ /\ p.snapshot.state[n] = "pending"
        /\ TransitionNode(n, p.snapshot.version[n], "ready")
        /\ passes' = routed
     \/ /\ p.snapshot.state[n] = "pending"
        /\ ~ (nodeVersion[n] = p.snapshot.version[n] /\ nodeState[n] = "pending")
        /\ SkipEntry(d)
        /\ UNCHANGED storeVars
     \/ /\ p.snapshot.state[n] = "ready"
        /\ passes' = routed
        /\ UNCHANGED storeVars
     \/ /\ p.snapshot.state[n] \notin {"pending", "ready"}
        /\ SkipEntry(d)
        /\ UNCHANGED storeVars
  /\ UNCHANGED <<queue, blockers, recon, worker, failures>>

\* The resolver answers and createAttempt runs: it creates the attempt, finds
\* it, or refuses because the node is no longer ready.  A resolver that throws
\* or answers nonsense skips the entry.
RouteEntry(d) ==
  /\ passes[d].pc = "route"
  /\ LET n == First(passes[d].todo)
         a == deriveAttemptId(n)
         created == [passes EXCEPT ![d].pc = "enqueue"] IN
     \/ /\ \E m \in Models : CreateAttempt(a, m)
        /\ passes' = created
        /\ UNCHANGED failures
     \/ /\ nodeState[n] = "ready" /\ attemptState[a] # "none"
        /\ passes' = created
        /\ UNCHANGED <<storeVars, failures>>
     \/ /\ nodeState[n] # "ready"
        /\ SkipEntry(d)
        /\ UNCHANGED <<storeVars, failures>>
     \/ /\ failures < MaxFailures
        /\ failures' = failures + 1
        /\ SkipEntry(d)
        /\ UNCHANGED storeVars
  /\ UNCHANGED <<queue, blockers, recon, worker>>

\* ensureJob; when it throws the attempt stays, without a job.
EnqueueEntry(d) ==
  /\ passes[d].pc = "enqueue"
  /\ \/ /\ queue' = queue \cup {deriveAttemptId(First(passes[d].todo))}
        /\ UNCHANGED failures
     \/ /\ failures < MaxFailures
        /\ failures' = failures + 1
        /\ UNCHANGED queue
  /\ SkipEntry(d)
  /\ UNCHANGED <<storeVars, blockers, recon, worker>>

-----------------------------------------------------------------------------
(* reconcile                                                               *)

IdleRecon == [pc |-> "idle", todo |-> {}, at |-> 0, job |-> NoAttempt]

\* Mutant: reconciliation does not restore the jobs of created attempts.
StartReconcile_NoJobs ==
  /\ recon.pc = "idle"
  /\ recon' = [pc |-> "jobs", at |-> now, job |-> NoAttempt, todo |-> {}]
  /\ UNCHANGED <<storeVars, queue, blockers, passes, worker, failures>>

\* listCreatedAttempts; the clock reading is the caller's, at the call.
StartReconcile ==
  /\ recon.pc = "idle"
  /\ recon' = [pc |-> "jobs", at |-> now, job |-> NoAttempt,
               todo |-> {a \in Attempts : attemptState[a] = "created"}]
  /\ UNCHANGED <<storeVars, queue, blockers, passes, worker, failures>>

listAuthorizedResults == {a \in Attempts : authorizations[a] # 0}

\* ensureJob and setJobId for one created attempt (the job id is derived, so
\* setJobId rewrites what createAttempt wrote); a queue failure ends the
\* reconciliation, before anything is reclaimed or completed.
ReconcileJob ==
  /\ recon.pc = "jobs"
  /\ \/ \E a \in recon.todo :
          /\ queue' = queue \cup {a}
          /\ recon' = [recon EXCEPT !.todo = @ \ {a}]
          /\ UNCHANGED failures
     \/ /\ recon.todo # {}
        /\ failures < MaxFailures
        /\ failures' = failures + 1
        /\ recon' = IdleRecon
        /\ UNCHANGED queue
     \/ /\ recon.todo = {}
        /\ recon' = [recon EXCEPT !.pc = "reclaim",
                                  !.todo = listAttemptsNeedingReconciliation(recon.at)]
        /\ UNCHANGED <<queue, failures>>
  /\ UNCHANGED <<storeVars, blockers, passes, worker>>

\* reclaimLease for one listed attempt; a refusal is ignored.
ReconcileReclaim ==
  /\ recon.pc = "reclaim"
  /\ \/ \E a \in recon.todo :
          /\ \/ ReclaimLease(a, recon.at)
             \/ /\ ~ (leases[a].generation # 0 /\ leases[a].expires <= recon.at)
                /\ UNCHANGED storeVars
          /\ recon' = [recon EXCEPT !.todo = @ \ {a}]
     \/ /\ recon.todo = {}
        /\ recon' = [recon EXCEPT !.pc = "complete", !.todo = listAuthorizedResults]
        /\ UNCHANGED storeVars
  /\ UNCHANGED <<queue, blockers, passes, worker, failures>>

\* The guard of completeAuthorizedResult and of reconcile's node check.
CanComplete(a) ==
  /\ authorizations[a] # 0
  /\ nodeState[NodeOf[a]] \notin TerminalStates
  /\ nodeVersion[NodeOf[a]] = authorizations[a]
  /\ isValidTransition(nodeState[NodeOf[a]], accepted[a].outcome)

\* completeAuthorizedResult for one listed authorization; on success the job
\* is removed after another await.
ReconcileComplete ==
  /\ recon.pc = "complete"
  /\ \/ \E a \in recon.todo :
          \/ /\ CanComplete(a)
             /\ CompleteAuthorizedResult(a)
             /\ recon' = [recon EXCEPT !.pc = "remove", !.todo = @ \ {a}, !.job = a]
          \/ /\ ~CanComplete(a)
             /\ recon' = [recon EXCEPT !.todo = @ \ {a}]
             /\ UNCHANGED storeVars
     \/ /\ recon.todo = {}
        /\ recon' = IdleRecon
        /\ UNCHANGED storeVars
  /\ UNCHANGED <<queue, blockers, passes, worker, failures>>

RemoveCompletedJob ==
  /\ recon.pc = "remove"
  /\ \/ /\ queue' = queue \ {recon.job}
        /\ recon' = [recon EXCEPT !.pc = "complete", !.job = NoAttempt]
        /\ UNCHANGED failures
     \/ /\ failures < MaxFailures
        /\ failures' = failures + 1
        /\ recon' = IdleRecon
        /\ UNCHANGED queue
  /\ UNCHANGED <<storeVars, blockers, passes, worker>>

-----------------------------------------------------------------------------
(* The worker (external) behind the queue consumer.                        *)

NoGrant == [attempt |-> NoAttempt, owner |-> "nobody", generation |-> 0, token |-> 0]
IdleWorker == [pc |-> "idle", attempt |-> NoAttempt, version |-> 0, grant |-> NoGrant]

\* consumeQueueEnvelope: the job's attempt must still be dispatchable.
consumeQueueEnvelope(w, a) ==
  /\ worker[w].pc = "idle"
  /\ a \in queue
  /\ attemptState[a] \in ActiveStates
  /\ worker' = [worker EXCEPT ![w] = [IdleWorker EXCEPT !.pc = "start", !.attempt = a]]
  /\ UNCHANGED <<storeVars, queue, blockers, passes, recon, failures>>

GiveUp(w) == worker' = [worker EXCEPT ![w] = IdleWorker]

\* The node is started, or found started by an earlier delivery.
StartNode(w) ==
  /\ worker[w].pc = "start"
  /\ LET n == NodeOf[worker[w].attempt] IN
     \/ /\ TransitionNode(n, nodeVersion[n], "in_progress")
        /\ worker' = [worker EXCEPT ![w].pc = "claim", ![w].version = nodeVersion[n] + 1]
     \/ /\ nodeState[n] = "in_progress"
        /\ worker' = [worker EXCEPT ![w].pc = "claim", ![w].version = nodeVersion[n]]
        /\ UNCHANGED storeVars
     \/ /\ nodeState[n] \notin {"ready", "in_progress"}
        /\ GiveUp(w)
        /\ UNCHANGED storeVars
  /\ UNCHANGED <<queue, blockers, passes, recon, failures>>

\* The claim is refused while another lease row exists.
ClaimJob(w) ==
  /\ worker[w].pc = "claim"
  /\ LET a == worker[w].attempt IN
     \/ /\ ClaimLease(a, "worker", now)
        /\ worker' = [worker EXCEPT ![w].pc = "run",
                        ![w].grant = [attempt |-> a, owner |-> "worker",
                                      generation |-> leaseGeneration'[a], token |-> tokens']]
     \/ /\ leases[a] # NoLease
        /\ GiveUp(w)
        /\ UNCHANGED storeVars
  /\ UNCHANGED <<queue, blockers, passes, recon, failures>>

\* The result is accepted, or refused as stale, and the delivery is over.
ReportResult(w) ==
  /\ worker[w].pc = "run"
  /\ LET g == worker[w].grant IN
     \/ \E o \in Outcomes : AcceptResult(g, worker[w].version, o, now)
     \/ /\ \/ accepted[g.attempt] # NoResult
           \/ nodeVersion[NodeOf[g.attempt]] # worker[w].version
           \/ ~LeaseValid(g, now)
        /\ UNCHANGED storeVars
  /\ GiveUp(w)
  /\ UNCHANGED <<queue, blockers, passes, recon, failures>>

-----------------------------------------------------------------------------
(* Failures.                                                               *)

Fail == failures < MaxFailures /\ failures' = failures + 1

\* The controller process dies: every pass and the reconciliation are lost.
ControllerCrash ==
  /\ Fail
  /\ passes' = [d \in Dispatchers |-> IdlePass]
  /\ recon' = IdleRecon
  /\ \E d \in Dispatchers : passes[d] # IdlePass \/ recon # IdleRecon
  /\ UNCHANGED <<storeVars, queue, blockers, worker>>

\* A worker dies.  It leaves its lease row behind; the clock must still have
\* room to expire it (MaxTime is the model's bound, not the system's).
WorkerCrash(w) ==
  /\ Fail
  /\ worker[w].pc # "idle"
  /\ now + LeaseTTL <= MaxTime
  /\ GiveUp(w)
  /\ UNCHANGED <<storeVars, queue, blockers, passes, recon>>

\* The queue's own storage loses a job.
LoseJob(a) ==
  /\ Fail
  /\ a \in queue
  /\ queue' = queue \ {a}
  /\ UNCHANGED <<storeVars, blockers, passes, recon, worker>>

-----------------------------------------------------------------------------
Init ==
  /\ StoreInit
  /\ queue = {}
  /\ blockers \in BlockerMaps
  /\ passes = [d \in Dispatchers |-> IdlePass]
  /\ recon = IdleRecon
  /\ worker = [w \in Workers |-> IdleWorker]
  /\ failures = 0

Import == \E w \in Works, d \in Manifests : ImportApprovedWork(w, d) /\ UNCHANGED ctlVars
TimePasses == Tick /\ UNCHANGED ctlVars

PassStep(d) == StartPass(d) \/ VisitEntry(d) \/ RouteEntry(d) \/ EnqueueEntry(d)

ReconcileStep == StartReconcile \/ ReconcileJob \/ ReconcileReclaim
                 \/ ReconcileComplete \/ RemoveCompletedJob

WorkerStep(w) == \/ \E a \in Attempts : consumeQueueEnvelope(w, a)
                 \/ StartNode(w)
                 \/ ClaimJob(w)
                 \/ ReportResult(w)

Next ==
  \/ Import
  \/ \E d \in Dispatchers : PassStep(d)
  \/ ReconcileStep
  \/ \E w \in Workers : WorkerStep(w)
  \/ ControllerCrash
  \/ \E w \in Workers : WorkerCrash(w)
  \/ \E a \in Attempts : LoseJob(a)
  \/ TimePasses

\* The caller re-invokes dispatch and reconciliation, workers keep consuming
\* and finish what they started, and time passes; failures owe nothing.
Fairness ==
  /\ \A d \in Dispatchers : WF_vars(PassStep(d))
  /\ WF_vars(ReconcileStep)
  /\ \A w \in Workers : WF_vars(WorkerStep(w))
  /\ WF_vars(TimePasses)

Spec == Init /\ [][Next]_vars
FairSpec == Spec /\ Fairness

-----------------------------------------------------------------------------
(* Properties.                                                             *)

\* The store's tables, the queue and every process's memory have their types.
DispatchTypeOK ==
  /\ TypeOK
  /\ queue \subseteq Attempts
  /\ blockers \in [Nodes -> Nodes \cup {NoNode}]
  /\ \A d \in Dispatchers :
       /\ passes[d].pc \in {"idle", "entry", "route", "enqueue"}
       /\ passes[d].todo \subseteq Nodes
       /\ passes[d].pc # "idle" => passes[d].todo # {}
  /\ recon.pc \in {"idle", "jobs", "reclaim", "complete", "remove"}
  /\ recon.todo \subseteq Attempts
  /\ \A w \in Workers : worker[w].pc \in {"idle", "start", "claim", "run"}
  /\ failures \in 0..MaxFailures

\* A node leaves pending only when every node it depends on has passed, though
\* the pass that releases it decided so from records that may be old.
StartedAfterDependencies ==
  \A n \in Nodes :
    nodeState[n] \notin {"absent", "pending"} =>
      \A m \in dependencies[n] : nodeState[m] = "passed"

\* A node's verdict is the accepted result of its own attempt, reported under
\* the newest lease that a worker had claimed after the node was started.
VerdictFromAcceptedResult ==
  \A n \in Nodes :
    nodeState[n] \in TerminalStates =>
      LET a == deriveAttemptId(n) IN
      /\ accepted[a].outcome = nodeState[n]
      /\ accepted[a].generation = leaseGeneration[a]
      /\ attemptState[a] = "completed"

\* Nothing completed is still waiting to be applied, and no authorization is
\* ever pinned to a version the node has moved past: an accepted result can
\* always be completed by the next reconciliation.
AcceptedResultCompletable ==
  \A a \in Attempts : authorizations[a] # 0 => CanComplete(a)

\* Whatever crashes, is lost or fails, a node whose dependencies have passed
\* eventually gets a verdict.
NodesSettle ==
  \A n \in Nodes :
    (nodeState[n] # "absent" /\ \A m \in dependencies[n] : nodeState[m] = "passed")
      ~> nodeState[n] \in TerminalStates

\* The dispatch specification's "ready nodes with likely shared surfaces are
\* serialized ... the frontier is recomputed until terminal": a node serialized
\* behind another one is released once that one has passed.
SerializedNodeReleased ==
  \A n \in Nodes :
    (\E m \in Nodes : blockers[n] = m /\ nodeState[m] = "passed")
      ~> nodeState[n] # "pending"
=============================================================================
