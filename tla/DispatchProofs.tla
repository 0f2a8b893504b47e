--------------------------- MODULE DispatchProofs ---------------------------
(***************************************************************************)
(* Proofs about the graph controller, for any acyclic or cyclic graph of   *)
(* any size, any number of concurrent dispatch passes and workers, and any *)
(* number of crashes, lost jobs and failing calls.                         *)
(***************************************************************************)
EXTENDS Dispatch, OrchestrationStoreProofs

USE StoreAssumption, DispatchAssumption

-----------------------------------------------------------------------------
(* The inductive invariant.                                                *)

Snapshot == [state : [Nodes -> NodeStates], version : [Nodes -> Nat]]
Pass == [pc : {"idle", "entry", "route", "enqueue"}, snapshot : Snapshot,
         todo : SUBSET Nodes]
Recon == [pc : {"idle", "jobs", "reclaim", "complete", "remove"},
          todo : SUBSET Attempts, at : Nat, job : Attempts \cup {NoAttempt}]
Work == [pc : {"idle", "start", "claim", "run"}, attempt : Attempts \cup {NoAttempt},
         version : Nat, grant : Grant \cup {NoGrant}]

\* What the processes hold between two steps.
ProcessesOK ==
  /\ queue \subseteq Attempts
  /\ blockers \in [Nodes -> Nodes \cup {NoNode}]
  /\ failures \in 0..MaxFailures
  /\ passes \in [Dispatchers -> Pass]
  /\ \A d \in Dispatchers : passes[d].pc # "idle" => passes[d].todo # {}
  /\ recon \in Recon
  /\ recon.at <= now
  /\ worker \in [Workers -> Work]

\* A node's version counts its transitions, so that it tells the node's state.
VersionTellsState ==
  \A n \in Nodes :
    /\ nodeState[n] = "absent" <=> nodeVersion[n] = 0
    /\ nodeState[n] = "pending" <=> nodeVersion[n] = 1
    /\ nodeState[n] = "ready" <=> nodeVersion[n] = 2
    /\ nodeState[n] = "in_progress" <=> nodeVersion[n] = 3
    /\ nodeState[n] \in TerminalStates <=> nodeVersion[n] = 4

\* A worker that claims or holds a lease has seen its node in progress, and
\* holds a lease the store has granted for its attempt.
WorkersStarted ==
  \A w \in Workers :
    /\ worker[w].pc # "idle" => worker[w].attempt \in Attempts
    /\ worker[w].pc \in {"claim", "run"} => worker[w].version = 3
    /\ worker[w].pc = "run" => worker[w].grant \in grants

\* What a snapshot says of a passed or imported node, and of the dependencies
\* of the nodes of its frontier, still holds.
SnapshotsCurrent ==
  \A d \in Dispatchers :
    LET snap == passes[d].snapshot IN
    /\ \A m \in Nodes : snap.state[m] = "passed" => nodeState[m] = "passed"
    /\ \A n \in passes[d].todo :
         /\ nodeState[n] # "absent"
         /\ \A m \in dependencies[n] : snap.state[m] = "passed"

\* An accepted result keeps its lease row, so nobody can claim the attempt again.
AcceptedKeepsLease ==
  \A a \in Attempts :
    accepted[a] # NoResult =>
      /\ leases[a] # NoLease
      /\ accepted[a].generation = leaseGeneration[a]
      /\ attemptState[a] \in {"result_accepted", "completed"}
      /\ authorizations[a] = 0 => attemptState[a] = "completed"

\* An attempt listed for reclaiming keeps its expired row until it is reclaimed,
\* and so cannot have a result accepted meanwhile.
ReclaimListCurrent ==
  recon.pc = "reclaim" =>
    \A a \in recon.todo : /\ leases[a] # NoLease
                          /\ leases[a].expires <= recon.at
                          /\ accepted[a] = NoResult

\* A result waits for a node in progress, at the version it was accepted at.
AuthorizedInProgress ==
  \A a \in Attempts :
    authorizations[a] # 0 => /\ authorizations[a] = 3
                             /\ nodeState[NodeOf[a]] = "in_progress"
                             /\ accepted[a].outcome \in Outcomes

\* A terminal node has an accepted and applied result.
TerminalDecided ==
  \A n \in Nodes :
    nodeState[n] \in TerminalStates =>
      /\ accepted[deriveAttemptId(n)].outcome = nodeState[n]
      /\ authorizations[deriveAttemptId(n)] = 0

DispatchInv ==
  /\ TypeOK
  /\ StoreInv
  /\ ProcessesOK
  /\ VersionTellsState
  /\ WorkersStarted
  /\ SnapshotsCurrent
  /\ StartedAfterDependencies
  /\ AcceptedKeepsLease
  /\ ReclaimListCurrent
  /\ AuthorizedInProgress
  /\ TerminalDecided

-----------------------------------------------------------------------------
(* Operators.                                                              *)

LEMMA DerivedAttempt ==
  /\ \A n \in Nodes : deriveAttemptId(n) \in Attempts /\ NodeOf[deriveAttemptId(n)] = n
  /\ \A a \in Attempts : deriveAttemptId(NodeOf[a]) = a /\ NodeOf[a] \in Nodes
<1>1. ASSUME NEW n \in Nodes
      PROVE  deriveAttemptId(n) \in Attempts /\ NodeOf[deriveAttemptId(n)] = n
  BY DEF deriveAttemptId
<1>2. ASSUME NEW a \in Attempts PROVE NodeOf[a] \in Nodes
  OBVIOUS
<1> HIDE DEF deriveAttemptId
<1> QED
  BY <1>1, <1>2

LEMMA FirstIsMember ==
  ASSUME NEW S \in SUBSET Nodes, S # {}
  PROVE  First(S) \in S
<1>1. S \in SUBSET Nat
  OBVIOUS
<1>2. \E n \in S : \A m \in S : n <= m
  BY <1>1, LeastNat
<1> QED
  BY <1>2 DEF First

LEMMA IdlePassOK ==
  IdlePass \in Pass /\ IdlePass.pc = "idle" /\ IdlePass.todo = {}
  /\ \A n \in Nodes : IdlePass.snapshot.state[n] = "absent"
BY DEF IdlePass, EmptySnapshot, Pass, Snapshot, NodeStates

\* A pass that moves on keeps its snapshot and works on fewer nodes, or ends.
LEMMA AdvancedOK ==
  ASSUME NEW p \in Pass, p.todo # {}
  PROVE  /\ Advanced(p) \in Pass
         /\ Advanced(p).pc # "idle" => Advanced(p).todo # {}
         /\ \/ Advanced(p) = IdlePass
            \/ Advanced(p).snapshot = p.snapshot /\ Advanced(p).todo \subseteq p.todo
<1> DEFINE rest == p.todo \ {First(p.todo)}
<1>1. rest \in SUBSET Nodes /\ rest \subseteq p.todo
  BY DEF Pass
<1> HIDE DEF rest
<1>2. CASE rest = {}
  <2>1. Advanced(p) = IdlePass
    BY <1>2 DEF Advanced, rest
  <2> QED
    BY <2>1, IdlePassOK
<1>3. CASE rest # {}
  <2>1. Advanced(p) = [p EXCEPT !.pc = "entry", !.todo = rest]
    BY <1>3 DEF Advanced, rest
  <2>2. /\ [p EXCEPT !.pc = "entry", !.todo = rest] \in Pass
        /\ [p EXCEPT !.pc = "entry", !.todo = rest].snapshot = p.snapshot
        /\ [p EXCEPT !.pc = "entry", !.todo = rest].todo = rest
    BY <1>1 DEF Pass
  <2> QED
    BY <1>1, <1>3, <2>1, <2>2
<1> QED
  BY <1>2, <1>3

-----------------------------------------------------------------------------
(* What a step does to the store.                                          *)

\* The calls the controller and the workers make, with what they know of their
\* arguments.
Release(n) ==
  /\ \A m \in dependencies[n] : nodeState[m] = "passed"
  /\ TransitionNode(n, nodeVersion[n], "ready")

Reclaim(a) ==
  /\ recon.pc = "reclaim" /\ a \in recon.todo
  /\ ReclaimLease(a, recon.at)
  /\ a \notin recon'.todo

StoreEffect ==
  \/ UNCHANGED storeVars
  \/ \E w \in Works, d \in Manifests : ImportApprovedWork(w, d)
  \/ \E n \in Nodes : Release(n)
  \/ \E n \in Nodes : TransitionNode(n, nodeVersion[n], "in_progress")
  \/ \E a \in Attempts, m \in Models : CreateAttempt(a, m)
  \/ \E a \in Attempts : ClaimLease(a, "worker", now)
  \/ \E a \in Attempts : Reclaim(a)
  \/ \E g \in grants, o \in Outcomes : AcceptResult(g, 3, o, now)
  \/ \E a \in Attempts : CompleteAuthorizedResult(a)
  \/ Tick

\* A pass's entry is a node of its frontier.
LEMMA CurrentEntry ==
  ASSUME DispatchInv, NEW d \in Dispatchers, passes[d].pc # "idle"
  PROVE  LET n == First(passes[d].todo) IN
         /\ n \in Nodes /\ n \in passes[d].todo
         /\ nodeState[n] # "absent"
         /\ \A m \in dependencies[n] : nodeState[m] = "passed"
<1>1. passes[d] \in Pass /\ passes[d].todo # {} /\ passes[d].todo \in SUBSET Nodes
  BY DEF DispatchInv, ProcessesOK, Pass
<1>2. First(passes[d].todo) \in passes[d].todo
  BY <1>1, FirstIsMember
<1>3. dependencies \in [Nodes -> SUBSET Nodes]
  BY DEF DispatchInv, TypeOK
<1> QED
  BY <1>1, <1>2, <1>3 DEF DispatchInv, SnapshotsCurrent

LEMMA EffectOfStep ==
  ASSUME DispatchInv, [Next]_vars
  PROVE  StoreEffect
<1>1. CASE UNCHANGED vars
  BY <1>1 DEF vars, StoreEffect
<1>2. CASE Import
  BY <1>2 DEF Import, StoreEffect
<1>3. ASSUME NEW d \in Dispatchers, StartPass(d) \/ EnqueueEntry(d) PROVE StoreEffect
  BY <1>3 DEF StartPass, EnqueueEntry, StoreEffect
<1>4. ASSUME NEW d \in Dispatchers, VisitEntry(d) PROVE StoreEffect
  <2> DEFINE n == First(passes[d].todo)
  <2>1. n \in Nodes /\ \A m \in dependencies[n] : nodeState[m] = "passed"
    BY <1>4, CurrentEntry DEF VisitEntry
  <2> HIDE DEF n
  <2>2. \/ UNCHANGED storeVars
        \/ \E v : TransitionNode(n, v, "ready")
    BY <1>4 DEF VisitEntry, n
  <2>3. ASSUME NEW v, TransitionNode(n, v, "ready") PROVE Release(n)
    BY <2>1, <2>3 DEF TransitionNode, Release
  <2> QED
    BY <2>1, <2>2, <2>3 DEF StoreEffect
<1>5. ASSUME NEW d \in Dispatchers, RouteEntry(d) PROVE StoreEffect
  <2> DEFINE n == First(passes[d].todo)
             a == deriveAttemptId(n)
  <2>1. a \in Attempts
    <3>1. n \in Nodes
      BY <1>5, CurrentEntry DEF RouteEntry
    <3> HIDE DEF n
    <3> QED
      BY <3>1, DerivedAttempt
  <2>2. UNCHANGED storeVars \/ \E m \in Models : CreateAttempt(a, m)
    BY <1>5 DEF RouteEntry
  <2> HIDE DEF a
  <2> QED
    BY <2>1, <2>2 DEF StoreEffect
<1>6. CASE StartReconcile \/ ReconcileJob \/ RemoveCompletedJob
  BY <1>6 DEF StartReconcile, ReconcileJob, RemoveCompletedJob, StoreEffect
<1>7. CASE ReconcileReclaim
  <2>1. CASE UNCHANGED storeVars
    BY <2>1 DEF StoreEffect
  <2>2. CASE ~UNCHANGED storeVars
    <3>1. PICK a \in recon.todo : /\ ReclaimLease(a, recon.at)
                                  /\ recon' = [recon EXCEPT !.todo = @ \ {a}]
                                  /\ recon.pc = "reclaim"
      BY <1>7, <2>2 DEF ReconcileReclaim
    <3>2. recon \in Recon
      BY DEF DispatchInv, ProcessesOK
    <3>3. a \in Attempts /\ a \notin recon'.todo
      BY <3>1, <3>2 DEF Recon
    <3>4. Reclaim(a)
      BY <3>1, <3>3 DEF Reclaim
    <3> QED
      BY <3>3, <3>4 DEF StoreEffect
  <2> QED
    BY <2>1, <2>2
<1>8. CASE ReconcileComplete
  <2>1. recon.todo \subseteq Attempts
    BY DEF DispatchInv, ProcessesOK, Recon
  <2>2. UNCHANGED storeVars \/ \E a \in recon.todo : CompleteAuthorizedResult(a)
    BY <1>8 DEF ReconcileComplete
  <2> QED
    BY <2>1, <2>2 DEF StoreEffect
<1>9. ASSUME NEW w \in Workers, NEW a \in Attempts, consumeQueueEnvelope(w, a)
      PROVE  StoreEffect
  BY <1>9 DEF consumeQueueEnvelope, StoreEffect
<1>10. ASSUME NEW w \in Workers, StartNode(w) PROVE StoreEffect
  <2>1. NodeOf[worker[w].attempt] \in Nodes
    BY <1>10 DEF StartNode, DispatchInv, WorkersStarted
  <2>2. \/ UNCHANGED storeVars
        \/ TransitionNode(NodeOf[worker[w].attempt],
                          nodeVersion[NodeOf[worker[w].attempt]], "in_progress")
    BY <1>10 DEF StartNode
  <2> QED
    BY <2>1, <2>2 DEF StoreEffect
<1>11. ASSUME NEW w \in Workers, ClaimJob(w) PROVE StoreEffect
  <2>1. worker[w].attempt \in Attempts
    BY <1>11 DEF ClaimJob, DispatchInv, WorkersStarted
  <2>2. UNCHANGED storeVars \/ ClaimLease(worker[w].attempt, "worker", now)
    BY <1>11 DEF ClaimJob
  <2> QED
    BY <2>1, <2>2 DEF StoreEffect
<1>12. ASSUME NEW w \in Workers, ReportResult(w) PROVE StoreEffect
  <2>1. worker[w].grant \in grants /\ worker[w].version = 3
    BY <1>12 DEF ReportResult, DispatchInv, WorkersStarted
  <2>2. UNCHANGED storeVars
        \/ \E o \in Outcomes : AcceptResult(worker[w].grant, worker[w].version, o, now)
    BY <1>12 DEF ReportResult
  <2> QED
    BY <2>1, <2>2 DEF StoreEffect
<1>13. CASE ControllerCrash
  BY <1>13 DEF ControllerCrash, StoreEffect
<1>14. ASSUME NEW w \in Workers, WorkerCrash(w) PROVE StoreEffect
  BY <1>14 DEF WorkerCrash, StoreEffect
<1>15. ASSUME NEW a \in Attempts, LoseJob(a) PROVE StoreEffect
  BY <1>15 DEF LoseJob, StoreEffect
<1>16. CASE TimePasses
  BY <1>16 DEF TimePasses, StoreEffect
<1> QED
  BY <1>1, <1>2, <1>3, <1>4, <1>5, <1>6, <1>7, <1>8, <1>9, <1>10, <1>11, <1>12, <1>13,
     <1>14, <1>15, <1>16 DEF Next, PassStep, ReconcileStep, WorkerStep

\* Every step of the controller and the workers is a step of the store.
LEMMA StepOfStore ==
  ASSUME DispatchInv, StoreEffect
  PROVE  [StoreNext]_storeVars
<1>1. now \in Nat /\ recon.at \in Nat /\ recon.at <= now
  BY DEF DispatchInv, TypeOK, ProcessesOK, Recon
<1>2. now \in 0..now /\ recon.at \in 0..now
  BY <1>1
<1>3. ASSUME NEW n \in Nodes, NEW v, NEW s \in NodeStates, TransitionNode(n, v, s)
      PROVE  v \in Versions
  <2>1. nodeState[n] \in {"pending", "ready", "in_progress"} /\ nodeVersion[n] = v
    BY <1>3 DEF TransitionNode, isValidTransition
  <2>2. nodeVersion[n] \in 1..4
    BY <2>1 DEF DispatchInv, VersionTellsState
  <2> QED
    BY <2>1, <2>2 DEF Versions
<1>4. "ready" \in NodeStates /\ "in_progress" \in NodeStates /\ 3 \in Versions
  BY DEF NodeStates, Versions
<1>5. ASSUME NEW n \in Nodes, Release(n) PROVE StoreNext
  BY <1>3, <1>4, <1>5 DEF Release, StoreNext
<1>6. ASSUME NEW n \in Nodes, TransitionNode(n, nodeVersion[n], "in_progress") PROVE StoreNext
  BY <1>3, <1>4, <1>6 DEF StoreNext
<1>7. ASSUME NEW a \in Attempts, ClaimLease(a, "worker", now) PROVE StoreNext
  BY <1>2, <1>7 DEF StoreNext
<1>8. ASSUME NEW a \in Attempts, Reclaim(a) PROVE StoreNext
  BY <1>2, <1>8 DEF Reclaim, StoreNext
<1>9. ASSUME NEW g \in grants, NEW o \in Outcomes, AcceptResult(g, 3, o, now) PROVE StoreNext
  BY <1>4, <1>9 DEF StoreNext
<1>10. \/ UNCHANGED storeVars \/ StoreNext
       \/ \E n \in Nodes : Release(n)
       \/ \E n \in Nodes : TransitionNode(n, nodeVersion[n], "in_progress")
       \/ \E a \in Attempts : ClaimLease(a, "worker", now)
       \/ \E a \in Attempts : Reclaim(a)
       \/ \E g \in grants, o \in Outcomes : AcceptResult(g, 3, o, now)
  BY DEF StoreEffect, StoreNext
<1> QED
  BY <1>5, <1>6, <1>7, <1>8, <1>9, <1>10

-----------------------------------------------------------------------------
(* The store's parts of the invariant.                                     *)

\* Nodes only move forward: an imported node keeps its dependencies, a passed
\* one stays passed, and the version keeps count.
LEMMA NodesMoveForward ==
  ASSUME DispatchInv, StoreEffect
  PROVE  /\ VersionTellsState'
         /\ \A n \in Nodes : nodeState[n] # "absent" =>
              nodeState'[n] # "absent" /\ dependencies'[n] = dependencies[n]
         /\ \A n \in Nodes : nodeState[n] = "passed" => nodeState'[n] = "passed"
         /\ StartedAfterDependencies'
<1>1. /\ nodeState \in [Nodes -> NodeStates] /\ nodeVersion \in [Nodes -> Nat]
      /\ dependencies \in [Nodes -> SUBSET Nodes] /\ accepted \in [Attempts -> Result]
      /\ VersionTellsState /\ StartedAfterDependencies
  BY DEF DispatchInv, TypeOK
<1>2. CASE UNCHANGED <<dependencies, nodeState, nodeVersion>>
  BY <1>1, <1>2 DEF VersionTellsState, StartedAfterDependencies
<1>3. ASSUME NEW w \in Works, NEW d \in Manifests, ImportApprovedWork(w, d)
      PROVE  /\ VersionTellsState'
             /\ \A n \in Nodes : nodeState[n] # "absent" =>
                  nodeState'[n] # "absent" /\ dependencies'[n] = dependencies[n]
             /\ \A n \in Nodes : nodeState[n] = "passed" => nodeState'[n] = "passed"
             /\ StartedAfterDependencies'
  <2>1. \A n \in Nodes :
          /\ WorkOf[n] = w => /\ nodeState[n] = "absent"
                              /\ nodeState'[n] = "pending" /\ nodeVersion'[n] = 1
          /\ WorkOf[n] # w => /\ nodeState'[n] = nodeState[n]
                              /\ nodeVersion'[n] = nodeVersion[n]
                              /\ dependencies'[n] = dependencies[n]
    BY <1>3 DEF ImportApprovedWork
  <2>2. VersionTellsState'
    BY <1>1, <2>1 DEF VersionTellsState, TerminalStates
  <2>3. \A n \in Nodes : nodeState[n] = "passed" => nodeState'[n] = "passed"
    BY <2>1
  <2>4. StartedAfterDependencies'
    <3> SUFFICES ASSUME NEW n \in Nodes, nodeState'[n] \notin {"absent", "pending"},
                        NEW m \in dependencies'[n]
                 PROVE  nodeState'[m] = "passed"
      BY DEF StartedAfterDependencies
    <3>1. nodeState'[n] = nodeState[n] /\ dependencies'[n] = dependencies[n]
      BY <2>1
    <3>2. m \in Nodes /\ nodeState[m] = "passed"
      BY <1>1, <3>1 DEF StartedAfterDependencies
    <3> QED
      BY <2>3, <3>2
  <2> QED
    BY <2>1, <2>2, <2>3, <2>4
<1>4. ASSUME NEW n \in Nodes, NEW s \in NodeStates,
             isValidTransition(nodeState[n], s),
             nodeState' = [nodeState EXCEPT ![n] = s],
             nodeVersion' = [nodeVersion EXCEPT ![n] = @ + 1],
             UNCHANGED dependencies,
             nodeState[n] = "pending" => \A m \in dependencies[n] : nodeState[m] = "passed"
      PROVE  /\ VersionTellsState'
             /\ \A k \in Nodes : nodeState[k] # "absent" =>
                  nodeState'[k] # "absent" /\ dependencies'[k] = dependencies[k]
             /\ \A k \in Nodes : nodeState[k] = "passed" => nodeState'[k] = "passed"
             /\ StartedAfterDependencies'
  <2>1. /\ nodeState'[n] = s /\ nodeVersion'[n] = nodeVersion[n] + 1
        /\ \A k \in Nodes : k # n => nodeState'[k] = nodeState[k] /\ nodeVersion'[k] = nodeVersion[k]
    BY <1>1, <1>4
  <2>2. \/ nodeState[n] = "pending" /\ s = "ready" /\ nodeVersion[n] = 1
        \/ nodeState[n] = "ready" /\ s = "in_progress" /\ nodeVersion[n] = 2
        \/ nodeState[n] = "in_progress" /\ s \in TerminalStates /\ nodeVersion[n] = 3
    BY <1>1, <1>4 DEF isValidTransition, VersionTellsState
  <2>3. VersionTellsState'
    <3> SUFFICES ASSUME NEW k \in Nodes
                 PROVE  /\ nodeState'[k] = "absent" <=> nodeVersion'[k] = 0
                        /\ nodeState'[k] = "pending" <=> nodeVersion'[k] = 1
                        /\ nodeState'[k] = "ready" <=> nodeVersion'[k] = 2
                        /\ nodeState'[k] = "in_progress" <=> nodeVersion'[k] = 3
                        /\ nodeState'[k] \in TerminalStates <=> nodeVersion'[k] = 4
      BY DEF VersionTellsState
    <3>1. CASE k = n
      BY <2>1, <2>2, <3>1 DEF TerminalStates
    <3>2. CASE k # n
      BY <1>1, <2>1, <3>2 DEF VersionTellsState
    <3> QED
      BY <3>1, <3>2
  <2>4. \A k \in Nodes : nodeState[k] = "passed" => nodeState'[k] = "passed"
    BY <2>1, <2>2
  <2>5. \A k \in Nodes : nodeState[k] # "absent" =>
          nodeState'[k] # "absent" /\ dependencies'[k] = dependencies[k]
    BY <1>4, <2>1, <2>2 DEF TerminalStates
  <2>6. StartedAfterDependencies'
    <3> SUFFICES ASSUME NEW k \in Nodes, nodeState'[k] \notin {"absent", "pending"},
                        NEW m \in dependencies'[k]
                 PROVE  nodeState'[m] = "passed"
      BY DEF StartedAfterDependencies
    <3>1. m \in Nodes /\ m \in dependencies[k]
      BY <1>1, <1>4
    <3>2. nodeState[m] = "passed"
      BY <1>1, <1>4, <2>1, <2>2, <3>1 DEF StartedAfterDependencies
    <3> QED
      BY <2>4, <3>1, <3>2
  <2> QED
    BY <2>3, <2>4, <2>5, <2>6
<1>5. ASSUME NEW n \in Nodes, Release(n)
      PROVE  /\ isValidTransition(nodeState[n], "ready")
             /\ nodeState' = [nodeState EXCEPT ![n] = "ready"]
             /\ nodeVersion' = [nodeVersion EXCEPT ![n] = @ + 1]
             /\ UNCHANGED dependencies
             /\ \A m \in dependencies[n] : nodeState[m] = "passed"
             /\ "ready" \in NodeStates
  BY <1>5 DEF Release, TransitionNode, NodeStates
<1>6. ASSUME NEW n \in Nodes, TransitionNode(n, nodeVersion[n], "in_progress")
      PROVE  /\ isValidTransition(nodeState[n], "in_progress")
             /\ nodeState' = [nodeState EXCEPT ![n] = "in_progress"]
             /\ nodeVersion' = [nodeVersion EXCEPT ![n] = @ + 1]
             /\ UNCHANGED dependencies
             /\ nodeState[n] # "pending"
             /\ "in_progress" \in NodeStates
  BY <1>6 DEF TransitionNode, NodeStates, isValidTransition
<1>7. ASSUME NEW a \in Attempts, CompleteAuthorizedResult(a)
      PROVE  /\ NodeOf[a] \in Nodes
             /\ isValidTransition(nodeState[NodeOf[a]], accepted[a].outcome)
             /\ nodeState' = [nodeState EXCEPT ![NodeOf[a]] = accepted[a].outcome]
             /\ nodeVersion' = [nodeVersion EXCEPT ![NodeOf[a]] = @ + 1]
             /\ UNCHANGED dependencies
             /\ nodeState[NodeOf[a]] # "pending"
             /\ accepted[a].outcome \in NodeStates
  <2>1. nodeState[NodeOf[a]] = "in_progress" /\ accepted[a].outcome \in TerminalStates
    <3>1. accepted[a].outcome \in Outcomes \cup {"none"}
      BY <1>1 DEF Result
    <3> QED
      BY <1>7, <3>1 DEF CompleteAuthorizedResult, isValidTransition, TerminalStates, Outcomes
  <2> QED
    BY <1>7, <2>1 DEF CompleteAuthorizedResult, NodeStates, TerminalStates
<1>8. \/ UNCHANGED <<dependencies, nodeState, nodeVersion>>
      \/ \E w \in Works, d \in Manifests : ImportApprovedWork(w, d)
      \/ \E n \in Nodes : Release(n)
      \/ \E n \in Nodes : TransitionNode(n, nodeVersion[n], "in_progress")
      \/ \E a \in Attempts : CompleteAuthorizedResult(a)
  BY DEF StoreEffect, storeVars, nodeVars, CreateAttempt, ClaimLease, Reclaim, ReclaimLease,
         DropLease, AcceptResult, Tick
<1> QED
  BY <1>2, <1>3, <1>4, <1>5, <1>6, <1>7, <1>8

\* Results, leases and verdicts.
ResultsOK == AcceptedKeepsLease /\ AuthorizedInProgress /\ TerminalDecided

LEMMA ResultsStep ==
  ASSUME DispatchInv, StoreEffect
  PROVE  ResultsOK'
<1> USE DEF ResultsOK
<1>1. /\ TypeOK /\ VersionTellsState /\ ResultsOK /\ ReclaimListCurrent
      /\ AuthorizationShadowsResult /\ LeaseRowIsNewest
  BY DEF DispatchInv, StoreInv
<1>2. \A a \in Attempts : NodeOf[a] \in Nodes /\ deriveAttemptId(NodeOf[a]) = a
  BY DerivedAttempt
<1>3. \A n \in Nodes : deriveAttemptId(n) \in Attempts /\ NodeOf[deriveAttemptId(n)] = n
  BY DerivedAttempt
<1>4. NoResult.outcome = "none" /\ "none" \notin TerminalStates
  BY DEF NoResult, TerminalStates
<1>5. CASE UNCHANGED storeVars
  BY <1>1, <1>5 DEF storeVars, AcceptedKeepsLease, AuthorizedInProgress, TerminalDecided
<1>6. CASE Tick
  BY <1>1, <1>6 DEF Tick, nodeVars, leaseVars, resultVars, AcceptedKeepsLease,
     AuthorizedInProgress, TerminalDecided
<1>7. ASSUME NEW w \in Works, NEW d \in Manifests, ImportApprovedWork(w, d) PROVE ResultsOK'
  <2>1. \A n \in Nodes : \/ nodeState'[n] = nodeState[n]
                         \/ nodeState[n] = "absent" /\ nodeState'[n] = "pending"
    BY <1>7 DEF ImportApprovedWork
  <2>2. UNCHANGED <<accepted, authorizations, attemptState, leases, leaseGeneration>>
    BY <1>7 DEF ImportApprovedWork, leaseVars, resultVars
  <2>3. AcceptedKeepsLease'
    BY <1>1, <2>2 DEF AcceptedKeepsLease
  <2>4. AuthorizedInProgress'
    <3> SUFFICES ASSUME NEW b \in Attempts, authorizations[b] # 0
                 PROVE  /\ authorizations[b] = 3 /\ accepted[b].outcome \in Outcomes
                        /\ nodeState'[NodeOf[b]] = "in_progress"
      BY <2>2 DEF AuthorizedInProgress
    <3>1. NodeOf[b] \in Nodes /\ nodeState[NodeOf[b]] = "in_progress"
      BY <1>1, <1>2 DEF AuthorizedInProgress
    <3>2. nodeState'[NodeOf[b]] = nodeState[NodeOf[b]]
      BY <2>1, <3>1
    <3> QED
      BY <1>1, <3>1, <3>2 DEF AuthorizedInProgress
  <2>5. TerminalDecided'
    BY <1>1, <2>1, <2>2 DEF TerminalDecided, TerminalStates
  <2> QED
    BY <2>3, <2>4, <2>5
<1>8. ASSUME NEW n \in Nodes, NEW s \in {"ready", "in_progress"}, NEW v, TransitionNode(n, v, s)
      PROVE  ResultsOK'
  <2>1. /\ nodeState[n] \in {"pending", "ready"} /\ nodeState'[n] = s
        /\ \A k \in Nodes : k # n => nodeState'[k] = nodeState[k]
    BY <1>1, <1>8 DEF TransitionNode, isValidTransition, TerminalStates, TypeOK
  <2>2. UNCHANGED <<accepted, authorizations, attemptState, leases, leaseGeneration>>
    BY <1>8 DEF TransitionNode, leaseVars, resultVars
  <2>3. AcceptedKeepsLease'
    BY <1>1, <2>2 DEF AcceptedKeepsLease
  <2>4. AuthorizedInProgress'
    <3> SUFFICES ASSUME NEW b \in Attempts, authorizations[b] # 0
                 PROVE  /\ authorizations[b] = 3 /\ accepted[b].outcome \in Outcomes
                        /\ nodeState'[NodeOf[b]] = "in_progress"
      BY <2>2 DEF AuthorizedInProgress
    <3>1. NodeOf[b] \in Nodes /\ nodeState[NodeOf[b]] = "in_progress"
      BY <1>1, <1>2 DEF AuthorizedInProgress
    <3>2. nodeState'[NodeOf[b]] = nodeState[NodeOf[b]]
      BY <2>1, <3>1
    <3> QED
      BY <1>1, <3>1, <3>2 DEF AuthorizedInProgress
  <2>5. TerminalDecided'
    BY <1>1, <2>1, <2>2 DEF TerminalDecided, TerminalStates
  <2> QED
    BY <2>3, <2>4, <2>5
<1>9. ASSUME NEW a \in Attempts, NEW m \in Models, CreateAttempt(a, m) PROVE ResultsOK'
  <2>1. accepted[a] = NoResult
    BY <1>1, <1>9 DEF CreateAttempt, AcceptedKeepsLease
  <2>2. UNCHANGED <<nodeState, accepted, authorizations, leases, leaseGeneration>>
        /\ \A b \in Attempts : b # a => attemptState'[b] = attemptState[b]
    BY <1>1, <1>9 DEF CreateAttempt, nodeVars, leaseVars, resultVars, TypeOK
  <2> QED
    BY <1>1, <2>1, <2>2 DEF AcceptedKeepsLease, AuthorizedInProgress, TerminalDecided
<1>10. ASSUME NEW a \in Attempts, ClaimLease(a, "worker", now) PROVE ResultsOK'
  <2>1. accepted[a] = NoResult
    BY <1>1, <1>10 DEF ClaimLease, AcceptedKeepsLease
  <2>2. UNCHANGED <<nodeState, accepted, authorizations>>
        /\ \A b \in Attempts : b # a =>
             /\ attemptState'[b] = attemptState[b] /\ leases'[b] = leases[b]
             /\ leaseGeneration'[b] = leaseGeneration[b]
    BY <1>1, <1>10 DEF ClaimLease, nodeVars, resultVars, TypeOK
  <2> QED
    BY <1>1, <2>1, <2>2 DEF AcceptedKeepsLease, AuthorizedInProgress, TerminalDecided
<1>11. ASSUME NEW a \in Attempts, Reclaim(a) PROVE ResultsOK'
  <2>1. accepted[a] = NoResult
    BY <1>1, <1>11 DEF Reclaim, ReclaimListCurrent
  <2>2. UNCHANGED <<nodeState, accepted, authorizations, leaseGeneration>>
        /\ \A b \in Attempts : b # a =>
             /\ attemptState'[b] = attemptState[b] /\ leases'[b] = leases[b]
    BY <1>1, <1>11 DEF Reclaim, ReclaimLease, DropLease, nodeVars, resultVars, TypeOK
  <2> QED
    BY <1>1, <2>1, <2>2 DEF AcceptedKeepsLease, AuthorizedInProgress, TerminalDecided
<1>12. ASSUME NEW g \in grants, NEW o \in Outcomes, AcceptResult(g, 3, o, now) PROVE ResultsOK'
  <2> DEFINE a == g.attempt
  <2>1. a \in Attempts
    BY <1>1 DEF TypeOK, Grant
  <2>2. /\ UNCHANGED <<nodeState, leases, leaseGeneration>>
        /\ \A b \in Attempts : b # a =>
             /\ attemptState'[b] = attemptState[b] /\ accepted'[b] = accepted[b]
             /\ authorizations'[b] = authorizations[b]
        /\ accepted'[a].generation = g.generation /\ accepted'[a].outcome = o
        /\ authorizations'[a] = 3 /\ attemptState'[a] = "result_accepted"
        /\ accepted[a] = NoResult /\ nodeVersion[NodeOf[a]] = 3
        /\ leases[a].generation # 0 /\ leases[a].generation = g.generation
    BY <1>1, <1>12, <2>1 DEF AcceptResult, LeaseValid, nodeVars, leaseVars, TypeOK
  <2> HIDE DEF a
  <2>3. leases[a] # NoLease /\ leaseGeneration[a] = g.generation
    <3>1. leases[a] # NoLease
      BY <2>2 DEF NoLease
    <3> QED
      BY <1>1, <2>1, <2>2, <3>1 DEF LeaseRowIsNewest
  <2>4. nodeState[NodeOf[a]] = "in_progress"
    BY <1>1, <1>2, <2>1, <2>2 DEF VersionTellsState
  <2>5. AcceptedKeepsLease'
    BY <1>1, <2>1, <2>2, <2>3 DEF AcceptedKeepsLease
  <2>6. AuthorizedInProgress'
    BY <1>1, <2>1, <2>2, <2>4 DEF AuthorizedInProgress
  <2>7. TerminalDecided'
    <3> SUFFICES ASSUME NEW n \in Nodes, nodeState'[n] \in TerminalStates
                 PROVE  /\ accepted'[deriveAttemptId(n)].outcome = nodeState'[n]
                        /\ authorizations'[deriveAttemptId(n)] = 0
      BY DEF TerminalDecided
    <3>1. n # NodeOf[a] /\ nodeState[n] \in TerminalStates
      BY <2>2, <2>4 DEF TerminalStates
    <3>2. deriveAttemptId(n) # a /\ deriveAttemptId(n) \in Attempts
      BY <1>3, <2>1, <3>1
    <3> QED
      BY <1>1, <2>2, <3>1, <3>2 DEF TerminalDecided
  <2> QED
    BY <2>5, <2>6, <2>7
<1>13. ASSUME NEW a \in Attempts, CompleteAuthorizedResult(a) PROVE ResultsOK'
  <2> DEFINE n == NodeOf[a]
  <2>1. /\ UNCHANGED <<accepted, leases, leaseGeneration>>
        /\ n \in Nodes
        /\ nodeState'[n] = accepted[a].outcome
        /\ \A k \in Nodes : k # n => nodeState'[k] = nodeState[k]
        /\ authorizations'[a] = 0 /\ attemptState'[a] = "completed"
        /\ \A b \in Attempts : b # a => /\ attemptState'[b] = attemptState[b]
                                        /\ authorizations'[b] = authorizations[b]
    BY <1>1, <1>13 DEF CompleteAuthorizedResult, leaseVars, TypeOK
  <2> HIDE DEF n
  <2>2. \A b \in Attempts : b # a => NodeOf[b] # n
    BY <1>2 DEF n
  <2>3. AcceptedKeepsLease'
    BY <1>1, <2>1 DEF AcceptedKeepsLease
  <2>4. AuthorizedInProgress'
    <3> SUFFICES ASSUME NEW b \in Attempts, authorizations'[b] # 0
                 PROVE  /\ authorizations'[b] = 3 /\ accepted'[b].outcome \in Outcomes
                        /\ nodeState'[NodeOf[b]] = "in_progress"
      BY DEF AuthorizedInProgress
    <3>1. b # a
      BY <2>1
    <3>2. authorizations'[b] = authorizations[b] /\ nodeState'[NodeOf[b]] = nodeState[NodeOf[b]]
      BY <1>2, <2>1, <2>2, <3>1
    <3> QED
      BY <1>1, <2>1, <3>2 DEF AuthorizedInProgress
  <2>5. TerminalDecided'
    <3> SUFFICES ASSUME NEW k \in Nodes, nodeState'[k] \in TerminalStates
                 PROVE  /\ accepted'[deriveAttemptId(k)].outcome = nodeState'[k]
                        /\ authorizations'[deriveAttemptId(k)] = 0
      BY DEF TerminalDecided
    <3>1. CASE k = n
      <4>1. deriveAttemptId(k) = a
        BY <1>2, <3>1 DEF n
      <4> QED
        BY <2>1, <3>1, <4>1
    <3>2. CASE k # n
      <4>1. deriveAttemptId(k) # a /\ deriveAttemptId(k) \in Attempts
        BY <1>3, <3>2 DEF n
      <4> QED
        BY <1>1, <2>1, <3>2, <4>1 DEF TerminalDecided
    <3> QED
      BY <3>1, <3>2
  <2> QED
    BY <2>3, <2>4, <2>5
<1> QED
  BY <1>5, <1>6, <1>7, <1>8, <1>9, <1>10, <1>11, <1>12, <1>13 DEF StoreEffect, Release

-----------------------------------------------------------------------------
(* The processes' parts of the invariant.                                  *)

\* The clock does not run back and a granted lease is remembered.
LEMMA StoreKeeps ==
  ASSUME TypeOK, StoreEffect
  PROVE  now' >= now /\ grants \subseteq grants'
<1>1. UNCHANGED now \/ Tick
  BY DEF StoreEffect, storeVars, ImportApprovedWork, Release, TransitionNode, CreateAttempt,
         ClaimLease, Reclaim, ReclaimLease, DropLease, AcceptResult, CompleteAuthorizedResult
<1>2. now' >= now
  BY <1>1 DEF Tick, TypeOK
<1>3. UNCHANGED grants \/ \E a \in Attempts : ClaimLease(a, "worker", now)
  BY DEF StoreEffect, storeVars, leaseVars, ImportApprovedWork, Release, TransitionNode,
         CreateAttempt, Reclaim, ReclaimLease, DropLease, AcceptResult,
         CompleteAuthorizedResult, Tick
<1>4. grants \subseteq grants'
  BY <1>3 DEF ClaimLease
<1> QED
  BY <1>2, <1>4

\* A pass keeps its snapshot and drops entries, is over, or has just listed the
\* nodes, in which case the store did not change.
PassMoves(d) ==
  /\ passes'[d] \in Pass
  /\ passes'[d].pc # "idle" => passes'[d].todo # {}
  /\ \/ passes'[d].snapshot = passes[d].snapshot /\ passes'[d].todo \subseteq passes[d].todo
     \/ passes'[d] = IdlePass
     \/ /\ UNCHANGED storeVars
        /\ passes'[d].snapshot.state = nodeState
        /\ passes'[d].todo = computeReadyFrontier(passes'[d].snapshot, blockers)

LEMMA PassesStep ==
  ASSUME DispatchInv, [Next]_vars
  PROVE  passes' \in [Dispatchers -> Pass] /\ \A d \in Dispatchers : PassMoves(d)
<1>1. passes \in [Dispatchers -> Pass]
      /\ \A d \in Dispatchers : passes[d].pc # "idle" => passes[d].todo # {}
  BY DEF DispatchInv, ProcessesOK
<1>2. \A d \in Dispatchers : passes'[d] = passes[d] => PassMoves(d)
  BY <1>1 DEF PassMoves
<1>3. ASSUME NEW d \in Dispatchers, NEW p \in Pass, passes' = [passes EXCEPT ![d] = p],
             PassMoves(d)
      PROVE  passes' \in [Dispatchers -> Pass] /\ \A e \in Dispatchers : PassMoves(e)
  BY <1>1, <1>2, <1>3
<1>4. ASSUME NEW d \in Dispatchers, SkipEntry(d), passes[d].pc # "idle"
      PROVE  passes' \in [Dispatchers -> Pass] /\ \A e \in Dispatchers : PassMoves(e)
  <2> DEFINE p == Advanced(passes[d])
  <2>1. passes[d] \in Pass /\ passes[d].todo # {}
    BY <1>1, <1>4
  <2>2. /\ p \in Pass
        /\ p.pc # "idle" => p.todo # {}
        /\ \/ p = IdlePass
           \/ p.snapshot = passes[d].snapshot /\ p.todo \subseteq passes[d].todo
    BY <2>1, AdvancedOK
  <2>3. passes' = [passes EXCEPT ![d] = p]
    BY <1>4 DEF SkipEntry
  <2> HIDE DEF p
  <2>4. passes'[d] = p
    BY <1>1, <2>3
  <2>5. PassMoves(d)
    BY <2>2, <2>4 DEF PassMoves
  <2> QED
    BY <1>3, <2>2, <2>3, <2>5
<1>5. ASSUME NEW d \in Dispatchers, NEW pc \in {"route", "enqueue"},
             passes' = [passes EXCEPT ![d].pc = pc], passes[d].pc # "idle"
      PROVE  passes' \in [Dispatchers -> Pass] /\ \A e \in Dispatchers : PassMoves(e)
  <2> DEFINE p == [passes[d] EXCEPT !.pc = pc]
  <2>1. passes[d] \in Pass /\ passes[d].todo # {}
    BY <1>1, <1>5
  <2>2. p \in Pass /\ p.snapshot = passes[d].snapshot /\ p.todo = passes[d].todo
    BY <2>1 DEF Pass
  <2>3. passes' = [passes EXCEPT ![d] = p]
    BY <1>5
  <2> HIDE DEF p
  <2>4. passes'[d] = p
    BY <1>1, <2>3
  <2>5. PassMoves(d)
    BY <2>1, <2>2, <2>4 DEF PassMoves
  <2> QED
    BY <1>3, <2>2, <2>3, <2>5
<1>6. ASSUME NEW d \in Dispatchers, StartPass(d)
      PROVE  passes' \in [Dispatchers -> Pass] /\ \A e \in Dispatchers : PassMoves(e)
  <2> DEFINE snap == [state |-> nodeState, version |-> nodeVersion]
             todo == computeReadyFrontier(snap, blockers)
             p == [pc |-> "entry", snapshot |-> snap, todo |-> todo]
  <2>1. passes' = [passes EXCEPT ![d] = p] /\ todo # {} /\ UNCHANGED storeVars
    BY <1>6 DEF StartPass
  <2>2. snap \in Snapshot /\ todo \in SUBSET Nodes
    BY DEF Snapshot, DispatchInv, TypeOK, computeReadyFrontier
  <2>3. p \in Pass /\ p.snapshot = snap /\ p.todo = todo /\ snap.state = nodeState
    <3> HIDE DEF todo
    <3> QED
      BY <2>2 DEF Pass
  <2>4. passes'[d] = p
    BY <1>1, <2>1
  <2> HIDE DEF p
  <2>5. PassMoves(d)
    BY <2>1, <2>3, <2>4 DEF PassMoves
  <2> QED
    BY <1>3, <2>1, <2>3, <2>5
<1>7. ASSUME NEW d \in Dispatchers, VisitEntry(d) \/ RouteEntry(d) \/ EnqueueEntry(d)
      PROVE  passes' \in [Dispatchers -> Pass] /\ \A e \in Dispatchers : PassMoves(e)
  <2>1. passes[d].pc # "idle"
    BY <1>7 DEF VisitEntry, RouteEntry, EnqueueEntry
  <2>2. SkipEntry(d) \/ \E pc \in {"route", "enqueue"} : passes' = [passes EXCEPT ![d].pc = pc]
    BY <1>7 DEF VisitEntry, RouteEntry, EnqueueEntry
  <2> QED
    BY <1>4, <1>5, <2>1, <2>2
<1>8. CASE ControllerCrash
  <2>1. \A d \in Dispatchers : passes'[d] = IdlePass
    BY <1>8 DEF ControllerCrash
  <2>2. passes' = [d \in Dispatchers |-> IdlePass]
    BY <1>8 DEF ControllerCrash
  <2> QED
    BY <2>1, <2>2, IdlePassOK DEF PassMoves
<1>9. CASE UNCHANGED passes
  BY <1>1, <1>2, <1>9
<1>10. \/ \E d \in Dispatchers : StartPass(d) \/ VisitEntry(d) \/ RouteEntry(d) \/ EnqueueEntry(d)
       \/ ControllerCrash
       \/ UNCHANGED passes
  BY DEF Next, vars, ctlVars, Import, PassStep, ReconcileStep, StartReconcile, ReconcileJob,
     ReconcileReclaim, ReconcileComplete, RemoveCompletedJob, WorkerStep, consumeQueueEnvelope,
     StartNode, ClaimJob, ReportResult, WorkerCrash, LoseJob, TimePasses
<1> QED
  BY <1>6, <1>7, <1>8, <1>9, <1>10

LEMMA SnapshotsStep ==
  ASSUME DispatchInv, [Next]_vars
  PROVE  SnapshotsCurrent'
<1>1. StoreEffect
  BY EffectOfStep
<1>2. /\ \A n \in Nodes : nodeState[n] # "absent" =>
           nodeState'[n] # "absent" /\ dependencies'[n] = dependencies[n]
      /\ \A n \in Nodes : nodeState[n] = "passed" => nodeState'[n] = "passed"
  BY <1>1, NodesMoveForward
<1> SUFFICES ASSUME NEW d \in Dispatchers
             PROVE  /\ \A m \in Nodes :
                         passes'[d].snapshot.state[m] = "passed" => nodeState'[m] = "passed"
                    /\ \A n \in passes'[d].todo :
                         /\ nodeState'[n] # "absent"
                         /\ \A m \in dependencies'[n] : passes'[d].snapshot.state[m] = "passed"
  BY DEF SnapshotsCurrent
<1>3. PassMoves(d) /\ passes[d] \in Pass
  BY PassesStep DEF DispatchInv, ProcessesOK
<1>4. CASE passes'[d].snapshot = passes[d].snapshot /\ passes'[d].todo \subseteq passes[d].todo
  <2>1. passes[d].todo \subseteq Nodes
    BY <1>3 DEF Pass
  <2>2. /\ \A m \in Nodes : passes[d].snapshot.state[m] = "passed" => nodeState[m] = "passed"
        /\ \A n \in passes[d].todo :
             /\ nodeState[n] # "absent"
             /\ \A m \in dependencies[n] : passes[d].snapshot.state[m] = "passed"
    BY DEF DispatchInv, SnapshotsCurrent
  <2>3. ASSUME NEW n \in passes'[d].todo
        PROVE  /\ nodeState'[n] # "absent"
               /\ \A m \in dependencies'[n] : passes'[d].snapshot.state[m] = "passed"
    <3>1. n \in Nodes /\ n \in passes[d].todo
      BY <1>4, <2>1
    <3> QED
      BY <1>2, <1>4, <2>2, <3>1
  <2>4. \A m \in Nodes : passes'[d].snapshot.state[m] = "passed" => nodeState'[m] = "passed"
    BY <1>2, <1>4, <2>2
  <2> QED
    BY <2>3, <2>4
<1>5. CASE passes'[d] = IdlePass
  BY <1>5, IdlePassOK
<1>6. CASE /\ UNCHANGED storeVars
           /\ passes'[d].snapshot.state = nodeState
           /\ passes'[d].todo = computeReadyFrontier(passes'[d].snapshot, blockers)
  BY <1>6 DEF storeVars, computeReadyFrontier
<1> QED
  BY <1>3, <1>4, <1>5, <1>6 DEF PassMoves

\* The reconciliation: its list of attempts to reclaim is drawn from the store
\* as it is and only shrinks; nobody else drops or renews a lease.
LEMMA ReconStep ==
  ASSUME DispatchInv, [Next]_vars
  PROVE  /\ recon' \in Recon /\ recon'.at <= now'
         /\ ReclaimListCurrent'
<1>1. recon \in Recon /\ recon.at <= now /\ TypeOK /\ TypeOK' /\ StoreEffect /\ now' >= now
  BY EffectOfStep, StepOfStore, TypeOKStep, StoreKeeps DEF DispatchInv, ProcessesOK
<1>2. IdleRecon \in Recon /\ IdleRecon.at = 0 /\ IdleRecon.pc = "idle"
  BY DEF IdleRecon, Recon
<1>3. /\ recon' \in Recon /\ recon'.at <= now'
      /\ recon'.pc = "reclaim" =>
           \/ recon.pc = "reclaim" /\ recon'.at = recon.at /\ recon'.todo \subseteq recon.todo
           \/ UNCHANGED storeVars /\ recon'.todo = listAttemptsNeedingReconciliation(recon'.at)
  <2>1. now \in Nat /\ now' \in Nat /\ recon.at \in Nat
    BY <1>1 DEF TypeOK, Recon
  <2>2. CASE UNCHANGED recon
    BY <1>1, <2>1, <2>2
  <2>3. CASE recon' = IdleRecon
    BY <1>2, <2>1, <2>3
  <2>4. CASE StartReconcile
    BY <1>1, <2>1, <2>4 DEF StartReconcile, Recon
  <2>5. ASSUME NEW a, recon' = [recon EXCEPT !.todo = @ \ {a}]
        PROVE  /\ recon' \in Recon /\ recon'.at <= now'
               /\ recon'.pc = recon.pc /\ recon'.at = recon.at /\ recon'.todo \subseteq recon.todo
    BY <1>1, <2>1, <2>5 DEF Recon
  <2>6. CASE /\ recon' = [recon EXCEPT !.pc = "reclaim",
                                       !.todo = listAttemptsNeedingReconciliation(recon.at)]
             /\ UNCHANGED storeVars
    <3> DEFINE L == listAttemptsNeedingReconciliation(recon.at)
    <3>1. L \in SUBSET Attempts
      BY DEF listAttemptsNeedingReconciliation
    <3> HIDE DEF L
    <3>2. recon' = [recon EXCEPT !.pc = "reclaim", !.todo = L]
      BY <2>6 DEF L
    <3>3. recon' \in Recon /\ recon'.at = recon.at /\ recon'.todo = L
      BY <1>1, <3>1, <3>2 DEF Recon
    <3>4. recon'.todo = listAttemptsNeedingReconciliation(recon'.at)
      BY <3>3 DEF L
    <3> QED
      BY <1>1, <2>1, <2>6, <3>3, <3>4
  <2>7. CASE recon' = [recon EXCEPT !.pc = "complete", !.todo = listAuthorizedResults]
    <3>1. listAuthorizedResults \in SUBSET Attempts
      BY DEF listAuthorizedResults
    <3>2. recon' \in Recon /\ recon'.at = recon.at /\ recon'.pc = "complete"
      BY <1>1, <2>7, <3>1 DEF Recon
    <3> QED
      BY <1>1, <2>1, <3>2
  <2>8. ASSUME NEW a \in recon.todo,
               recon' = [recon EXCEPT !.pc = "remove", !.todo = @ \ {a}, !.job = a]
        PROVE  recon' \in Recon /\ recon'.at <= now' /\ recon'.pc # "reclaim"
    <3>1. a \in Attempts /\ recon.todo \ {a} \in SUBSET Attempts
      BY <1>1 DEF Recon
    <3>2. recon' \in Recon /\ recon'.at = recon.at /\ recon'.pc = "remove"
      BY <1>1, <2>8, <3>1 DEF Recon
    <3> QED
      BY <1>1, <2>1, <3>2
  <2>9. CASE recon' = [recon EXCEPT !.pc = "complete", !.job = NoAttempt]
    <3>1. recon' \in Recon /\ recon'.at = recon.at /\ recon'.pc = "complete"
      BY <1>1, <2>9 DEF Recon
    <3> QED
      BY <1>1, <2>1, <3>1
  <2>10. \/ UNCHANGED recon \/ recon' = IdleRecon \/ StartReconcile
         \/ \E a : recon' = [recon EXCEPT !.todo = @ \ {a}]
         \/ /\ recon' = [recon EXCEPT !.pc = "reclaim",
                                      !.todo = listAttemptsNeedingReconciliation(recon.at)]
            /\ UNCHANGED storeVars
         \/ recon' = [recon EXCEPT !.pc = "complete", !.todo = listAuthorizedResults]
         \/ \E a \in recon.todo :
              recon' = [recon EXCEPT !.pc = "remove", !.todo = @ \ {a}, !.job = a]
         \/ recon' = [recon EXCEPT !.pc = "complete", !.job = NoAttempt]
    <3>1. CASE ReconcileStep
      BY <3>1 DEF ReconcileStep, ReconcileJob, ReconcileReclaim, ReconcileComplete,
         RemoveCompletedJob
    <3>2. CASE ~ReconcileStep
      BY <3>2 DEF Next, vars, ctlVars, Import, PassStep, StartPass, VisitEntry, RouteEntry,
         EnqueueEntry, WorkerStep, consumeQueueEnvelope, StartNode, ClaimJob, ReportResult,
         ControllerCrash, WorkerCrash, LoseJob, TimePasses
    <3> QED
      BY <3>1, <3>2
  <2> QED
    BY <2>2, <2>3, <2>4, <2>5, <2>6, <2>7, <2>8, <2>9, <2>10
<1>4. ReclaimListCurrent'
  <2> SUFFICES ASSUME recon'.pc = "reclaim", NEW a \in recon'.todo
               PROVE  leases'[a] # NoLease /\ leases'[a].expires <= recon'.at
                      /\ accepted'[a] = NoResult
    BY DEF ReclaimListCurrent
  <2>1. a \in Attempts
    BY <1>3 DEF Recon
  <2>2. CASE UNCHANGED storeVars /\ recon'.todo = listAttemptsNeedingReconciliation(recon'.at)
    <3>1. attemptState[a] = "leased" /\ leases[a] # NoLease /\ leases[a].expires <= recon'.at
      BY <2>2 DEF listAttemptsNeedingReconciliation
    <3>2. accepted[a] = NoResult
      BY <2>1, <3>1 DEF DispatchInv, AcceptedKeepsLease
    <3> QED
      BY <2>2, <3>1, <3>2 DEF storeVars
  <2>3. CASE recon.pc = "reclaim" /\ recon'.at = recon.at /\ recon'.todo \subseteq recon.todo
    <3>1. a \in recon.todo /\ leases[a] # NoLease /\ leases[a].expires <= recon.at
          /\ accepted[a] = NoResult
      BY <2>3 DEF DispatchInv, ReclaimListCurrent
    <3>2. leases[a].expires \in Nat /\ now \in Nat /\ recon.at \in Nat
      BY <1>1, <2>1 DEF TypeOK, Lease, Recon
    <3>3. ~(leases[a].expires > now)
      BY <1>1, <3>1, <3>2
    <3>4. leases'[a] = leases[a]
      <4>1. CASE UNCHANGED leases
        BY <4>1
      <4>2. ASSUME NEW b \in Attempts, ClaimLease(b, "worker", now) PROVE leases'[a] = leases[a]
        BY <1>1, <2>1, <3>1, <4>2 DEF ClaimLease, TypeOK
      <4>3. ASSUME NEW b \in Attempts, Reclaim(b) PROVE leases'[a] = leases[a]
        BY <1>1, <2>1, <4>3 DEF Reclaim, ReclaimLease, DropLease, TypeOK
      <4> QED
        BY <1>1, <4>1, <4>2, <4>3 DEF StoreEffect, storeVars, leaseVars, ImportApprovedWork,
           Release, TransitionNode, CreateAttempt, AcceptResult, CompleteAuthorizedResult, Tick
    <3>5. accepted'[a] = accepted[a]
      <4>1. CASE UNCHANGED accepted
        BY <4>1
      <4>2. ASSUME NEW g \in grants, NEW o \in Outcomes, AcceptResult(g, 3, o, now)
            PROVE  accepted'[a] = accepted[a]
        <5>1. g.attempt # a
          BY <3>3, <4>2 DEF AcceptResult, LeaseValid
        <5> QED
          BY <1>1, <2>1, <4>2, <5>1 DEF AcceptResult, TypeOK
      <4> QED
        BY <1>1, <4>1, <4>2 DEF StoreEffect, storeVars, resultVars, ImportApprovedWork,
           Release, TransitionNode, CreateAttempt, ClaimLease, Reclaim, ReclaimLease,
           DropLease, CompleteAuthorizedResult, Tick
    <3> QED
      BY <2>3, <3>1, <3>4, <3>5
  <2> QED
    BY <1>3, <2>2, <2>3
<1> QED
  BY <1>3, <1>4

\* The workers: a lease is claimed only after the node was seen in progress.
LEMMA WorkersStep ==
  ASSUME DispatchInv, [Next]_vars
  PROVE  worker' \in [Workers -> Work] /\ WorkersStarted'
<1>1. /\ worker \in [Workers -> Work] /\ WorkersStarted /\ TypeOK /\ VersionTellsState
      /\ grants \subseteq grants' /\ TypeOK'
  BY EffectOfStep, StepOfStore, TypeOKStep, StoreKeeps DEF DispatchInv, ProcessesOK
<1>2. IdleWorker \in Work /\ IdleWorker.pc = "idle"
  BY DEF IdleWorker, Work
<1>3. ASSUME NEW w \in Workers, NEW k \in Work, worker' = [worker EXCEPT ![w] = k],
             k.pc # "idle" => k.attempt \in Attempts,
             k.pc \in {"claim", "run"} => k.version = 3,
             k.pc = "run" => k.grant \in grants'
      PROVE  worker' \in [Workers -> Work] /\ WorkersStarted'
  <2>1. worker' \in [Workers -> Work] /\ worker'[w] = k
        /\ \A x \in Workers : x # w => worker'[x] = worker[x]
    BY <1>1, <1>3
  <2> QED
    BY <1>1, <1>3, <2>1 DEF WorkersStarted
<1>4. ASSUME NEW w \in Workers, GiveUp(w)
      PROVE  worker' \in [Workers -> Work] /\ WorkersStarted'
  BY <1>2, <1>3, <1>4 DEF GiveUp
<1>5. ASSUME NEW w \in Workers, NEW a \in Attempts, consumeQueueEnvelope(w, a)
      PROVE  worker' \in [Workers -> Work] /\ WorkersStarted'
  <2> DEFINE k == [IdleWorker EXCEPT !.pc = "start", !.attempt = a]
  <2>1. k \in Work /\ k.pc = "start" /\ k.attempt = a
    BY DEF IdleWorker, Work
  <2>2. worker' = [worker EXCEPT ![w] = k]
    BY <1>5 DEF consumeQueueEnvelope
  <2> HIDE DEF k
  <2> QED
    BY <1>3, <2>1, <2>2
<1>6. ASSUME NEW w \in Workers, StartNode(w), ~GiveUp(w)
      PROVE  worker' \in [Workers -> Work] /\ WorkersStarted'
  <2> DEFINE k == [worker[w] EXCEPT !.pc = "claim", !.version = 3]
             n == NodeOf[worker[w].attempt]
  <2>1. worker[w] \in Work /\ worker[w].attempt \in Attempts /\ n \in Nodes
    BY <1>1, <1>6 DEF StartNode, WorkersStarted
  <2>2. k \in Work /\ k.pc = "claim" /\ k.version = 3 /\ k.attempt = worker[w].attempt
    BY <2>1 DEF Work
  <2>3. worker' = [worker EXCEPT ![w] = k]
    <3>1. CASE /\ TransitionNode(n, nodeVersion[n], "in_progress")
               /\ worker' = [worker EXCEPT ![w].pc = "claim", ![w].version = nodeVersion[n] + 1]
      <4>1. nodeVersion[n] = 2
        BY <1>1, <2>1, <3>1 DEF TransitionNode, isValidTransition, VersionTellsState, TerminalStates
      <4>2. nodeVersion[n] + 1 = 3
        BY <4>1
      <4> HIDE DEF n
      <4> QED
        BY <1>1, <3>1, <4>2
    <3>2. CASE /\ nodeState[n] = "in_progress"
               /\ worker' = [worker EXCEPT ![w].pc = "claim", ![w].version = nodeVersion[n]]
      <4>1. nodeVersion[n] = 3
        BY <1>1, <2>1, <3>2 DEF VersionTellsState
      <4> HIDE DEF n
      <4> QED
        BY <1>1, <3>2, <4>1
    <3> QED
      BY <1>6, <3>1, <3>2 DEF StartNode
  <2> HIDE DEF k
  <2> QED
    BY <1>3, <2>1, <2>2, <2>3
<1>7. ASSUME NEW w \in Workers, ClaimJob(w), ~GiveUp(w)
      PROVE  worker' \in [Workers -> Work] /\ WorkersStarted'
  <2> DEFINE a == worker[w].attempt
             g == [attempt |-> a, owner |-> "worker",
                   generation |-> leaseGeneration'[a], token |-> tokens']
             k == [worker[w] EXCEPT !.pc = "run", !.grant = g]
  <2>1. worker[w] \in Work /\ a \in Attempts /\ worker[w].version = 3
    BY <1>1, <1>7 DEF ClaimJob, WorkersStarted
  <2>2. ClaimLease(a, "worker", now)
        /\ worker' = [worker EXCEPT ![w].pc = "run", ![w].grant = g]
    BY <1>7 DEF ClaimJob
  <2>3. g \in grants' /\ g \in Grant
    <3>1. leaseGeneration'[a] = leaseGeneration[a] + 1 /\ tokens' = tokens + 1
      BY <1>1, <2>1, <2>2 DEF ClaimLease, TypeOK
    <3>2. g \in grants'
      BY <2>2, <3>1 DEF ClaimLease
    <3> QED
      BY <1>1, <3>2 DEF TypeOK
  <2> HIDE DEF g
  <2>4. k \in Work /\ k.pc = "run" /\ k.version = 3 /\ k.attempt = a /\ k.grant = g
    BY <2>1, <2>3 DEF Work
  <2>5. worker' = [worker EXCEPT ![w] = k]
    BY <1>1, <2>2
  <2> HIDE DEF k
  <2> QED
    BY <1>3, <2>1, <2>3, <2>4, <2>5
<1>8. CASE UNCHANGED worker
  BY <1>1, <1>8 DEF WorkersStarted
<1>9. \/ UNCHANGED worker
      \/ \E w \in Workers : \/ GiveUp(w) \/ StartNode(w) \/ ClaimJob(w)
                            \/ \E a \in Attempts : consumeQueueEnvelope(w, a)
  BY DEF Next, vars, ctlVars, Import, PassStep, StartPass, VisitEntry, RouteEntry,
     EnqueueEntry, ReconcileStep, StartReconcile, ReconcileJob, ReconcileReclaim,
     ReconcileComplete, RemoveCompletedJob, WorkerStep, ReportResult, ControllerCrash,
     WorkerCrash, LoseJob, TimePasses
<1> QED
  BY <1>4, <1>5, <1>6, <1>7, <1>8, <1>9

\* The queue, the blockers and the count of failures.
LEMMA SharedStep ==
  ASSUME DispatchInv, [Next]_vars
  PROVE  /\ queue' \subseteq Attempts
         /\ blockers' = blockers
         /\ failures' \in 0..MaxFailures
<1>1. queue \subseteq Attempts /\ recon \in Recon /\ failures \in 0..MaxFailures
  BY DEF DispatchInv, ProcessesOK
<1>2. blockers' = blockers
  BY DEF Next, vars, ctlVars, Import, PassStep, StartPass, VisitEntry, RouteEntry,
     EnqueueEntry, ReconcileStep, StartReconcile, ReconcileJob, ReconcileReclaim,
     ReconcileComplete, RemoveCompletedJob, WorkerStep, consumeQueueEnvelope, StartNode,
     ClaimJob, ReportResult, ControllerCrash, WorkerCrash, LoseJob, TimePasses
<1>3. UNCHANGED failures \/ (failures < MaxFailures /\ failures' = failures + 1)
  BY DEF Next, vars, ctlVars, Import, PassStep, StartPass, VisitEntry, RouteEntry,
     EnqueueEntry, ReconcileStep, StartReconcile, ReconcileJob, ReconcileReclaim,
     ReconcileComplete, RemoveCompletedJob, WorkerStep, consumeQueueEnvelope, StartNode,
     ClaimJob, ReportResult, ControllerCrash, WorkerCrash, LoseJob, TimePasses, Fail
<1>4. failures' \in 0..MaxFailures
  BY <1>1, <1>3
<1>5. ASSUME NEW d \in Dispatchers, EnqueueEntry(d) PROVE queue' \subseteq Attempts
  <2>1. First(passes[d].todo) \in Nodes
    BY <1>5, CurrentEntry DEF EnqueueEntry
  <2>2. deriveAttemptId(First(passes[d].todo)) \in Attempts
    BY <2>1, DerivedAttempt
  <2> QED
    BY <1>1, <1>5, <2>2 DEF EnqueueEntry
<1>6. CASE ReconcileJob
  BY <1>1, <1>6 DEF ReconcileJob, Recon
<1>7. queue' \subseteq queue \/ ReconcileJob \/ \E d \in Dispatchers : EnqueueEntry(d)
  BY DEF Next, vars, ctlVars, Import, PassStep, StartPass, VisitEntry, RouteEntry,
     ReconcileStep, StartReconcile, ReconcileReclaim, ReconcileComplete, RemoveCompletedJob,
     WorkerStep, consumeQueueEnvelope, StartNode, ClaimJob, ReportResult, ControllerCrash,
     WorkerCrash, LoseJob, TimePasses
<1> QED
  BY <1>1, <1>2, <1>4, <1>5, <1>6, <1>7

-----------------------------------------------------------------------------
(* The invariant, and the properties.                                      *)

LEMMA DispatchInit == Init => DispatchInv
<1> SUFFICES ASSUME Init PROVE DispatchInv
  OBVIOUS
<1>1. TypeOK
  BY StoreInitTypeOK DEF Init
<1>2. StoreInv
  BY DEF Init, StoreInit, StoreInv, LeaseRowIsNewest, GenerationsUnique,
     AuthorizationShadowsResult, CompletionAppliedOnce, OneDecidingAttempt, NoLease, NoResult
<1>3. ProcessesOK
  <2>1. /\ passes = [d \in Dispatchers |-> IdlePass] /\ worker = [w \in Workers |-> IdleWorker]
        /\ recon = IdleRecon /\ now = 0 /\ queue = {} /\ failures = 0
        /\ blockers \in [Nodes -> Nodes \cup {NoNode}]
    BY DEF Init, StoreInit
  <2>2. IdleRecon \in Recon /\ IdleRecon.at = 0 /\ IdleWorker \in Work
    BY DEF IdleRecon, Recon, IdleWorker, Work
  <2> QED
    BY <2>1, <2>2, IdlePassOK DEF ProcessesOK
<1>4. VersionTellsState /\ StartedAfterDependencies
  BY DEF Init, StoreInit, VersionTellsState, StartedAfterDependencies, TerminalStates
<1>5. WorkersStarted
  BY DEF Init, IdleWorker, WorkersStarted
<1>6. SnapshotsCurrent
  BY IdlePassOK DEF Init, SnapshotsCurrent
<1>7. AcceptedKeepsLease /\ AuthorizedInProgress
  BY DEF Init, StoreInit, AcceptedKeepsLease, AuthorizedInProgress
<1>8. TerminalDecided
  BY DEF Init, StoreInit, TerminalDecided, TerminalStates
<1>9. ReclaimListCurrent
  BY DEF Init, IdleRecon, ReclaimListCurrent
<1> QED
  BY <1>1, <1>2, <1>3, <1>4, <1>5, <1>6, <1>7, <1>8, <1>9 DEF DispatchInv

LEMMA DispatchInvStep == DispatchInv /\ [Next]_vars => DispatchInv'
<1> SUFFICES ASSUME DispatchInv, [Next]_vars PROVE DispatchInv'
  OBVIOUS
<1>1. StoreEffect
  BY EffectOfStep
<1>2. [StoreNext]_storeVars
  BY <1>1, StepOfStore
<1>3. TypeOK' /\ StoreInv'
  BY <1>2, TypeOKStep, LeaseInvStep, ResultInvStep DEF DispatchInv, StoreInv
<1>4. VersionTellsState' /\ StartedAfterDependencies'
  BY <1>1, NodesMoveForward
<1>5. AcceptedKeepsLease' /\ AuthorizedInProgress' /\ TerminalDecided'
  BY <1>1, ResultsStep DEF ResultsOK
<1>6. SnapshotsCurrent'
  BY SnapshotsStep
<1>7. recon' \in Recon /\ recon'.at <= now' /\ ReclaimListCurrent'
  BY ReconStep
<1>8. worker' \in [Workers -> Work] /\ WorkersStarted'
  BY WorkersStep
<1>9. ProcessesOK'
  <2>1. passes' \in [Dispatchers -> Pass]
        /\ \A d \in Dispatchers : passes'[d].pc # "idle" => passes'[d].todo # {}
    BY PassesStep DEF PassMoves
  <2>2. queue' \subseteq Attempts /\ failures' \in 0..MaxFailures
        /\ blockers' \in [Nodes -> Nodes \cup {NoNode}]
    BY SharedStep DEF DispatchInv, ProcessesOK
  <2> QED
    BY <1>7, <1>8, <2>1, <2>2 DEF ProcessesOK
<1> QED
  BY <1>3, <1>4, <1>5, <1>6, <1>7, <1>8, <1>9 DEF DispatchInv

LEMMA DispatchInvariant == Spec => []DispatchInv
BY DispatchInit, DispatchInvStep, PTL DEF Spec

\* The store's tables, the queue and every process's memory keep their types.
THEOREM DispatchTypeCorrect == Spec => []DispatchTypeOK
<1>1. DispatchInv => DispatchTypeOK
  BY DEF DispatchInv, ProcessesOK, DispatchTypeOK, Pass, Recon, Work
<1> QED
  BY <1>1, DispatchInvariant, PTL

\* However old the records of a dispatch pass are, the node it releases has only
\* passed dependencies.
THEOREM NodesStartAfterDependencies == Spec => []StartedAfterDependencies
<1>1. DispatchInv => StartedAfterDependencies
  BY DEF DispatchInv
<1> QED
  BY <1>1, DispatchInvariant, PTL

\* A verdict is the accepted result of the node's own attempt, of its newest
\* lease, whatever was reclaimed, delivered twice or crashed meanwhile.
THEOREM VerdictsFromAcceptedResults == Spec => []VerdictFromAcceptedResult
<1>1. DispatchInv => VerdictFromAcceptedResult
  <2> SUFFICES ASSUME DispatchInv, NEW n \in Nodes, nodeState[n] \in TerminalStates
               PROVE  LET a == deriveAttemptId(n) IN
                      /\ accepted[a].outcome = nodeState[n]
                      /\ accepted[a].generation = leaseGeneration[a]
                      /\ attemptState[a] = "completed"
    BY DEF VerdictFromAcceptedResult
  <2> DEFINE a == deriveAttemptId(n)
  <2>1. a \in Attempts
    BY DerivedAttempt
  <2> HIDE DEF a
  <2>2. accepted[a].outcome = nodeState[n] /\ authorizations[a] = 0
    BY DEF DispatchInv, TerminalDecided, a
  <2>3. accepted[a] # NoResult
    BY <2>2 DEF NoResult, TerminalStates
  <2>4. accepted[a].generation = leaseGeneration[a] /\ attemptState[a] = "completed"
    BY <2>1, <2>2, <2>3 DEF DispatchInv, AcceptedKeepsLease
  <2> QED
    BY <2>2, <2>4 DEF a
<1> QED
  BY <1>1, DispatchInvariant, PTL

\* An accepted result can always be completed by the next reconciliation: no
\* authorization outlives its node's version.
THEOREM AcceptedResultsCompletable == Spec => []AcceptedResultCompletable
<1>1. DispatchInv => AcceptedResultCompletable
  <2> SUFFICES ASSUME DispatchInv, NEW a \in Attempts, authorizations[a] # 0
               PROVE  CanComplete(a)
    BY DEF AcceptedResultCompletable
  <2>1. /\ authorizations[a] = 3 /\ nodeState[NodeOf[a]] = "in_progress"
        /\ accepted[a].outcome \in Outcomes
    BY DEF DispatchInv, AuthorizedInProgress
  <2>2. nodeVersion[NodeOf[a]] = 3
    BY <2>1 DEF DispatchInv, VersionTellsState
  <2> QED
    BY <2>1, <2>2 DEF CanComplete, isValidTransition, TerminalStates, Outcomes
<1> QED
  BY <1>1, DispatchInvariant, PTL

\* Dispatch passes, queue workers and reconciliation use the store only through
\* its own operations: every step of theirs is a step of the store or leaves it
\* alone.  So all that is proved of the store holds under them.
THEOREM DispatchImplementsStore == Spec => StoreSpec
<1>1. Init => StoreInit
  BY DEF Init
<1>2. DispatchInv /\ [Next]_vars => [StoreNext]_storeVars
  BY EffectOfStep, StepOfStore
<1> QED
  BY <1>1, <1>2, DispatchInvariant, PTL DEF Spec, StoreSpec

\* In particular, with any number of passes, workers and crashes, the results of
\* attempts are still decided the way the ledger of results says.
THEOREM DispatchImplementsLedger == Spec => ImplementsLedger
BY DispatchImplementsStore, StoreImplementsLedger, PTL
=============================================================================
