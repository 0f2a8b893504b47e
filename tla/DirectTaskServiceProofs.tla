---------------------- MODULE DirectTaskServiceProofs -----------------------
(***************************************************************************)
(* The claim loop of the composed service, for any number of overlapping   *)
(* calls of claimOnce, tasks and faults, and for calls of any length.  A   *)
(* lease protects a run only as long as it lasts; what a lease that ran    *)
(* out under its call costs is counted by lapses.                          *)
(***************************************************************************)
EXTENDS DirectTaskService, SequenceTheorems, FiniteSetTheorems, TLAPS

-----------------------------------------------------------------------------
(* The inductive invariant.                                                *)

\* A call that has passed the lookup of a proof result, or had nothing to look
\* up, one that has claimed the attempt, and one that has not reported yet.
Late == {"ready", "create", "start", "claim"}
Owning == {"run", "verify", "accept", "complete"}
Holding == {"run", "verify", "accept"}
Pcs == {"idle", "reclaim", "proof"} \cup Late \cup Owning

Call == [pc : Pcs, at : Nat, todo : SUBSET Attempts, work : Works \cup {NoWork},
         state : NodeStates, version : Nat, hasAttempt : BOOLEAN,
         lease : [generation : Nat, token : Nat], outcome : Outcomes \cup {"none"}]

\* A node's state determines its version.
VersionOf(s) ==
  IF s = "pending" THEN 1 ELSE IF s = "ready" THEN 2 ELSE IF s = "in_progress" THEN 3 ELSE 4

HasNode(w) == \E n \in Nodes : WorkOf[n] = w
nodeOfCall(c) == NodeOf[attemptOf(c)]

TablesOK ==
  /\ nodeState \in [Nodes -> NodeStates]
  /\ nodeVersion \in [Nodes -> Nat]
  /\ attemptState \in [Attempts -> AttemptStates]
  /\ leaseGeneration \in [Attempts -> Nat]
  /\ leases \in [Attempts -> Lease]
  /\ accepted \in [Attempts -> Result]
  /\ now \in Nat
  /\ tokens \in Nat
  /\ submissions \in Seq(Submission)
  /\ \A i \in DOMAIN submissions : HasNode(submissions[i].work)
  /\ proofResults \in [Attempts -> Outcomes \cup {"none"}]
  /\ launches \in [Attempts -> Nat]
  /\ lapses \in [Attempts -> Nat]
  /\ claimers \in [Claimers -> Call]
  /\ faults \in Nat
  /\ \A n \in Nodes : nodeState[n] # "absent" => nodeVersion[n] = VersionOf(nodeState[n])

\* The memory of a call against the tables.  An expired lease it is about to
\* reclaim has no accepted result.
InTime(c) == claimers[c].pc # "idle" => claimers[c].at <= now

ReclaimsOK(c) ==
  claimers[c].pc = "reclaim" =>
    \A a \in claimers[c].todo :
      leases[a] # NoLease /\ leases[a].expires <= claimers[c].at => attemptState[a] = "leased"

PickedOK(c) ==
  claimers[c].pc \notin {"idle", "reclaim"} =>
    /\ claimers[c].work \in Works /\ HasNode(claimers[c].work)
    /\ claimers[c].state \in {"pending", "ready", "in_progress"}
    /\ claimers[c].version = VersionOf(claimers[c].state)
    /\ nodeState[nodeOfCall(c)] # "absent"
    /\ claimers[c].state = "in_progress" =>
         nodeState[nodeOfCall(c)] \in TerminalStates \cup {"in_progress"}
    /\ claimers[c].pc \in Owning \cup {"claim"} => claimers[c].state = "in_progress"

\* A call that has not reported, and whose lease has not run out.
Holds(c) == claimers[c].pc \in Holding /\ now < claimers[c].at + LeaseTTL

\* A call that has claimed the attempt: the lease row, if it is its own, has the
\* expiry it asked for, and it is its own as long as it has not run out.  While
\* no lease of the attempt has run out, the call stands for what happened to it.
OwnerOK(c) ==
  claimers[c].pc \in Owning =>
    LET a == attemptOf(c) IN
    /\ attemptState[a] # "none"
    /\ claimers[c].lease.token <= tokens
    /\ leases[a].generation # 0 /\ leases[a].token = claimers[c].lease.token =>
         leases[a].expires = claimers[c].at + LeaseTTL
    /\ Holds(c) =>
         /\ leases[a].generation # 0
         /\ leases[a].generation = claimers[c].lease.generation
         /\ leases[a].token = claimers[c].lease.token
         /\ accepted[a] = NoResult
    /\ claimers[c].pc \in Holding /\ lapses[a] = 0 => Holds(c)
    /\ claimers[c].pc \in {"run", "verify"} /\ lapses[a] = 0 => proofResults[a] = "none"
    /\ claimers[c].pc = "accept" =>
         /\ claimers[c].outcome \in Outcomes
         /\ claimers[c].outcome = "passed" => proofResults[a] = "passed"
         /\ lapses[a] = 0 /\ a \notin unconfirmed /\ proofResults[a] # "none" =>
              proofResults[a] = claimers[c].outcome

CallOK(c) == InTime(c) /\ ReclaimsOK(c) /\ PickedOK(c) /\ OwnerOK(c)

\* The lease of an attempt protects one call at a time.
OneHolder ==
  \A c, d \in Claimers : Holds(c) /\ Holds(d) /\ attemptOf(c) = attemptOf(d) => c = d

\* Somebody is about to report on the attempt, or holds its lease; nobody who has
\* passed the lookup is about to claim or run it.
Reporting(a) == \E c \in Claimers : claimers[c].pc = "accept" /\ attemptOf(c) = a
Held(a) == \E c \in Claimers : Holds(c) /\ attemptOf(c) = a
NobodyLate(a) == \A c \in Claimers : claimers[c].pc \in Late \cup Owning => attemptOf(c) # a

\* The lease of an accepted result is never given up; the verdict of a node is
\* that of the result; a pass has a proof; and while no lease ran out, a proof
\* result that is not reported yet is in the hands of its owner, or of nobody.
ResultOK(a) ==
  /\ accepted[a] # NoResult =>
       /\ leases[a] # NoLease
       /\ attemptState[a] \in {"result_accepted", "completed"}
       /\ accepted[a].outcome = "passed" => proofResults[a] = "passed"
       /\ lapses[a] = 0 /\ a \notin unconfirmed /\ proofResults[a] # "none" =>
            accepted[a].outcome = proofResults[a]
  /\ nodeState[NodeOf[a]] \in TerminalStates =>
       accepted[a] # NoResult /\ nodeState[NodeOf[a]] = accepted[a].outcome
  /\ proofResults[a] # "none" =>
       /\ attemptState[a] # "none"
       /\ \/ accepted[a] # NoResult
          \/ Reporting(a)
          \/ NobodyLate(a)
          \/ lapses[a] # 0

\* Every lease but the last is paid for with a fault or a lapse, and the last one
\* too once nobody holds it and it has brought no result.
LeasesOK(a) ==
  /\ leaseGeneration[a] <= 1 + faults + lapses[a]
  /\ leaseGeneration[a] = 1 + faults + lapses[a] => accepted[a] # NoResult \/ Held(a)

ServiceInv ==
  /\ TablesOK
  /\ \A c \in Claimers : CallOK(c)
  /\ OneHolder
  /\ \A a \in Attempts : ResultOK(a)
  /\ \A a \in Attempts : LeasesOK(a)

\* A lease launches one worker at most: the launches so far, and the calls that
\* are about to launch one, had a lease each.
Running(a) == {c \in Claimers : claimers[c].pc = "run" /\ attemptOf(c) = a}
LaunchesOK(a) == launches[a] + Cardinality(Running(a)) <= leaseGeneration[a]

USE StoreAssumption

-----------------------------------------------------------------------------
(* Tasks, nodes and attempts.                                              *)

\* A work with a node has one attempt, and that attempt is of its node.
LEMMA WorkAttempt ==
  ASSUME NEW w, HasNode(w)
  PROVE  /\ nodeOfWork(w) \in Nodes
         /\ deriveAttemptId(w) \in Attempts
         /\ NodeOf[deriveAttemptId(w)] = nodeOfWork(w)
<1>1. nodeOfWork(w) \in Nodes
  BY DEF HasNode, nodeOfWork
<1>2. \E a \in Attempts : NodeOf[a] = nodeOfWork(w)
  BY <1>1, ServiceAssumption
<1> QED
  BY <1>1, <1>2 DEF deriveAttemptId

\* No two attempts are of one node.
LEMMA NodeOfInjective ==
  ASSUME NEW a \in Attempts, NEW b \in Attempts, NodeOf[a] = NodeOf[b]
  PROVE  a = b
BY ServiceAssumption

LEMMA CallAttempt ==
  ASSUME ServiceInv, NEW c \in Claimers, claimers[c].pc \notin {"idle", "reclaim"}
  PROVE  /\ attemptOf(c) \in Attempts
         /\ nodeOfCall(c) \in Nodes
         /\ nodeOfWork(claimers[c].work) = nodeOfCall(c)
<1>1. HasNode(claimers[c].work)
  BY DEF ServiceInv, CallOK, PickedOK
<1> QED
  BY <1>1, WorkAttempt DEF attemptOf, nodeOfCall

-----------------------------------------------------------------------------
(* Rows of calls.                                                          *)

Only(c) == \A d \in Claimers : d # c => claimers'[d] = claimers[d]
SameTask(c) ==
  /\ claimers'[c].at = claimers[c].at
  /\ claimers'[c].work = claimers[c].work
  /\ claimers'[c].state = claimers[c].state
  /\ claimers'[c].version = claimers[c].version
  /\ claimers'[c].lease = claimers[c].lease

LEMMA IdleCall == Idle \in Call /\ Idle.pc = "idle"
<1>1. NoLeaseHeld \in [generation : Nat, token : Nat]
  BY DEF NoLeaseHeld
<1>2. "absent" \in NodeStates /\ "none" \in Outcomes \cup {"none"} /\ "idle" \in Pcs
      /\ {} \in SUBSET Attempts /\ FALSE \in BOOLEAN /\ 0 \in Nat
  BY DEF NodeStates, Pcs
<1> QED
  BY <1>1, <1>2 DEF Idle, Call

LEMMA ReturnRow ==
  ASSUME ServiceInv, NEW c \in Claimers, Return(c)
  PROVE  claimers' \in [Claimers -> Call] /\ Only(c) /\ claimers'[c].pc = "idle"
<1>1. claimers \in [Claimers -> Call]
  BY DEF ServiceInv, TablesOK
<1> QED
  BY <1>1, IdleCall DEF Return, Only

LEMMA GotoRow ==
  ASSUME ServiceInv, NEW c \in Claimers, NEW p \in Pcs, Goto(c, p)
  PROVE  /\ claimers' \in [Claimers -> Call] /\ Only(c) /\ SameTask(c)
         /\ claimers'[c].pc = p /\ claimers'[c].outcome = claimers[c].outcome
<1>1. claimers \in [Claimers -> Call]
  BY DEF ServiceInv, TablesOK
<1> DEFINE r == [claimers[c] EXCEPT !.pc = p]
<1>2. claimers' = [claimers EXCEPT ![c] = r]
  BY DEF Goto
<1>3. claimers[c] \in Call
  BY <1>1
<1>4. /\ r \in Call /\ r.pc = p /\ r.at = claimers[c].at /\ r.work = claimers[c].work
      /\ r.state = claimers[c].state /\ r.version = claimers[c].version
      /\ r.lease = claimers[c].lease /\ r.outcome = claimers[c].outcome
  BY <1>3 DEF Call
<1> HIDE DEF r
<1> QED
  BY <1>1, <1>2, <1>4 DEF Only, SameTask

-----------------------------------------------------------------------------
(* What a step leaves alone.                                               *)

\* Nodes only move forward.
NodesForward ==
  \A n \in Nodes :
    /\ nodeState[n] # "absent" => nodeState'[n] # "absent"
    /\ nodeState[n] \in TerminalStates \cup {"in_progress"} =>
         nodeState'[n] \in TerminalStates \cup {"in_progress"}
AttemptKept(b) ==
  /\ leases'[b] = leases[b] /\ attemptState'[b] = attemptState[b]
  /\ accepted'[b] = accepted[b] /\ proofResults'[b] = proofResults[b]
  /\ lapses'[b] = lapses[b] /\ (b \in unconfirmed' <=> b \in unconfirmed)

\* What the rows that reclaiming calls have listed must satisfy.
ReclaimableOK(d, T) ==
  \A a \in T : /\ a \in claimers[d].todo
               /\ leases'[a] # NoLease /\ leases'[a].expires <= claimers[d].at
               => attemptState'[a] = "leased"

\* A call that does not move is not disturbed by a step that touches attempts T
\* it does not own.
LEMMA CallKept ==
  ASSUME ServiceInv, NEW d \in Claimers, claimers'[d] = claimers[d], now' = now, NodesForward,
         tokens' \in Nat, tokens <= tokens',
         NEW T, \A b \in Attempts : b \notin T => AttemptKept(b),
         claimers[d].pc \in Owning /\ attemptOf(d) \in T => OwnerOK(d)',
         claimers[d].pc = "reclaim" => ReclaimableOK(d, T)
  PROVE  CallOK(d)'
<1>1. CallOK(d) /\ claimers[d] \in Call /\ tokens \in Nat
  BY DEF ServiceInv, TablesOK
<1>2. InTime(d)'
  BY <1>1 DEF CallOK, InTime
<1>3. ReclaimsOK(d)'
  <2>1. claimers[d].todo \subseteq Attempts
    BY <1>1 DEF Call
  <2> QED
    BY <1>1, <2>1 DEF CallOK, ReclaimsOK, AttemptKept, ReclaimableOK
<1>4. attemptOf(d)' = attemptOf(d) /\ nodeOfCall(d)' = nodeOfCall(d)
  BY DEF attemptOf, nodeOfCall
<1>5. PickedOK(d)'
  <2> SUFFICES ASSUME claimers[d].pc \notin {"idle", "reclaim"} PROVE PickedOK(d)'
    BY DEF PickedOK
  <2>1. nodeOfCall(d) \in Nodes
    BY CallAttempt
  <2> QED
    BY <1>1, <1>4, <2>1 DEF CallOK, PickedOK, NodesForward
<1>6. OwnerOK(d)'
  <2> SUFFICES ASSUME claimers[d].pc \in Owning, attemptOf(d) \notin T PROVE OwnerOK(d)'
    BY DEF OwnerOK
  <2>1. attemptOf(d) \in Attempts
    BY CallAttempt DEF Owning
  <2>2. AttemptKept(attemptOf(d))
    BY <2>1
  <2>3. Holds(d)' <=> Holds(d)
    BY DEF Holds
  <2>4. claimers[d].lease.token <= tokens'
    <3>1. claimers[d].lease.token \in Nat /\ claimers[d].lease.token <= tokens
      BY <1>1 DEF CallOK, OwnerOK, Call
    <3> QED
      BY <1>1, <3>1
  <2> QED
    BY <1>1, <1>4, <2>2, <2>3, <2>4 DEF CallOK, OwnerOK, AttemptKept
<1> QED
  BY <1>2, <1>3, <1>5, <1>6 DEF CallOK

\* Nobody takes hold of a lease.
LEMMA HoldersKept ==
  ASSUME ServiceInv, NEW c \in Claimers, Only(c), now' = now,
         Holds(c)' => Holds(c) /\ claimers'[c].work = claimers[c].work
  PROVE  OneHolder'
<1>1. \A d \in Claimers : Holds(d)' => Holds(d) /\ attemptOf(d)' = attemptOf(d)
  BY DEF Only, Holds, attemptOf
<1> QED
  BY <1>1 DEF ServiceInv, OneHolder

\* An attempt that the step does not touch, and whose owner, if it is about to
\* report, stays where it is.
LEMMA ResultKept ==
  ASSUME ServiceInv, NEW c \in Claimers, Only(c), NEW b \in Attempts, AttemptKept(b),
         nodeState'[NodeOf[b]] \in TerminalStates => nodeState'[NodeOf[b]] = nodeState[NodeOf[b]],
         claimers[c].pc = "accept" /\ attemptOf(c) = b =>
           claimers'[c].pc = "accept" /\ claimers'[c].work = claimers[c].work,
         claimers'[c].pc \in Late \cup Owning /\ attemptOf(c)' = b =>
           \/ claimers[c].pc \in Late \cup Owning /\ attemptOf(c) = b
           \/ proofResults[b] = "none"
  PROVE  ResultOK(b)'
<1>1. ResultOK(b)
  BY DEF ServiceInv
<1>2. \A d \in Claimers : d # c => claimers'[d].pc = claimers[d].pc /\ attemptOf(d)' = attemptOf(d)
  BY DEF Only, attemptOf
<1>3. Reporting(b) => Reporting(b)'
  BY <1>2 DEF Reporting, attemptOf
<1>4. proofResults[b] # "none" /\ NobodyLate(b) => NobodyLate(b)'
  BY <1>2 DEF NobodyLate
<1> QED
  BY <1>1, <1>3, <1>4 DEF ResultOK, AttemptKept

LEMMA HeldKept ==
  ASSUME ServiceInv, NEW c \in Claimers, Only(c), NEW b \in Attempts, now' = now,
         Holds(c) /\ attemptOf(c) = b => Holds(c)' /\ claimers'[c].work = claimers[c].work,
         Held(b)
  PROVE  Held(b)'
<1>1. PICK d \in Claimers : Holds(d) /\ attemptOf(d) = b
  BY DEF Held
<1>2. Holds(d)' /\ attemptOf(d)' = b
  BY <1>1 DEF Only, Holds, attemptOf
<1> QED
  BY <1>2 DEF Held

LEMMA LeasesKept ==
  ASSUME ServiceInv, NEW c \in Claimers, Only(c), NEW b \in Attempts, UNCHANGED faults, now' = now,
         leaseGeneration'[b] = leaseGeneration[b], lapses'[b] = lapses[b],
         accepted'[b] = accepted[b],
         Holds(c) /\ attemptOf(c) = b => Holds(c)' /\ claimers'[c].work = claimers[c].work
  PROVE  LeasesOK(b)'
<1>1. LeasesOK(b)
  BY DEF ServiceInv
<1>2. Held(b) => Held(b)'
  BY HeldKept
<1> QED
  BY <1>1, <1>2 DEF LeasesOK

\* A step of a call that is no owner, and writes nothing.
quietVars == <<storeVars, submissions, proofResults, historyVars, faults>>
LEMMA QuietKeeps ==
  ASSUME ServiceInv, NEW c \in Claimers, UNCHANGED quietVars,
         claimers' \in [Claimers -> Call], Only(c), CallOK(c)',
         claimers[c].pc \notin Owning, claimers'[c].pc \notin Owning,
         claimers'[c].pc \in Late =>
           \/ claimers[c].pc \in Late /\ claimers'[c].work = claimers[c].work
           \/ proofResults[attemptOf(c)'] = "none"
  PROVE  ServiceInv'
<1>1. TablesOK'
  BY DEF ServiceInv, TablesOK, quietVars, storeVars, historyVars, HasNode
<1>2. \A b : AttemptKept(b)
  BY DEF AttemptKept, quietVars, storeVars, historyVars
<1>3. /\ NodesForward /\ now' = now
      /\ UNCHANGED <<nodeState, leaseGeneration, lapses, accepted, faults, tokens>>
  BY DEF NodesForward, quietVars, storeVars, historyVars
<1>t. tokens' \in Nat /\ tokens <= tokens'
  BY <1>1, <1>3 DEF TablesOK
<1>4. ASSUME NEW d \in Claimers, d # c PROVE CallOK(d)'
  <2>1. claimers'[d] = claimers[d]
    BY <1>4 DEF Only
  <2>2. \A T : T = {} => CallOK(d)'
    <3> SUFFICES ASSUME NEW T, T = {} PROVE CallOK(d)'
      OBVIOUS
    <3>1. ReclaimableOK(d, T)
      BY DEF ReclaimableOK
    <3> QED
      BY <1>2, <1>3, <1>t, <2>1, <3>1, CallKept
  <2> QED
    BY <2>2
<1>h. ~Holds(c) /\ ~Holds(c)'
  BY DEF Holds, Owning, Holding
<1>5. OneHolder'
  BY <1>h, <1>3, HoldersKept
<1>6. ASSUME NEW b \in Attempts PROVE ResultOK(b)' /\ LeasesOK(b)'
  <2>1. claimers[c].pc # "accept"
    BY DEF Owning
  <2>2. claimers'[c].pc \in Late \cup Owning /\ attemptOf(c)' = b =>
           \/ claimers[c].pc \in Late \cup Owning /\ attemptOf(c) = b
           \/ proofResults[b] = "none"
    BY DEF attemptOf
  <2>3. ResultOK(b)'
    BY <1>2, <1>3, <2>1, <2>2, ResultKept
  <2>4. LeasesOK(b)'
    BY <1>3, <1>h, LeasesKept
  <2> QED
    BY <2>3, <2>4
<1> QED
  BY <1>1, <1>4, <1>5, <1>6 DEF ServiceInv

-----------------------------------------------------------------------------
(* Steps that write no table.                                              *)

\* A call that is no owner may end at any time.
LEMMA QuietReturn ==
  ASSUME ServiceInv, NEW c \in Claimers, UNCHANGED quietVars, Return(c), claimers[c].pc \notin Owning
  PROVE  ServiceInv'
<1>1. claimers' \in [Claimers -> Call] /\ Only(c) /\ claimers'[c].pc = "idle"
  BY ReturnRow
<1>2. CallOK(c)'
  BY <1>1 DEF CallOK, InTime, ReclaimsOK, PickedOK, OwnerOK, Owning
<1>3. claimers'[c].pc \notin Owning /\ claimers'[c].pc \notin Late
  BY <1>1 DEF Owning, Late
<1> QED
  BY <1>1, <1>2, <1>3, QuietKeeps

LEMMA NextStepRange ==
  ASSUME NEW s, NEW h
  PROVE  /\ NextStep(s, h) \in Late
         /\ NextStep(s, h) = "claim" => s \notin {"pending", "ready"}
         /\ NextStep(s, FALSE) # "claim"
BY DEF NextStep, Late

LEMMA StartClaimStep ==
  ASSUME ServiceInv, NEW c \in Claimers, StartClaim(c)
  PROVE  ServiceInv'
<1> DEFINE r == [Idle EXCEPT !.pc = "reclaim", !.at = now,
                             !.todo = listAttemptsNeedingReconciliation(now)]
<1>1. /\ claimers \in [Claimers -> Call] /\ now \in Nat
      /\ leases \in [Attempts -> Lease]
  BY DEF ServiceInv, TablesOK
<1>2. listAttemptsNeedingReconciliation(now) \in SUBSET Attempts
  BY DEF listAttemptsNeedingReconciliation
<1>3. /\ r \in Call /\ r.pc = "reclaim" /\ r.at = now
      /\ r.todo = listAttemptsNeedingReconciliation(now)
  <2>1. "reclaim" \in Pcs
    BY DEF Pcs
  <2> QED
    BY <1>1, <1>2, <2>1, IdleCall DEF Call
<1>4. claimers' = [claimers EXCEPT ![c] = r] /\ UNCHANGED quietVars /\ claimers[c].pc = "idle"
  BY DEF StartClaim, quietVars, intakeVars
<1> HIDE DEF r
<1>5. claimers' \in [Claimers -> Call] /\ Only(c) /\ claimers'[c] = r
  BY <1>1, <1>3, <1>4 DEF Only
<1>6. InTime(c)'
  BY <1>1, <1>3, <1>4, <1>5 DEF InTime, quietVars, storeVars
<1>7. ReclaimsOK(c)'
  BY <1>3, <1>4, <1>5
     DEF ReclaimsOK, listAttemptsNeedingReconciliation, quietVars, storeVars
<1>8. PickedOK(c)' /\ OwnerOK(c)'
  BY <1>3, <1>5 DEF PickedOK, OwnerOK, Owning
<1>9. r.pc \notin Owning /\ r.pc \notin Late /\ claimers[c].pc \notin Owning
  BY <1>3, <1>4 DEF Owning, Late
<1> QED
  BY <1>4, <1>5, <1>6, <1>7, <1>8, <1>9, QuietKeeps DEF CallOK

LEMMA PickTaskStep ==
  ASSUME ServiceInv, NEW c \in Claimers, PickTask(c)
  PROVE  ServiceInv'
<1>1. /\ TablesOK /\ CallOK(c) /\ claimers[c] \in Call
      /\ UNCHANGED quietVars /\ claimers[c].pc = "reclaim" /\ claimers[c].pc \notin Owning
  BY DEF ServiceInv, TablesOK, PickTask, quietVars, intakeVars, Owning
<1>2. CASE Return(c)
  BY <1>1, <1>2, QuietReturn
<1>3. ASSUME NEW i \in listDirectTaskClaimables,
             LET w == submissions[i].work
                 n == nodeOfWork(w)
                 has == attemptState[deriveAttemptId(w)] # "none" IN
             claimers' = [claimers EXCEPT ![c] =
               [@ EXCEPT !.work = w, !.state = nodeState[n], !.version = nodeVersion[n],
                         !.hasAttempt = has,
                         !.pc = IF has THEN "proof" ELSE NextStep(nodeState[n], FALSE)]]
      PROVE  ServiceInv'
  <2> DEFINE w == submissions[i].work
             n == nodeOfWork(w)
             a == deriveAttemptId(w)
             r == [claimers[c] EXCEPT
                     !.work = w, !.state = nodeState[n], !.version = nodeVersion[n],
                     !.hasAttempt = (attemptState[a] # "none"),
                     !.pc = IF attemptState[a] # "none" THEN "proof"
                            ELSE NextStep(nodeState[n], FALSE)]
  <2>0. claimers' = [claimers EXCEPT ![c] = r] /\ i \in DOMAIN submissions
    BY <1>3 DEF listDirectTaskClaimables
  <2>1. w \in Works /\ HasNode(w)
    <3>1. submissions[i] \in Submission /\ HasNode(submissions[i].work)
      BY <1>1, <2>0 DEF TablesOK
    <3> QED
      BY <3>1 DEF Submission
  <2>2. n \in Nodes /\ a \in Attempts /\ NodeOf[a] = n
    BY <2>1, WorkAttempt
  <2>3. nodeState[n] \in {"pending", "ready", "in_progress"} /\ nodeState[n] \in NodeStates
    BY DEF listDirectTaskClaimables, NodeStates
  <2>4. nodeVersion[n] \in Nat /\ nodeVersion[n] = VersionOf(nodeState[n])
    BY <1>1, <2>2, <2>3 DEF TablesOK
  <2> DEFINE p == IF attemptState[a] # "none" THEN "proof" ELSE NextStep(nodeState[n], FALSE)
  <2>5. /\ p \in Late \cup {"proof"} /\ p # "claim"
        /\ p \in Late => attemptState[a] = "none"
    BY NextStepRange DEF Late
  <2>6. p \in Pcs
    BY <2>5 DEF Pcs
  <2>7. r.pc = p /\ r.work = w /\ r.state = nodeState[n] /\ r.version = nodeVersion[n]
        /\ r.at = claimers[c].at
    BY <1>1 DEF Call
  <2>8. r \in Call
    <3>1. (attemptState[a] # "none") \in BOOLEAN
      OBVIOUS
    <3> HIDE DEF p
    <3>2. r = [claimers[c] EXCEPT !.work = w, !.state = nodeState[n], !.version = nodeVersion[n],
                                  !.hasAttempt = (attemptState[a] # "none"), !.pc = p]
      BY DEF p
    <3> QED
      BY <1>1, <2>1, <2>3, <2>4, <2>6, <3>1, <3>2 DEF Call
  <2>a. a = deriveAttemptId(w)
    OBVIOUS
  <2> HIDE DEF p, r, a, n, w
  <2>9. claimers' \in [Claimers -> Call] /\ Only(c) /\ claimers'[c] = r
    BY <1>1, <2>0, <2>8 DEF Only, TablesOK
  <2>10. attemptOf(c)' = a /\ nodeOfCall(c)' = n
    BY <2>a, <2>2, <2>7, <2>9 DEF attemptOf, nodeOfCall
  <2>11. InTime(c)'
    BY <1>1, <2>7, <2>9 DEF InTime, CallOK, quietVars, storeVars
  <2>12. p # "reclaim" /\ p \notin Owning
    BY <2>5 DEF Late, Owning
  <2>13. ReclaimsOK(c)' /\ OwnerOK(c)'
    BY <2>7, <2>9, <2>12 DEF ReclaimsOK, OwnerOK
  <2>14. PickedOK(c)'
    BY <1>1, <2>1, <2>3, <2>4, <2>5, <2>7, <2>9, <2>10, <2>12
       DEF PickedOK, quietVars, storeVars, HasNode
  <2>15. p \in Late => proofResults[a] = "none"
    BY <2>2, <2>5 DEF ServiceInv, ResultOK
  <2> QED
    BY <1>1, <2>7, <2>9, <2>10, <2>11, <2>12, <2>13, <2>14, <2>15, QuietKeeps DEF CallOK
<1> QED
  BY <1>2, <1>3 DEF PickTask

\* The outcome of a call that goes on: it knows what it knew.
LEMMA QuietGoto ==
  ASSUME ServiceInv, NEW c \in Claimers, UNCHANGED quietVars,
         claimers' \in [Claimers -> Call], Only(c), SameTask(c),
         claimers[c].pc \in Late \cup {"proof"}, claimers'[c].pc \in Late,
         claimers'[c].pc = "claim" => claimers[c].state = "in_progress",
         claimers[c].pc = "proof" => proofResults[attemptOf(c)] = "none"
  PROVE  ServiceInv'
<1>1. CallOK(c)
  BY DEF ServiceInv
<1>2. /\ claimers[c].pc \notin Owning \cup {"idle", "reclaim"}
      /\ claimers'[c].pc \notin Owning \cup {"idle", "reclaim"}
  BY DEF Late, Owning
<1>3. attemptOf(c)' = attemptOf(c) /\ nodeOfCall(c)' = nodeOfCall(c)
  BY DEF SameTask, attemptOf, nodeOfCall
<1>4. InTime(c)'
  BY <1>1, <1>2 DEF CallOK, InTime, SameTask, quietVars, storeVars
<1>5. ReclaimsOK(c)' /\ OwnerOK(c)'
  BY <1>2 DEF ReclaimsOK, OwnerOK
<1>6. PickedOK(c)'
  BY <1>1, <1>2, <1>3 DEF CallOK, PickedOK, SameTask, quietVars, storeVars, HasNode
<1> QED
  BY <1>2, <1>3, <1>4, <1>5, <1>6, QuietKeeps DEF CallOK, SameTask

LEMMA CheckProofStep ==
  ASSUME ServiceInv, NEW c \in Claimers, CheckProof(c)
  PROVE  ServiceInv'
<1>1. UNCHANGED quietVars /\ claimers[c].pc = "proof" /\ claimers[c].pc \notin Owning
  BY DEF CheckProof, quietVars, intakeVars, Owning
<1>2. CASE Return(c)
  BY <1>1, <1>2, QuietReturn
<1>3. CASE proofResults[attemptOf(c)] = "none" /\ Goto(c, NextStep(claimers[c].state, TRUE))
  <2> DEFINE p == NextStep(claimers[c].state, TRUE)
  <2>1. p \in Late /\ p \in Pcs /\ (p = "claim" => claimers[c].state \notin {"pending", "ready"})
    BY NextStepRange DEF Pcs
  <2>2. claimers[c].state \in {"pending", "ready", "in_progress"}
    BY <1>1 DEF ServiceInv, CallOK, PickedOK
  <2> HIDE DEF p
  <2>3. Goto(c, p)
    BY <1>3 DEF p
  <2>4. /\ claimers' \in [Claimers -> Call] /\ Only(c) /\ SameTask(c) /\ claimers'[c].pc = p
    BY <2>1, <2>3, GotoRow
  <2> QED
    BY <1>1, <1>3, <2>1, <2>2, <2>4, QuietGoto
<1> QED
  BY <1>2, <1>3 DEF CheckProof

-----------------------------------------------------------------------------
(* Steps that write the store.                                             *)

\* The parts of the invariant after a step of c that touches the attempts T.
LEMMA Assemble ==
  ASSUME ServiceInv, NEW c \in Claimers, Only(c), TablesOK', now' = now, NodesForward,
         tokens' \in Nat, tokens <= tokens',
         NEW T, \A b \in Attempts : b \notin T => AttemptKept(b),
         \A d \in Claimers : d # c /\ claimers[d].pc \in Owning /\ attemptOf(d) \in T => OwnerOK(d)',
         \A d \in Claimers : d # c /\ claimers[d].pc = "reclaim" => ReclaimableOK(d, T),
         CallOK(c)', OneHolder', \A b \in Attempts : ResultOK(b)' /\ LeasesOK(b)'
  PROVE  ServiceInv'
<1>1. ASSUME NEW d \in Claimers, d # c PROVE CallOK(d)'
  <2>1. claimers'[d] = claimers[d]
    BY <1>1 DEF Only
  <2> QED
    BY <1>1, <2>1, CallKept
<1> QED
  BY <1>1 DEF ServiceInv

LEMMA AdvanceNodeStep ==
  ASSUME ServiceInv, NEW c \in Claimers, AdvanceNode(c)
  PROVE  ServiceInv'
<1> DEFINE n == nodeOfWork(claimers[c].work)
           to == IF claimers[c].pc = "ready" THEN "ready" ELSE "in_progress"
<1>1. /\ TablesOK /\ CallOK(c) /\ claimers[c] \in Call
      /\ claimers[c].pc \in {"ready", "start"}
      /\ UNCHANGED <<intakeVars, proofResults, historyVars, faults>>
  BY DEF ServiceInv, TablesOK, AdvanceNode
<1>2. /\ claimers[c].pc \notin Owning \cup {"idle", "reclaim", "accept", "verify"}
      /\ claimers[c].pc \in Late
  BY <1>1 DEF Owning, Late
<1>3. n \in Nodes /\ n = nodeOfCall(c) /\ attemptOf(c) \in Attempts
  BY <1>2, CallAttempt
<1>4. CASE Return(c) /\ UNCHANGED storeVars
  BY <1>1, <1>2, <1>4, QuietReturn DEF quietVars, intakeVars
<1>5. CASE /\ TransitionNode(n, claimers[c].version, to)
           /\ claimers' = [claimers EXCEPT ![c] =
                [@ EXCEPT !.state = to, !.version = claimers[c].version + 1,
                          !.pc = NextStep(to, claimers[c].hasAttempt)]]
  <2> DEFINE p == NextStep(to, claimers[c].hasAttempt)
             r == [claimers[c] EXCEPT !.state = to, !.version = claimers[c].version + 1, !.pc = p]
  <2>1. claimers' = [claimers EXCEPT ![c] = r]
    <3> HIDE DEF to
    <3> QED
      BY <1>5
  <2>2. p \in Late /\ p \in Pcs /\ (p = "claim" => to \notin {"pending", "ready"})
    BY NextStepRange DEF Pcs
  <2>3. to \in {"ready", "in_progress"} /\ to \in NodeStates
    BY DEF NodeStates
  <2>4. /\ nodeVersion[n] = claimers[c].version /\ isValidTransition(nodeState[n], to)
        /\ nodeState' = [nodeState EXCEPT ![n] = to]
        /\ nodeVersion' = [nodeVersion EXCEPT ![n] = nodeVersion[n] + 1]
        /\ UNCHANGED <<attemptState, leaseGeneration, leases, accepted, now, tokens>>
    BY <1>5 DEF TransitionNode, leaseVars, resultVars
  <2> HIDE DEF to, p, n
  <2>5. /\ \/ (nodeState[n] = "pending" /\ to = "ready")
           \/ (nodeState[n] = "ready" /\ to = "in_progress")
        /\ VersionOf(to) = VersionOf(nodeState[n]) + 1
    BY <2>3, <2>4 DEF isValidTransition, TerminalStates, VersionOf
  <2>6. /\ r \in Call /\ r.pc = p /\ r.state = to /\ r.version = claimers[c].version + 1
        /\ r.at = claimers[c].at /\ r.work = claimers[c].work
    <3>1. claimers[c].version + 1 \in Nat
      BY <1>1 DEF Call
    <3> QED
      BY <1>1, <2>2, <2>3, <3>1 DEF Call
  <2> HIDE DEF r
  <2>7. claimers' \in [Claimers -> Call] /\ Only(c) /\ claimers'[c] = r
    BY <1>1, <2>1, <2>6 DEF Only, TablesOK
  <2>8. nodeVersion[n] = VersionOf(nodeState[n]) /\ nodeVersion[n] \in Nat
    BY <1>1, <1>3, <2>5 DEF TablesOK
  <2>9. /\ nodeState' \in [Nodes -> NodeStates] /\ nodeVersion' \in [Nodes -> Nat]
        /\ \A m \in Nodes : nodeState'[m] # "absent" => nodeVersion'[m] = VersionOf(nodeState'[m])
    BY <1>1, <1>3, <2>3, <2>4, <2>5, <2>8 DEF TablesOK
  <2>10. TablesOK'
    BY <1>1, <2>4, <2>7, <2>9 DEF TablesOK, intakeVars, historyVars, HasNode
  <2>t. tokens' \in Nat /\ tokens <= tokens'
    BY <1>1, <2>4 DEF TablesOK
  <2>11. NodesForward
    BY <1>1, <1>3, <2>4, <2>5 DEF NodesForward, TablesOK, TerminalStates
  <2>12. \A b : AttemptKept(b)
    BY <1>1, <2>4 DEF AttemptKept, historyVars
  <2>13. attemptOf(c)' = attemptOf(c) /\ nodeOfCall(c)' = nodeOfCall(c)
    BY <2>6, <2>7 DEF attemptOf, nodeOfCall
  <2>14. CallOK(c)'
    <3>1. InTime(c)'
      BY <1>1, <1>2, <2>4, <2>6, <2>7 DEF CallOK, InTime
    <3>2. p \notin Owning \cup {"idle", "reclaim"}
      BY <2>2 DEF Late, Owning
    <3>3. ReclaimsOK(c)' /\ OwnerOK(c)'
      BY <2>6, <2>7, <3>2 DEF ReclaimsOK, OwnerOK
    <3>4. nodeState'[nodeOfCall(c)] = to
      BY <1>1, <1>3, <2>4 DEF TablesOK
    <3>5. PickedOK(c)'
      BY <1>1, <1>2, <2>2, <2>3, <2>4, <2>5, <2>6, <2>7, <2>8, <2>13, <3>2, <3>4
         DEF CallOK, PickedOK, HasNode
    <3> QED
      BY <3>1, <3>3, <3>5 DEF CallOK
  <2>15. claimers'[c].pc \notin Owning
    BY <2>2, <2>6, <2>7 DEF Late, Owning
  <2>h. ~Holds(c) /\ ~Holds(c)'
    BY <1>2, <2>15 DEF Holds, Owning, Holding
  <2>16. OneHolder'
    BY <2>4, <2>7, <2>h, HoldersKept
  <2>17. ASSUME NEW b \in Attempts PROVE ResultOK(b)' /\ LeasesOK(b)'
    <3>1. nodeState'[NodeOf[b]] \in TerminalStates => nodeState'[NodeOf[b]] = nodeState[NodeOf[b]]
      BY <1>1, <2>3, <2>4 DEF TablesOK, TerminalStates
    <3>2. ResultOK(b)'
      BY <1>2, <2>7, <2>12, <2>13, <3>1, ResultKept
    <3>3. LeasesOK(b)'
      BY <1>1, <2>4, <2>7, <2>h, LeasesKept DEF historyVars
    <3> QED
      BY <3>2, <3>3
  <2>18. \A T : T = {} => ServiceInv'
    BY <2>t, <2>4, <2>7, <2>10, <2>11, <2>12, <2>14, <2>16, <2>17, Assemble DEF ReclaimableOK
  <2> QED
    BY <2>18
<1> QED
  BY <1>1, <1>4, <1>5 DEF AdvanceNode

LEMMA EnsureAttemptStep ==
  ASSUME ServiceInv, NEW c \in Claimers, EnsureAttempt(c)
  PROVE  ServiceInv'
<1> DEFINE a == attemptOf(c)
           p == NextStep(claimers[c].state, TRUE)
           r == [claimers[c] EXCEPT !.hasAttempt = TRUE, !.pc = p]
<1>1. /\ TablesOK /\ CallOK(c) /\ claimers[c] \in Call
      /\ claimers[c].pc = "create"
      /\ UNCHANGED <<intakeVars, proofResults, historyVars, faults>>
  BY DEF ServiceInv, TablesOK, EnsureAttempt
<1>2. /\ claimers[c].pc \notin Owning \cup {"idle", "reclaim", "accept", "verify", "proof"}
      /\ claimers[c].pc \in Late
  BY <1>1 DEF Owning, Late
<1>3. a \in Attempts
  BY <1>2, CallAttempt
<1>4. p \in Late /\ p \in Pcs /\ (p = "claim" => claimers[c].state = "in_progress")
  <2>1. claimers[c].state \in {"pending", "ready", "in_progress"}
    BY <1>1, <1>2 DEF CallOK, PickedOK
  <2> QED
    BY <2>1, NextStepRange DEF Pcs
<1>5. CASE Return(c) /\ UNCHANGED storeVars
  BY <1>1, <1>2, <1>5, QuietReturn DEF quietVars, intakeVars
<1>6. ASSUME claimers' = [claimers EXCEPT ![c] = r]
      PROVE  claimers' \in [Claimers -> Call] /\ Only(c) /\ SameTask(c) /\ claimers'[c].pc = p
  <2> HIDE DEF p
  <2>1. /\ r \in Call /\ r.pc = p /\ r.at = claimers[c].at /\ r.work = claimers[c].work
        /\ r.state = claimers[c].state /\ r.version = claimers[c].version
        /\ r.lease = claimers[c].lease
    BY <1>1, <1>4 DEF Call
  <2> HIDE DEF r
  <2> QED
    BY <1>1, <1>6, <2>1 DEF TablesOK, Only, SameTask
<1>7. CASE claimers' = [claimers EXCEPT ![c] = r] /\ UNCHANGED storeVars
  <2> HIDE DEF p, r
  <2> QED
    BY <1>1, <1>2, <1>4, <1>6, <1>7, QuietGoto DEF quietVars, intakeVars
<1>8. ASSUME NEW m \in Models, CreateAttempt(a, m), claimers' = [claimers EXCEPT ![c] = r]
      PROVE  ServiceInv'
  <2> HIDE DEF p, r
  <2>1. /\ attemptState[a] = "none"
        /\ attemptState' = [attemptState EXCEPT ![a] = "created"]
        /\ UNCHANGED <<nodeState, nodeVersion, leaseGeneration, leases, accepted, now, tokens>>
    BY <1>8 DEF CreateAttempt, nodeVars, leaseVars, resultVars
  <2> HIDE DEF a
  <2>2. claimers' \in [Claimers -> Call] /\ Only(c) /\ SameTask(c) /\ claimers'[c].pc = p
    BY <1>6, <1>8
  <2>3. TablesOK'
    BY <1>1, <1>3, <2>1, <2>2 DEF TablesOK, intakeVars, historyVars, HasNode, AttemptStates
  <2>t. tokens' \in Nat /\ tokens <= tokens'
    BY <1>1, <2>1 DEF TablesOK
  <2>4. NodesForward
    BY <2>1 DEF NodesForward
  <2>5. \A b \in Attempts : b \notin {a} => AttemptKept(b)
    BY <1>1, <2>1 DEF AttemptKept, TablesOK, historyVars
  <2>6. \A d \in Claimers : claimers[d].pc \in Owning => attemptOf(d) \notin {a}
    BY <2>1 DEF ServiceInv, CallOK, OwnerOK
  <2>7. \A d \in Claimers : d # c /\ claimers[d].pc = "reclaim" => ReclaimableOK(d, {a})
    BY <2>1 DEF ServiceInv, CallOK, ReclaimsOK, ReclaimableOK
  <2>8. attemptOf(c)' = attemptOf(c) /\ nodeOfCall(c)' = nodeOfCall(c)
    BY <2>2 DEF SameTask, attemptOf, nodeOfCall
  <2>9. p \notin Owning \cup {"idle", "reclaim"}
    BY <1>4 DEF Late, Owning
  <2>10. InTime(c)' /\ ReclaimsOK(c)' /\ OwnerOK(c)'
    BY <1>1, <1>2, <2>1, <2>2, <2>9 DEF CallOK, InTime, ReclaimsOK, OwnerOK, SameTask
  <2>11. PickedOK(c)'
    BY <1>1, <1>2, <1>4, <2>1, <2>2, <2>8, <2>9 DEF CallOK, PickedOK, SameTask, HasNode
  <2>h. ~Holds(c) /\ ~Holds(c)'
    BY <1>2, <2>2, <2>9 DEF Holds, Owning, Holding
  <2>12. OneHolder'
    BY <2>1, <2>2, <2>h, HoldersKept
  <2>13. ASSUME NEW b \in Attempts PROVE ResultOK(b)' /\ LeasesOK(b)'
    <3>1. LeasesOK(b)'
      BY <1>1, <2>1, <2>2, <2>h, LeasesKept DEF historyVars
    <3>2. CASE b # a
      BY <1>2, <2>1, <2>2, <2>5, <2>8, <3>1, <3>2, ResultKept
    <3>3. CASE b = a
      <4>1. ResultOK(a)
        BY <1>3 DEF ServiceInv
      <4>2. accepted[a] = NoResult /\ proofResults[a] = "none"
        BY <2>1, <4>1 DEF ResultOK
      <4> QED
        BY <1>1, <2>1, <3>1, <3>3, <4>1, <4>2 DEF ResultOK
    <3> QED
      BY <3>2, <3>3
  <2>14. CallOK(c)'
    BY <2>10, <2>11 DEF CallOK
  <2> QED
    BY <2>t, <2>1, <2>2, <2>3, <2>4, <2>5, <2>6, <2>7, <2>12, <2>13, <2>14, Assemble
<1> QED
  BY <1>1, <1>5, <1>7, <1>8 DEF EnsureAttempt

LEMMA ReclaimExpiredStep ==
  ASSUME ServiceInv, NEW c \in Claimers, ReclaimExpired(c)
  PROVE  ServiceInv'
<1>1. /\ TablesOK /\ CallOK(c) /\ claimers[c] \in Call
      /\ claimers[c].pc = "reclaim"
      /\ UNCHANGED <<intakeVars, proofResults, historyVars, faults>>
  BY DEF ServiceInv, TablesOK, ReclaimExpired
<1>2. claimers[c].pc \notin Owning /\ claimers[c].pc \notin Late
  BY <1>1 DEF Owning, Late
<1>3. PICK a \in claimers[c].todo :
        /\ \/ ReclaimLease(a, claimers[c].at)
           \/ UNCHANGED storeVars
        /\ claimers' = [claimers EXCEPT ![c].todo = @ \ {a}]
  BY DEF ReclaimExpired
<1> DEFINE r == [claimers[c] EXCEPT !.todo = claimers[c].todo \ {a}]
<1>4. claimers' = [claimers EXCEPT ![c] = r] /\ a \in Attempts
  BY <1>1, <1>3 DEF Call
<1>5. /\ r \in Call /\ r.pc = "reclaim" /\ r.at = claimers[c].at
      /\ r.todo = claimers[c].todo \ {a}
  BY <1>1 DEF Call
<1> HIDE DEF r
<1>6. claimers' \in [Claimers -> Call] /\ Only(c) /\ claimers'[c] = r
  BY <1>1, <1>4, <1>5 DEF Only, TablesOK
<1>7. PickedOK(c)' /\ OwnerOK(c)'
  BY <1>5, <1>6 DEF PickedOK, OwnerOK, Owning
<1>8. r.pc \notin Owning /\ r.pc \notin Late
  BY <1>5 DEF Owning, Late
<1>9. CASE UNCHANGED storeVars
  <2>1. UNCHANGED quietVars
    BY <1>1, <1>9 DEF quietVars, intakeVars
  <2>2. InTime(c)' /\ ReclaimsOK(c)'
    BY <1>1, <1>5, <1>6, <1>9 DEF CallOK, InTime, ReclaimsOK, storeVars
  <2> QED
    BY <1>2, <1>6, <1>7, <1>8, <2>1, <2>2, QuietKeeps DEF CallOK
<1>10. CASE ReclaimLease(a, claimers[c].at)
  <2>1. /\ leases[a].generation # 0 /\ leases[a].expires <= claimers[c].at
        /\ leases' = [leases EXCEPT ![a] = NoLease]
        /\ attemptState' = [attemptState EXCEPT ![a] = "created"]
        /\ UNCHANGED <<nodeState, nodeVersion, leaseGeneration, accepted, now, tokens>>
    BY <1>10 DEF ReclaimLease, DropLease, nodeVars, resultVars
  <2>2. leases[a] # NoLease /\ NoLease \in Lease
    BY <2>1 DEF NoLease, Lease
  <2>3. TablesOK'
    BY <1>1, <1>4, <1>6, <2>1, <2>2 DEF TablesOK, intakeVars, historyVars, HasNode, AttemptStates
  <2>t. tokens' \in Nat /\ tokens <= tokens'
    BY <1>1, <2>1 DEF TablesOK
  <2>4. NodesForward
    BY <2>1 DEF NodesForward
  <2>5. \A b \in Attempts : b \notin {a} => AttemptKept(b)
    BY <1>1, <2>1 DEF AttemptKept, TablesOK, historyVars
  <2>6. ASSUME NEW d \in Claimers, d # c, claimers[d].pc \in Owning, attemptOf(d) = a
        PROVE  OwnerOK(d)'
    <3>1. CallOK(d) /\ claimers[d] \in Call /\ claimers'[d] = claimers[d]
      BY <1>6, <2>6 DEF ServiceInv, TablesOK, Only
    <3>2. ~Holds(d)
      <4> SUFFICES ASSUME Holds(d) PROVE FALSE
        OBVIOUS
      <4>1. leases[a].expires = claimers[d].at + LeaseTTL /\ now < claimers[d].at + LeaseTTL
        BY <2>6, <3>1 DEF CallOK, OwnerOK, Holds
      <4>2. claimers[c].at <= now
        BY <1>1 DEF CallOK, InTime
      <4>3. claimers[c].at \in Nat /\ claimers[d].at \in Nat /\ now \in Nat
        BY <1>1, <3>1 DEF Call, TablesOK
      <4> QED
        BY <2>1, <4>1, <4>2, <4>3
    <3>3. attemptOf(d)' = a /\ ~Holds(d)'
      BY <2>1, <2>6, <3>1, <3>2 DEF attemptOf, Holds
    <3>4. leases'[a].generation = 0 /\ attemptState'[a] = "created"
      BY <1>1, <1>4, <2>1 DEF TablesOK, NoLease
    <3> QED
      BY <1>1, <2>1, <2>6, <3>1, <3>2, <3>3, <3>4 DEF CallOK, OwnerOK, historyVars
  <2>7. \A d \in Claimers : d # c /\ claimers[d].pc = "reclaim" => ReclaimableOK(d, {a})
    BY <1>1, <1>4, <2>1 DEF TablesOK, ReclaimableOK
  <2>8. InTime(c)' /\ ReclaimsOK(c)'
    <3>1. InTime(c)'
      BY <1>1, <1>5, <1>6, <2>1 DEF CallOK, InTime
    <3>2. claimers[c].todo \subseteq Attempts
      BY <1>1 DEF Call
    <3>3. \A b \in r.todo : leases'[b] = leases[b] /\ attemptState'[b] = attemptState[b]
      BY <1>5, <2>5, <3>2 DEF AttemptKept
    <3> QED
      BY <1>1, <1>5, <1>6, <3>1, <3>3 DEF CallOK, ReclaimsOK
  <2>h. ~Holds(c) /\ ~Holds(c)'
    BY <1>1, <1>5, <1>6 DEF Holds, Holding
  <2>9. OneHolder'
    BY <1>6, <2>1, <2>h, HoldersKept
  <2>10. ASSUME NEW b \in Attempts PROVE ResultOK(b)' /\ LeasesOK(b)'
    <3>0. claimers[c].pc # "accept"
      BY <1>1
    <3>1. LeasesOK(b)'
      BY <1>1, <1>6, <2>1, <2>h, LeasesKept DEF historyVars
    <3>2. CASE b # a
      BY <1>6, <1>8, <2>1, <2>5, <3>0, <3>1, <3>2, ResultKept
    <3>3. CASE b = a
      <4>1. ResultOK(a)
        BY <1>4 DEF ServiceInv
      <4>2. attemptState[a] = "leased"
        BY <1>1, <2>1, <2>2 DEF CallOK, ReclaimsOK
      <4>3. accepted[a] = NoResult /\ nodeState[NodeOf[a]] \notin TerminalStates
        BY <4>1, <4>2 DEF ResultOK
      <4>4. attemptState'[a] = "created"
        BY <1>1, <1>4, <2>1 DEF TablesOK
      <4>5. \A d \in Claimers : d # c => claimers'[d].pc = claimers[d].pc /\ attemptOf(d)' = attemptOf(d)
        BY <1>6 DEF Only, attemptOf
      <4>6. Reporting(a) => Reporting(a)'
        BY <3>0, <4>5 DEF Reporting
      <4>7. NobodyLate(a) => NobodyLate(a)'
        BY <1>6, <1>8, <4>5 DEF NobodyLate
      <4>8. UNCHANGED <<accepted, nodeState, proofResults, lapses, unconfirmed>>
        BY <1>1, <2>1 DEF historyVars
      <4> QED
        BY <3>1, <3>3, <4>1, <4>3, <4>4, <4>6, <4>7, <4>8 DEF ResultOK
    <3> QED
      BY <3>2, <3>3
  <2>11. CallOK(c)'
    BY <1>7, <2>8 DEF CallOK
  <2> QED
    BY <1>6, <2>t, <2>1, <2>3, <2>4, <2>5, <2>6, <2>7, <2>9, <2>10, <2>11, Assemble
<1> QED
  BY <1>3, <1>9, <1>10

LEMMA ClaimTaskStep ==
  ASSUME ServiceInv, NEW c \in Claimers, ClaimTask(c)
  PROVE  ServiceInv'
<1> DEFINE a == attemptOf(c)
           l == [generation |-> leaseGeneration'[a], token |-> tokens']
           r == [claimers[c] EXCEPT !.pc = "run", !.lease = l]
<1>1. /\ TablesOK /\ CallOK(c) /\ claimers[c] \in Call
      /\ claimers[c].pc = "claim"
      /\ UNCHANGED <<intakeVars, proofResults, launches, unconfirmed, faults>>
  BY DEF ServiceInv, TablesOK, ClaimTask
<1>2. /\ claimers[c].pc \notin Owning \cup {"idle", "reclaim", "accept", "verify"}
      /\ claimers[c].pc \in Late
  BY <1>1 DEF Owning, Late
<1>3. a \in Attempts /\ nodeOfCall(c) \in Nodes
  BY <1>2, CallAttempt
<1>4. CASE Return(c) /\ UNCHANGED <<storeVars, lapses>>
  BY <1>1, <1>2, <1>4, QuietReturn DEF quietVars, intakeVars, historyVars
<1>5. ASSUME ClaimLease(a, "direct-task-service", claimers[c].at),
             claimers' = [claimers EXCEPT ![c] = r],
             lapses' = IF BornExpired(c) THEN [lapses EXCEPT ![a] = lapses[a] + 1] ELSE lapses
      PROVE  ServiceInv'
  <2> DEFINE row == [generation |-> leaseGeneration[a] + 1, owner |-> "direct-task-service",
                     token |-> tokens + 1, expires |-> claimers[c].at + LeaseTTL]
  <2>1. /\ attemptState[a] # "none" /\ leases[a] = NoLease
        /\ tokens' = tokens + 1
        /\ leaseGeneration' = [leaseGeneration EXCEPT ![a] = leaseGeneration[a] + 1]
        /\ leases' = [leases EXCEPT ![a] = row]
        /\ attemptState' = [attemptState EXCEPT ![a] = "leased"]
        /\ UNCHANGED <<nodeState, nodeVersion, accepted, now>>
    BY <1>5 DEF ClaimLease, nodeVars, resultVars
  <2> HIDE DEF a
  <2>2. leaseGeneration[a] \in Nat /\ tokens \in Nat /\ claimers[c].at \in Nat /\ now \in Nat
    BY <1>1, <1>3 DEF TablesOK, Call
  <2>3. /\ leaseGeneration[a] + 1 \in Nat /\ leaseGeneration[a] + 1 # 0 /\ tokens + 1 \in Nat
        /\ claimers[c].at + LeaseTTL \in Nat
    BY <2>2
  <2>4. /\ row \in Lease /\ row.generation = leaseGeneration[a] + 1 /\ row.token = tokens + 1
        /\ row.expires = claimers[c].at + LeaseTTL
    BY <2>3, ServiceAssumption DEF Lease
  <2> HIDE DEF row
  <2>5. leaseGeneration'[a] = leaseGeneration[a] + 1 /\ leases'[a] = row /\ attemptState'[a] = "leased"
    BY <1>1, <1>3, <2>1 DEF TablesOK
  <2>6. l \in [generation : Nat, token : Nat] /\ l.generation = row.generation /\ l.token = row.token
    BY <2>1, <2>3, <2>4, <2>5
  <2> HIDE DEF l
  <2>7. /\ r \in Call /\ r.pc = "run" /\ r.at = claimers[c].at /\ r.work = claimers[c].work
        /\ r.state = claimers[c].state /\ r.version = claimers[c].version /\ r.lease = l
    <3>1. "run" \in Pcs
      BY DEF Pcs, Owning
    <3> QED
      BY <1>1, <2>6, <3>1 DEF Call
  <2> HIDE DEF r
  <2>8. claimers' \in [Claimers -> Call] /\ Only(c) /\ claimers'[c] = r
    BY <1>1, <1>5, <2>7 DEF Only, TablesOK
  <2>l. /\ lapses' \in [Attempts -> Nat] /\ lapses[a] \in Nat
        /\ \A b \in Attempts : b # a => lapses'[b] = lapses[b]
        /\ lapses'[a] = IF BornExpired(c) THEN lapses[a] + 1 ELSE lapses[a]
    BY <1>1, <1>3, <1>5 DEF TablesOK
  <2>m. lapses'[a] \in Nat /\ lapses[a] <= lapses'[a] /\ (BornExpired(c) => lapses'[a] # 0)
    BY <2>l
  <2>t. tokens' \in Nat /\ tokens <= tokens'
    BY <2>1, <2>2
  <2>9. TablesOK'
    BY <1>1, <1>3, <2>1, <2>3, <2>4, <2>8, <2>l DEF TablesOK, intakeVars, HasNode, AttemptStates
  <2>10. NodesForward
    BY <2>1 DEF NodesForward
  <2>11. \A b \in Attempts : b \notin {a} => AttemptKept(b)
    BY <1>1, <2>1, <2>l DEF AttemptKept, TablesOK
  <2>n. \A d \in Claimers : Holds(d) => attemptOf(d) # a
    BY <2>1 DEF ServiceInv, CallOK, OwnerOK, NoLease, Holds, Holding, Owning
  <2>12. ASSUME NEW d \in Claimers, d # c, claimers[d].pc \in Owning, attemptOf(d) = a
         PROVE  OwnerOK(d)'
    <3>1. CallOK(d) /\ claimers[d] \in Call /\ claimers'[d] = claimers[d]
      BY <1>1, <2>8, <2>12 DEF ServiceInv, TablesOK, Only
    <3>2. attemptOf(d)' = a /\ ~Holds(d) /\ ~Holds(d)'
      BY <2>1, <2>n, <2>12, <3>1 DEF attemptOf, Holds
    <3>3. claimers[d].lease.token \in Nat /\ claimers[d].lease.token <= tokens
      BY <2>12, <3>1 DEF CallOK, OwnerOK, Call
    <3>4. claimers[d].lease.token <= tokens' /\ leases'[a].token # claimers[d].lease.token
      BY <2>1, <2>2, <2>4, <2>5, <3>3
    <3>5. claimers[d].pc \in Holding => lapses'[a] # 0
      <4>1. claimers[d].pc \in Holding => lapses[a] # 0
        BY <2>12, <3>1, <3>2 DEF CallOK, OwnerOK
      <4> QED
        BY <2>l, <2>m, <4>1
    <3>6. claimers[d].pc = "accept" =>
            /\ claimers[d].outcome \in Outcomes
            /\ claimers[d].outcome = "passed" => proofResults[a] = "passed"
      BY <2>12, <3>1 DEF CallOK, OwnerOK
    <3>7. claimers[d].pc \in {"run", "verify", "accept"} => claimers[d].pc \in Holding
      BY DEF Holding
    <3> QED
      BY <1>1, <2>5, <3>1, <3>2, <3>4, <3>5, <3>6, <3>7 DEF OwnerOK
  <2>13. \A d \in Claimers : d # c /\ claimers[d].pc = "reclaim" => ReclaimableOK(d, {a})
    BY <2>5 DEF ReclaimableOK
  <2>14. attemptOf(c)' = a /\ nodeOfCall(c)' = nodeOfCall(c)
    BY <2>7, <2>8 DEF a, attemptOf, nodeOfCall
  <2>15. ResultOK(a)
    BY <1>3 DEF ServiceInv
  <2>16. accepted[a] = NoResult /\ nodeState[NodeOf[a]] \notin TerminalStates
    BY <2>1, <2>15 DEF ResultOK
  <2>17. lapses[a] = 0 => proofResults[a] = "none"
    <3> SUFFICES ASSUME lapses[a] = 0 PROVE proofResults[a] = "none"
      OBVIOUS
    <3>1. ~NobodyLate(a)
      BY <1>2 DEF NobodyLate, a
    <3>2. ~Reporting(a)
      <4>1. \A d \in Claimers : claimers[d].pc = "accept" /\ attemptOf(d) = a => Holds(d)
        BY DEF ServiceInv, CallOK, OwnerOK, Owning, Holding
      <4> QED
        BY <2>n, <4>1 DEF Reporting
    <3> QED
      BY <2>15, <2>16, <3>1, <3>2 DEF ResultOK
  <2>18. CallOK(c)'
    <3>1. InTime(c)' /\ ReclaimsOK(c)'
      BY <1>1, <1>2, <2>1, <2>7, <2>8 DEF CallOK, InTime, ReclaimsOK
    <3>2. PickedOK(c)'
      BY <1>1, <1>2, <2>1, <2>7, <2>8, <2>14 DEF CallOK, PickedOK, HasNode
    <3>3. OwnerOK(c)'
      <4>1. leases'[a].token = l.token /\ leases'[a].generation = l.generation
            /\ leases'[a].generation # 0 /\ leases'[a].expires = claimers[c].at + LeaseTTL
        BY <2>3, <2>4, <2>5, <2>6
      <4>2. l.token <= tokens'
        BY <2>1, <2>3, <2>4, <2>6
      <4>3. lapses'[a] = 0 => lapses[a] = 0 /\ Holds(c)'
        <5>1. lapses'[a] = 0 => lapses[a] = 0 /\ ~BornExpired(c)
          BY <2>l, <2>m
        <5>2. ~BornExpired(c) => now < claimers[c].at + LeaseTTL
          BY <2>2, <2>3 DEF BornExpired
        <5> QED
          BY <2>1, <2>7, <2>8, <5>1, <5>2 DEF Holds, Holding
      <4> QED
        BY <1>1, <2>1, <2>5, <2>7, <2>8, <2>14, <2>16, <2>17, <4>1, <4>2, <4>3 DEF OwnerOK
    <3> QED
      BY <3>1, <3>2, <3>3 DEF CallOK
  <2>19. OneHolder'
    <3>1. \A d \in Claimers : d # c => (Holds(d)' <=> Holds(d)) /\ attemptOf(d)' = attemptOf(d)
      BY <2>1, <2>8 DEF Only, attemptOf, Holds
    <3> QED
      BY <2>n, <2>14, <3>1 DEF ServiceInv, OneHolder
  <2>20. ASSUME NEW b \in Attempts PROVE ResultOK(b)' /\ LeasesOK(b)'
    <3>0. ~Holds(c) /\ claimers[c].pc # "accept"
      BY <1>1 DEF Holds, Holding
    <3>2. CASE b # a
      <4>1. ResultOK(b)'
        BY <1>1, <1>2, <2>1, <2>8, <2>11, <2>14, <3>0, <3>2, ResultKept
      <4>2. leaseGeneration'[b] = leaseGeneration[b] /\ accepted'[b] = accepted[b] /\ faults' = faults
            /\ now' = now
        BY <1>1, <2>1, <3>2 DEF TablesOK
      <4>3. LeasesOK(b)'
        BY <2>8, <2>l, <3>0, <3>2, <4>2, LeasesKept
      <4> QED
        BY <4>1, <4>3
    <3>3. CASE b = a
      <4>1. ResultOK(b)'
        <5>1. lapses'[a] = 0 => lapses[a] = 0
          BY <2>l, <2>m
        <5>2. nodeState' = nodeState /\ accepted' = accepted /\ proofResults' = proofResults
          BY <1>1, <2>1
        <5> QED
          BY <2>5, <2>16, <2>17, <3>3, <5>1, <5>2 DEF ResultOK
      <4>2. ~Held(a)
        BY <2>n DEF Held
      <4>3. /\ leaseGeneration[a] <= 1 + faults + lapses[a]
            /\ leaseGeneration[a] # 1 + faults + lapses[a]
            /\ faults \in Nat /\ faults' = faults
        BY <1>1, <1>3, <2>16, <4>2 DEF ServiceInv, LeasesOK, TablesOK
      <4>4. leaseGeneration'[a] <= 1 + faults' + lapses'[a]
        <5>1. \A g, f, x, y \in Nat :
                g <= 1 + f + x /\ g # 1 + f + x /\ x <= y => g + 1 <= 1 + f + y
          OBVIOUS
        <5>2. lapses[a] \in Nat /\ lapses'[a] \in Nat /\ lapses[a] <= lapses'[a]
          BY <2>l, <2>m
        <5> QED
          BY <2>2, <2>5, <4>3, <5>1, <5>2
      <4>5. CASE BornExpired(c)
        <5>1. leaseGeneration'[a] # 1 + faults' + lapses'[a]
          BY <2>2, <2>5, <2>l, <4>3, <4>5
        <5> QED
          BY <3>3, <4>1, <4>4, <5>1 DEF LeasesOK
      <4>6. CASE ~BornExpired(c)
        <5>1. now < claimers[c].at + LeaseTTL
          BY <2>2, <2>3, <4>6 DEF BornExpired
        <5>2. Holds(c)'
          BY <2>1, <2>7, <2>8, <5>1 DEF Holds, Holding
        <5>3. Held(b)'
          BY <2>14, <3>3, <5>2 DEF Held
        <5> QED
          BY <3>3, <4>1, <4>4, <5>3 DEF LeasesOK
      <4> QED
        BY <4>5, <4>6
    <3> QED
      BY <3>2, <3>3
  <2> QED
    BY <2>t, <2>1, <2>8, <2>9, <2>10, <2>11, <2>12, <2>13, <2>18, <2>19, <2>20, Assemble
<1> QED
  BY <1>1, <1>4, <1>5 DEF ClaimTask

-----------------------------------------------------------------------------
(* Steps of an owner.                                                      *)

\* The row of a call that ends a run with an outcome.
LEMMA OutcomeRow ==
  ASSUME ServiceInv, NEW c \in Claimers, NEW o \in Outcomes,
         claimers' = [claimers EXCEPT ![c].pc = "accept", ![c].outcome = o]
  PROVE  /\ claimers' \in [Claimers -> Call] /\ Only(c) /\ SameTask(c)
         /\ claimers'[c].pc = "accept" /\ claimers'[c].outcome = o
<1>1. claimers \in [Claimers -> Call]
  BY DEF ServiceInv, TablesOK
<1> DEFINE r == [claimers[c] EXCEPT !.pc = "accept", !.outcome = o]
<1>2. claimers' = [claimers EXCEPT ![c] = r]
  BY <1>1
<1>3. claimers[c] \in Call /\ "accept" \in Pcs
  BY <1>1 DEF Pcs, Owning
<1>4. /\ r \in Call /\ r.pc = "accept" /\ r.at = claimers[c].at /\ r.work = claimers[c].work
      /\ r.state = claimers[c].state /\ r.version = claimers[c].version
      /\ r.lease = claimers[c].lease /\ r.outcome = o
  BY <1>3 DEF Call
<1> HIDE DEF r
<1> QED
  BY <1>1, <1>2, <1>4 DEF Only, SameTask

\* What an owner knows.
LEMMA OwnerFacts ==
  ASSUME ServiceInv, NEW c \in Claimers, claimers[c].pc \in Owning
  PROVE  /\ attemptOf(c) \in Attempts /\ nodeOfCall(c) \in Nodes
         /\ claimers[c].pc \notin {"idle", "reclaim"}
         /\ CallOK(c) /\ claimers[c] \in Call /\ TablesOK /\ ResultOK(attemptOf(c))
         /\ LeasesOK(attemptOf(c)) /\ ~NobodyLate(attemptOf(c))
         /\ Holds(c) => nodeState[nodeOfCall(c)] = "in_progress" /\ accepted[attemptOf(c)] = NoResult
<1>1. claimers[c].pc \notin {"idle", "reclaim"}
  BY DEF Owning
<1>2. attemptOf(c) \in Attempts /\ nodeOfCall(c) \in Nodes
  BY <1>1, CallAttempt
<1>3. CallOK(c) /\ claimers[c] \in Call /\ TablesOK /\ ResultOK(attemptOf(c)) /\ LeasesOK(attemptOf(c))
  BY <1>2 DEF ServiceInv, TablesOK
<1>4. ASSUME Holds(c)
      PROVE  nodeState[nodeOfCall(c)] = "in_progress" /\ accepted[attemptOf(c)] = NoResult
  <2>1. accepted[attemptOf(c)] = NoResult
    BY <1>3, <1>4 DEF CallOK, OwnerOK
  <2>2. nodeState[nodeOfCall(c)] \notin TerminalStates
    BY <1>3, <2>1 DEF ResultOK, nodeOfCall
  <2>3. nodeState[nodeOfCall(c)] \in TerminalStates \cup {"in_progress"}
    BY <1>1, <1>3 DEF CallOK, PickedOK
  <2> QED
    BY <2>1, <2>2, <2>3
<1>5. ~NobodyLate(attemptOf(c))
  BY DEF NobodyLate
<1> QED
  BY <1>1, <1>2, <1>3, <1>4, <1>5

\* A step of an owner that another call, which once claimed the same attempt, does
\* not notice: a result is accepted from the holder of the lease only, and a
\* proof result is written once.
LEMMA OtherOwner ==
  ASSUME ServiceInv, NEW c \in Claimers, claimers[c].pc \in Owning, NEW a, a = attemptOf(c), Only(c),
         NEW d \in Claimers, d # c, claimers[d].pc \in Owning, attemptOf(d) = a,
         UNCHANGED <<now, tokens>>, leases'[a] = leases[a], lapses'[a] = lapses[a],
         attemptState'[a] # "none", unconfirmed \subseteq unconfirmed',
         accepted'[a] = accepted[a] \/ Holds(c),
         \/ proofResults'[a] = proofResults[a]
         \/ proofResults[a] = "none" /\ claimers[c].pc \in Holding
  PROVE  OwnerOK(d)'
<1>1. CallOK(c) /\ CallOK(d) /\ claimers'[d] = claimers[d]
  BY DEF ServiceInv, Only
<1>2. attemptOf(d)' = a /\ (Holds(d)' <=> Holds(d))
  BY <1>1 DEF attemptOf, Holds
<1>3. ~(Holds(c) /\ Holds(d))
  BY DEF ServiceInv, OneHolder
<1>4. claimers[d].pc \in Holding /\ lapses[a] = 0 => Holds(d)
  BY <1>1 DEF CallOK, OwnerOK
<1>5. claimers[c].pc \in Holding /\ lapses[a] = 0 => Holds(c)
  BY <1>1 DEF CallOK, OwnerOK
<1>6. claimers[d].pc \in Holding /\ lapses[a] = 0 => proofResults'[a] = proofResults[a]
  BY <1>3, <1>4, <1>5
<1>7. claimers[d].pc \in {"run", "verify", "accept"} => claimers[d].pc \in Holding
  BY DEF Holding
<1>8. claimers[d].pc = "accept" /\ claimers[d].outcome = "passed" => proofResults'[a] = "passed"
  BY <1>1 DEF CallOK, OwnerOK
<1>9. claimers[d].pc = "accept" /\ lapses[a] = 0 /\ a \notin unconfirmed' /\ proofResults'[a] # "none" =>
        proofResults'[a] = claimers[d].outcome
  BY <1>1, <1>6, <1>7 DEF CallOK, OwnerOK
<1>10. Holds(d) => accepted'[a] = NoResult
  BY <1>1, <1>3 DEF CallOK, OwnerOK
<1>11. claimers[d].pc \in {"run", "verify"} /\ lapses[a] = 0 => proofResults'[a] = "none"
  BY <1>1, <1>6, <1>7 DEF CallOK, OwnerOK
<1>12. /\ claimers[d].lease.token <= tokens
       /\ leases[a].generation # 0 /\ leases[a].token = claimers[d].lease.token =>
            leases[a].expires = claimers[d].at + LeaseTTL
       /\ Holds(d) => /\ leases[a].generation # 0
                      /\ leases[a].generation = claimers[d].lease.generation
                      /\ leases[a].token = claimers[d].lease.token
       /\ claimers[d].pc = "accept" => claimers[d].outcome \in Outcomes
  BY <1>1 DEF CallOK, OwnerOK
<1> QED
  BY <1>1, <1>2, <1>4, <1>8, <1>9, <1>10, <1>11, <1>12 DEF OwnerOK

\* A step of an owner concerns its attempt only, and its lease row stays.
LEMMA OwnerStep ==
  ASSUME ServiceInv, NEW c \in Claimers, claimers[c].pc \in Owning,
         NEW a, a = attemptOf(c), Only(c), TablesOK',
         UNCHANGED <<now, tokens, leases, leaseGeneration, lapses>>, NodesForward,
         \A b \in Attempts : b # a =>
           AttemptKept(b) /\ nodeState'[NodeOf[b]] = nodeState[NodeOf[b]],
         attemptState'[a] # "none", unconfirmed \subseteq unconfirmed',
         accepted'[a] = accepted[a] \/ (Holds(c) /\ accepted'[a] # NoResult),
         attemptState'[a] = attemptState[a] \/ Holds(c) \/ accepted[a] # NoResult,
         \/ proofResults'[a] = proofResults[a]
         \/ proofResults[a] = "none" /\ claimers[c].pc \in Holding,
         \/ claimers'[c].pc = "idle"
         \/ /\ claimers'[c].pc \in Owning /\ SameTask(c)
            /\ claimers'[c].pc \in Holding => claimers[c].pc \in Holding,
         faults' = faults \/ faults' = faults + 1,
         faults' = faults + 1 \/ accepted'[a] # NoResult \/ (Holds(c) => Holds(c)'),
         CallOK(c)', ResultOK(a)'
  PROVE  ServiceInv'
<1>1. /\ a \in Attempts /\ CallOK(c) /\ claimers[c].pc \notin {"idle", "reclaim"}
      /\ claimers[c] \in Call /\ TablesOK
      /\ Holds(c) => accepted[a] = NoResult
  BY OwnerFacts
<1>t. tokens' \in Nat /\ tokens <= tokens'
  BY <1>1 DEF TablesOK
<1>2. \A b \in Attempts : b \notin {a} => AttemptKept(b)
  OBVIOUS
<1>3. \A d \in Claimers : d # c /\ claimers[d].pc \in Owning /\ attemptOf(d) \in {a} => OwnerOK(d)'
  BY OtherOwner
<1>4. ASSUME NEW d \in Claimers, d # c, claimers[d].pc = "reclaim"
      PROVE  ReclaimableOK(d, {a})
  <2>1. CallOK(d) /\ claimers[d] \in Call
    BY <1>1 DEF ServiceInv, TablesOK
  <2>2. CASE attemptState'[a] = attemptState[a]
    BY <1>4, <2>1, <2>2 DEF CallOK, ReclaimsOK, ReclaimableOK
  <2>3. CASE accepted[a] # NoResult
    <3>1. attemptState[a] # "leased"
      BY <1>1, <2>3 DEF ServiceInv, ResultOK
    <3> QED
      BY <1>4, <2>1, <3>1 DEF CallOK, ReclaimsOK, ReclaimableOK
  <2>4. CASE Holds(c)
    <3>1. claimers[d].at <= now
      BY <1>4, <2>1 DEF CallOK, InTime
    <3>2. leases[a].expires = claimers[c].at + LeaseTTL /\ now < claimers[c].at + LeaseTTL
      BY <1>1, <2>4 DEF CallOK, OwnerOK, Holds
    <3>3. claimers[c].at \in Nat /\ claimers[d].at \in Nat /\ now \in Nat
      BY <1>1, <2>1 DEF Call, TablesOK
    <3>4. ~(leases'[a].expires <= claimers[d].at)
      BY <3>1, <3>2, <3>3
    <3> QED
      BY <3>4 DEF ReclaimableOK
  <2> QED
    BY <2>2, <2>3, <2>4
<1>5. Holds(c)' => Holds(c) /\ claimers'[c].work = claimers[c].work
  BY DEF Holds, SameTask, Holding
<1>6. OneHolder'
  BY <1>5, HoldersKept
<1>7. ASSUME NEW b \in Attempts PROVE ResultOK(b)'
  <2>1. CASE b = a
    BY <2>1
  <2>2. CASE b # a
    <3>1. claimers'[c].pc \in Late \cup Owning => attemptOf(c)' = a
      BY DEF Late, Owning, attemptOf, SameTask
    <3> QED
      BY <2>2, <3>1, ResultKept
  <2> QED
    BY <2>1, <2>2
<1>8. ASSUME NEW b \in Attempts PROVE LeasesOK(b)'
  <2>1. LeasesOK(b) /\ leaseGeneration[b] \in Nat /\ lapses[b] \in Nat /\ faults \in Nat
    BY <1>1 DEF ServiceInv, TablesOK
  <2>2. CASE faults' = faults + 1
    <3>1. leaseGeneration[b] <= 1 + faults + lapses[b]
      BY <2>1 DEF LeasesOK
    <3>2. \A g, f, x \in Nat : g <= 1 + f + x => g <= 1 + (f + 1) + x /\ g # 1 + (f + 1) + x
      OBVIOUS
    <3>3. leaseGeneration[b] <= 1 + (faults + 1) + lapses[b] /\ leaseGeneration[b] # 1 + (faults + 1) + lapses[b]
      BY <2>1, <3>1, <3>2
    <3> QED
      BY <2>2, <3>3 DEF LeasesOK
  <2>3. CASE faults' = faults /\ b # a
    BY <2>3, LeasesKept DEF AttemptKept
  <2>4. CASE faults' = faults /\ b = a
    <3>1. CASE accepted'[a] # NoResult
      BY <2>1, <2>4, <3>1 DEF LeasesOK
    <3>2. CASE accepted'[a] = NoResult
      <4>1. accepted'[a] = accepted[a]
        BY <3>2
      <4>2. Holds(c) => Holds(c)' /\ claimers'[c].work = claimers[c].work
        <5>1. \/ faults' = faults + 1
              \/ Holds(c) => Holds(c)'
          BY <3>2
        <5>2. faults' # faults + 1
          BY <2>1, <2>4
        <5> QED
          BY <1>5, <5>1, <5>2
      <4> QED
        BY <2>4, <4>1, <4>2, LeasesKept
    <3> QED
      BY <3>1, <3>2
  <2> QED
    BY <2>2, <2>3, <2>4
<1> QED
  BY <1>t, <1>2, <1>3, <1>4, <1>6, <1>7, <1>8, Assemble

\* What a step of an owner that writes neither the store nor its memory of the
\* task keeps.
LEMMA OwnerQuiet ==
  ASSUME ServiceInv, NEW c \in Claimers, claimers[c].pc \in Owning,
         UNCHANGED <<storeVars, intakeVars, lapses>>, claimers' \in [Claimers -> Call]
  PROVE  /\ NodesForward /\ UNCHANGED <<now, tokens, leases, leaseGeneration, accepted, attemptState, nodeState>>
         /\ \A b : /\ proofResults'[b] = proofResults[b]
                   /\ b \in unconfirmed' <=> b \in unconfirmed
                   => AttemptKept(b)
         /\ proofResults' \in [Attempts -> Outcomes \cup {"none"}] /\ launches' \in [Attempts -> Nat]
            /\ faults' \in Nat => TablesOK'
         /\ SameTask(c) => attemptOf(c)' = attemptOf(c) /\ nodeOfCall(c)' = nodeOfCall(c)
         /\ SameTask(c) /\ claimers'[c].pc \in Owning => InTime(c)' /\ ReclaimsOK(c)' /\ PickedOK(c)'
<1>1. TablesOK /\ CallOK(c) /\ claimers[c].pc \notin {"idle", "reclaim"}
  BY OwnerFacts
<1>2. /\ NodesForward /\ UNCHANGED <<now, tokens, leases, leaseGeneration, accepted, attemptState, nodeState>>
      /\ \A b : /\ proofResults'[b] = proofResults[b]
                /\ b \in unconfirmed' <=> b \in unconfirmed
                => AttemptKept(b)
  BY DEF storeVars, NodesForward, AttemptKept
<1>3. ASSUME proofResults' \in [Attempts -> Outcomes \cup {"none"}], launches' \in [Attempts -> Nat],
             faults' \in Nat
      PROVE  TablesOK'
  BY <1>1, <1>3 DEF TablesOK, storeVars, intakeVars, HasNode
<1>4. SameTask(c) => attemptOf(c)' = attemptOf(c) /\ nodeOfCall(c)' = nodeOfCall(c)
  BY DEF SameTask, attemptOf, nodeOfCall
<1>5. ASSUME SameTask(c), claimers'[c].pc \in Owning
      PROVE  InTime(c)' /\ ReclaimsOK(c)' /\ PickedOK(c)'
  <2>1. InTime(c)' /\ ReclaimsOK(c)'
    BY <1>1, <1>2, <1>5 DEF CallOK, InTime, ReclaimsOK, SameTask, Owning
  <2>2. claimers[c].state = "in_progress"
    BY <1>1 DEF CallOK, PickedOK
  <2>3. PickedOK(c)'
    BY <1>1, <1>2, <1>4, <1>5, <2>2 DEF CallOK, PickedOK, SameTask, HasNode
  <2> QED
    BY <2>1, <2>3
<1> QED
  BY <1>2, <1>3, <1>4, <1>5

LEMMA RunThrowsStep ==
  ASSUME ServiceInv, NEW c \in Claimers, RunThrows(c)
  PROVE  ServiceInv'
<1>a. PICK a : a = attemptOf(c)
  OBVIOUS
<1>1. /\ claimers[c].pc = "run" /\ claimers[c].pc \in Owning /\ faults' = faults + 1 /\ Return(c)
      /\ UNCHANGED <<storeVars, intakeVars, lapses>>
      /\ proofResults' = proofResults /\ launches' = launches /\ unconfirmed' = unconfirmed
  BY DEF RunThrows, Fault, Owning, historyVars
<1>2. claimers' \in [Claimers -> Call] /\ Only(c) /\ claimers'[c].pc = "idle"
  BY <1>1, ReturnRow
<1>3. a \in Attempts /\ TablesOK /\ CallOK(c) /\ ResultOK(a) /\ ~NobodyLate(a)
  BY <1>a, <1>1, OwnerFacts
<1>4. CallOK(c)'
  BY <1>2 DEF CallOK, InTime, ReclaimsOK, PickedOK, OwnerOK, Owning
<1>5. /\ faults' \in Nat /\ launches \in [Attempts -> Nat]
      /\ proofResults \in [Attempts -> Outcomes \cup {"none"}]
  BY <1>1, <1>3 DEF TablesOK
<1>7. /\ TablesOK' /\ NodesForward
      /\ UNCHANGED <<now, tokens, leases, leaseGeneration, accepted, attemptState, nodeState>>
      /\ \A b : AttemptKept(b)
  BY <1>1, <1>2, <1>5, OwnerQuiet
<1>8. attemptState[a] # "none"
  BY <1>a, <1>1, <1>3 DEF CallOK, OwnerOK
<1>9. ResultOK(a)'
  <2>1. Reporting(a) => Reporting(a)'
    BY <1>1, <1>2 DEF Reporting, Only, attemptOf
  <2> QED
    BY <1>1, <1>3, <1>7, <2>1 DEF ResultOK
<1> QED
  BY <1>a, <1>1, <1>2, <1>4, <1>7, <1>8, <1>9, OwnerStep

\* A run ends: its call has an outcome, and the proof result, if this call has
\* stored one, is that outcome, or the call has thrown after storing it.
LEMMA RunEnds ==
  ASSUME ServiceInv, NEW c \in Claimers, claimers[c].pc \in {"run", "verify"},
         NEW o \in Outcomes, claimers' = [claimers EXCEPT ![c].pc = "accept", ![c].outcome = o],
         UNCHANGED <<storeVars, intakeVars, launches, lapses>>,
         faults' = faults \/ faults' = faults + 1,
         NEW a, a = attemptOf(c),
         \/ o = "failed" /\ UNCHANGED <<proofResults, unconfirmed>>
         \/ \E s \in Outcomes :
              /\ proofResults[a] = "none" /\ proofResults' = [proofResults EXCEPT ![a] = s]
              /\ \/ o = s /\ unconfirmed' = unconfirmed
                 \/ o = "failed" /\ unconfirmed' = unconfirmed \cup {a}
  PROVE  ServiceInv'
<1>0. claimers[c].pc \in Owning /\ claimers[c].pc \in Holding
  BY DEF Owning, Holding
<1>1. /\ claimers' \in [Claimers -> Call] /\ Only(c) /\ SameTask(c)
      /\ claimers'[c].pc = "accept" /\ claimers'[c].outcome = o
      /\ claimers'[c].pc \in Owning /\ claimers'[c].pc \in Holding
  BY OutcomeRow DEF Owning, Holding
<1>2. /\ a \in Attempts /\ TablesOK /\ CallOK(c) /\ ResultOK(a)
      /\ Holds(c) => accepted[a] = NoResult
  BY <1>0, OwnerFacts
<1>3. /\ lapses[a] = 0 => proofResults[a] = "none" /\ Holds(c)
      /\ attemptState[a] # "none"
  BY <1>0, <1>2 DEF CallOK, OwnerOK
<1>4. faults' \in Nat /\ launches' \in [Attempts -> Nat]
      /\ proofResults \in [Attempts -> Outcomes \cup {"none"}]
  BY <1>2 DEF TablesOK
<1>5. /\ proofResults' \in [Attempts -> Outcomes \cup {"none"}]
      /\ \A b \in Attempts : b # a =>
           proofResults'[b] = proofResults[b] /\ (b \in unconfirmed' <=> b \in unconfirmed)
      /\ unconfirmed \subseteq unconfirmed'
      /\ proofResults'[a] = proofResults[a] \/ proofResults[a] = "none"
  BY <1>2, <1>4
<1>6. /\ o = "passed" => proofResults'[a] = "passed"
      /\ lapses[a] = 0 /\ a \notin unconfirmed' /\ proofResults'[a] # "none" => proofResults'[a] = o
  <2>1. CASE o = "failed" /\ UNCHANGED <<proofResults, unconfirmed>>
    BY <1>3, <2>1
  <2>2. ASSUME NEW s \in Outcomes, proofResults' = [proofResults EXCEPT ![a] = s],
               \/ o = s /\ unconfirmed' = unconfirmed
               \/ o = "failed" /\ unconfirmed' = unconfirmed \cup {a}
        PROVE  /\ o = "passed" => proofResults'[a] = "passed"
               /\ lapses[a] = 0 /\ a \notin unconfirmed' /\ proofResults'[a] # "none" => proofResults'[a] = o
    <3>1. proofResults'[a] = s
      BY <1>2, <1>4, <2>2
    <3> QED
      BY <2>2, <3>1
  <2> QED
    BY <2>1, <2>2
<1>7. /\ TablesOK' /\ NodesForward
      /\ UNCHANGED <<now, tokens, leases, leaseGeneration, accepted, attemptState, nodeState>>
      /\ \A b \in Attempts : b # a => AttemptKept(b)
      /\ attemptOf(c)' = a /\ InTime(c)' /\ ReclaimsOK(c)' /\ PickedOK(c)'
  BY <1>0, <1>1, <1>4, <1>5, OwnerQuiet
<1>h. Holds(c)' <=> Holds(c)
  BY <1>0, <1>1, <1>7 DEF Holds, SameTask
<1>8. OwnerOK(c)'
  <2>1. /\ claimers[c].lease.token <= tokens
        /\ leases[a].generation # 0 /\ leases[a].token = claimers[c].lease.token =>
             leases[a].expires = claimers[c].at + LeaseTTL
        /\ Holds(c) => /\ leases[a].generation # 0
                       /\ leases[a].generation = claimers[c].lease.generation
                       /\ leases[a].token = claimers[c].lease.token
    BY <1>0, <1>2 DEF CallOK, OwnerOK
  <2> QED
    BY <1>h, <1>1, <1>2, <1>3, <1>6, <1>7, <2>1 DEF OwnerOK, SameTask
<1>9. Reporting(a)'
  BY <1>1, <1>7 DEF Reporting
<1>10. ResultOK(a)'
  <2>1. accepted[a] # NoResult /\ accepted[a].outcome = "passed" => proofResults'[a] = "passed"
    BY <1>2, <1>5 DEF ResultOK
  <2> QED
    BY <1>2, <1>3, <1>7, <1>9, <2>1 DEF ResultOK
<1>12. CallOK(c)'
  BY <1>7, <1>8 DEF CallOK
<1> QED
  BY <1>h, <1>0, <1>1, <1>3, <1>5, <1>7, <1>10, <1>12, OwnerStep

LEMMA AllocationFailsStep ==
  ASSUME ServiceInv, NEW c \in Claimers, AllocationFails(c)
  PROVE  ServiceInv'
<1>1. \A o \in Outcomes : \A a : o = "failed" /\ a = attemptOf(c) => ServiceInv'
  BY RunEnds DEF AllocationFails, historyVars
<1> QED
  BY <1>1 DEF Outcomes

LEMMA RecordFailsStep ==
  ASSUME ServiceInv, NEW c \in Claimers, RecordFails(c)
  PROVE  ServiceInv'
<1>1. \A o \in Outcomes : \A a : o = "failed" /\ a = attemptOf(c) => ServiceInv'
  BY RunEnds DEF RecordFails, recordProofResult, Fault
<1> QED
  BY <1>1 DEF Outcomes

LEMMA RecordProofStep ==
  ASSUME ServiceInv, NEW c \in Claimers, RecordProof(c)
  PROVE  ServiceInv'
<1>1. /\ claimers[c].pc = "verify" /\ faults' = faults
      /\ UNCHANGED <<storeVars, intakeVars, launches, lapses>> /\ unconfirmed' = unconfirmed
  BY DEF RecordProof, historyVars
<1>2. ASSUME NEW status \in Outcomes, recordProofResult(attemptOf(c), status),
             claimers' = [claimers EXCEPT ![c].pc = "accept", ![c].outcome = status]
      PROVE  ServiceInv'
  <2>1. \A a : a = attemptOf(c) => ServiceInv'
    BY <1>1, <1>2, RunEnds DEF recordProofResult
  <2> QED
    BY <2>1
<1>3. CASE /\ proofResults[attemptOf(c)] # "none"
           /\ claimers' = [claimers EXCEPT ![c].pc = "accept", ![c].outcome = "failed"]
           /\ UNCHANGED proofResults
  <2>1. \A o \in Outcomes : \A a : o = "failed" /\ a = attemptOf(c) => ServiceInv'
    BY <1>1, <1>3, RunEnds
  <2> QED
    BY <2>1 DEF Outcomes
<1> QED
  BY <1>2, <1>3 DEF RecordProof

LEMMA LaunchWorkerStep ==
  ASSUME ServiceInv, NEW c \in Claimers, LaunchWorker(c)
  PROVE  ServiceInv'
<1>a. PICK a : a = attemptOf(c)
  OBVIOUS
<1>1. /\ claimers[c].pc = "run" /\ claimers[c].pc \in Owning /\ Goto(c, "verify") /\ "verify" \in Pcs
      /\ launches' = [launches EXCEPT ![a] = launches[a] + 1]
      /\ UNCHANGED <<storeVars, intakeVars, lapses>> /\ proofResults' = proofResults /\ faults' = faults
      /\ unconfirmed' = unconfirmed
  BY <1>a DEF LaunchWorker, Owning, Pcs
<1>2. /\ claimers' \in [Claimers -> Call] /\ Only(c) /\ SameTask(c)
      /\ claimers'[c].pc = "verify" /\ claimers'[c].pc \in Owning
  BY <1>1, GotoRow DEF Owning
<1>3. a \in Attempts /\ TablesOK /\ CallOK(c) /\ ResultOK(a) /\ ~NobodyLate(a)
  BY <1>a, <1>1, OwnerFacts
<1>4. faults \in Nat /\ launches \in [Attempts -> Nat] /\ launches[a] \in Nat
      /\ proofResults \in [Attempts -> Outcomes \cup {"none"}]
  BY <1>3 DEF TablesOK
<1>5. launches' \in [Attempts -> Nat]
  BY <1>1, <1>3, <1>4
<1>6. /\ TablesOK' /\ NodesForward
      /\ UNCHANGED <<now, tokens, leases, leaseGeneration, accepted, attemptState, nodeState>>
      /\ \A b : AttemptKept(b)
      /\ attemptOf(c)' = a /\ InTime(c)' /\ ReclaimsOK(c)' /\ PickedOK(c)'
  BY <1>a, <1>1, <1>2, <1>4, <1>5, OwnerQuiet
<1>h. (Holds(c)' <=> Holds(c)) /\ claimers[c].pc \in Holding
  BY <1>1, <1>2, <1>6 DEF Holds, SameTask, Holding
<1>7. OwnerOK(c)' /\ attemptState[a] # "none"
  BY <1>h, <1>a, <1>1, <1>2, <1>3, <1>6 DEF CallOK, OwnerOK, SameTask
<1>8. ResultOK(a)'
  <2>1. Reporting(a) => Reporting(a)'
    BY <1>1, <1>2 DEF Reporting, Only, attemptOf
  <2> QED
    BY <1>1, <1>3, <1>6, <2>1 DEF ResultOK
<1>9. CallOK(c)'
  BY <1>6, <1>7 DEF CallOK
<1> QED
  BY <1>h, <1>a, <1>1, <1>2, <1>6, <1>7, <1>8, <1>9, OwnerStep

\* The report is taken from the holder of the lease, and from nobody else.
LEMMA ReportAccepted ==
  ASSUME ServiceInv, NEW c \in Claimers, claimers[c].pc = "accept"
  PROVE  LET g == heldLease(c) IN
         /\ LeaseValid(g, now) => Holds(c)
         /\ Holds(c) => ~ (\/ accepted[g.attempt] # NoResult
                           \/ nodeVersion[NodeOf[g.attempt]] # claimers[c].version
                           \/ ~LeaseValid(g, now))
<1> DEFINE a == attemptOf(c)
<1>1. claimers[c].pc \in Owning /\ claimers[c].pc \notin {"complete", "idle", "reclaim"}
      /\ claimers[c].pc \in Holding
  BY DEF Owning, Holding
<1>2. /\ a \in Attempts /\ nodeOfCall(c) \in Nodes /\ TablesOK /\ CallOK(c) /\ claimers[c] \in Call
      /\ Holds(c) => accepted[a] = NoResult /\ nodeState[nodeOfCall(c)] = "in_progress"
  BY <1>1, OwnerFacts
<1>5. claimers[c].at \in Nat /\ now \in Nat /\ claimers[c].at + LeaseTTL \in Nat
  BY <1>2 DEF TablesOK, Call
<1>7. /\ heldLease(c).attempt = a /\ heldLease(c).generation = claimers[c].lease.generation
      /\ heldLease(c).token = claimers[c].lease.token
  BY DEF heldLease
<1>e. leases[a].generation # 0 /\ leases[a].token = claimers[c].lease.token =>
        leases[a].expires = claimers[c].at + LeaseTTL
  BY <1>1, <1>2 DEF CallOK, OwnerOK
<1>8. ASSUME LeaseValid(heldLease(c), now) PROVE Holds(c)
  <2>1. leases[a].expires = claimers[c].at + LeaseTTL /\ leases[a].expires > now
    BY <1>7, <1>8, <1>e DEF LeaseValid
  <2>2. now < claimers[c].at + LeaseTTL
    BY <1>5, <2>1
  <2> QED
    BY <1>1, <2>2 DEF Holds
<1>9. ASSUME Holds(c)
      PROVE  /\ accepted[a] = NoResult /\ nodeVersion[NodeOf[a]] = claimers[c].version
             /\ LeaseValid(heldLease(c), now)
  <2>1. nodeVersion[NodeOf[a]] = claimers[c].version
    BY <1>1, <1>2, <1>9 DEF TablesOK, CallOK, PickedOK, nodeOfCall
  <2>2. /\ leases[a].generation # 0 /\ leases[a].generation = claimers[c].lease.generation
        /\ leases[a].token = claimers[c].lease.token
        /\ now < claimers[c].at + LeaseTTL
    BY <1>1, <1>2, <1>9 DEF CallOK, OwnerOK, Holds
  <2>3. leases[a].expires > now
    BY <1>5, <1>e, <2>2
  <2>4. LeaseValid(heldLease(c), now)
    BY <1>7, <2>2, <2>3 DEF LeaseValid
  <2> QED
    BY <1>2, <1>9, <2>1, <2>4
<1> QED
  BY <1>7, <1>8, <1>9

LEMMA ReportResultStep ==
  ASSUME ServiceInv, NEW c \in Claimers, ReportResult(c)
  PROVE  ServiceInv'
<1>a. PICK a : a = attemptOf(c)
  OBVIOUS
<1> DEFINE row == [outcome |-> claimers[c].outcome, generation |-> claimers[c].lease.generation,
                   version |-> claimers[c].version]
<1>1. /\ claimers[c].pc = "accept" /\ claimers[c].pc \in Owning /\ claimers[c].pc \in Holding
      /\ UNCHANGED <<intakeVars, proofResults, launches, lapses, faults>> /\ unconfirmed' = unconfirmed
      /\ "complete" \in Pcs
  BY DEF ReportResult, Owning, Holding, Pcs, historyVars
<1>3. heldLease(c).attempt = a /\ heldLease(c).generation = claimers[c].lease.generation
  BY <1>a DEF heldLease
<1>6. /\ a \in Attempts /\ TablesOK /\ CallOK(c) /\ claimers[c] \in Call /\ ResultOK(a)
      /\ Holds(c) => accepted[a] = NoResult
  BY <1>a, <1>1, OwnerFacts
<1>7. /\ claimers[c].outcome \in Outcomes /\ attemptState[a] # "none"
      /\ claimers[c].outcome = "passed" => proofResults[a] = "passed"
      /\ lapses[a] = 0 /\ a \notin unconfirmed /\ proofResults[a] # "none" =>
           proofResults[a] = claimers[c].outcome
      /\ Holds(c) => leases[a].generation # 0
      /\ lapses[a] = 0 => Holds(c)
  BY <1>a, <1>1, <1>6 DEF CallOK, OwnerOK
<1>r. CASE /\ AcceptResult(heldLease(c), claimers[c].version, claimers[c].outcome, now)
           /\ Goto(c, "complete")
  <2>h. Holds(c) /\ accepted[a] = NoResult
    BY <1>1, <1>6, <1>r, ReportAccepted DEF AcceptResult
  <2>4. /\ accepted' = [accepted EXCEPT ![a] = row]
        /\ attemptState' = [attemptState EXCEPT ![a] = "result_accepted"]
        /\ UNCHANGED <<nodeState, nodeVersion, leaseGeneration, leases, tokens, now>>
    BY <1>r, <1>3 DEF AcceptResult, nodeVars, leaseVars
  <2>5. /\ claimers' \in [Claimers -> Call] /\ Only(c) /\ SameTask(c)
        /\ claimers'[c].pc = "complete" /\ claimers'[c].pc \in Owning /\ claimers'[c].pc \notin Holding
    BY <1>1, <1>r, GotoRow DEF Owning, Holding
  <2>8. row \in Result /\ row.outcome = claimers[c].outcome
    BY <1>6, <1>7 DEF Result, Call
  <2>9. row # NoResult
    <3>1. NoResult.outcome = "none" /\ row.outcome # "none"
      BY <1>7, <2>8 DEF NoResult, Outcomes
    <3> QED
      BY <3>1
  <2> HIDE DEF row
  <2>10. accepted'[a] = row /\ attemptState'[a] = "result_accepted"
    BY <1>6, <2>4 DEF TablesOK
  <2>11. TablesOK'
    BY <1>1, <1>6, <2>4, <2>5, <2>8 DEF TablesOK, intakeVars, HasNode, AttemptStates
  <2>12. NodesForward
    BY <2>4 DEF NodesForward
  <2>13. \A b \in Attempts : b # a =>
           AttemptKept(b) /\ nodeState'[NodeOf[b]] = nodeState[NodeOf[b]]
    BY <1>1, <1>6, <2>4 DEF AttemptKept, TablesOK
  <2>14. attemptOf(c)' = a /\ nodeOfCall(c)' = nodeOfCall(c)
    BY <1>a, <2>5 DEF SameTask, attemptOf, nodeOfCall
  <2>15. CallOK(c)'
    <3>1. InTime(c)' /\ ReclaimsOK(c)'
      BY <1>1, <1>6, <2>4, <2>5 DEF CallOK, InTime, ReclaimsOK, SameTask
    <3>2. PickedOK(c)'
      BY <1>1, <1>6, <2>4, <2>5, <2>14 DEF CallOK, PickedOK, SameTask, HasNode
    <3>3. ~Holds(c)'
      BY <2>5 DEF Holds
    <3>4. OwnerOK(c)'
      BY <1>a, <1>1, <1>6, <2>4, <2>5, <2>10, <2>14, <3>3 DEF CallOK, OwnerOK, SameTask, Holding
    <3> QED
      BY <3>1, <3>2, <3>4 DEF CallOK
  <2>16. ResultOK(a)'
    <3>1. leases[a] # NoLease
      BY <1>7, <2>h DEF NoLease
    <3>2. nodeState[NodeOf[a]] \notin TerminalStates
      BY <1>6, <2>h DEF ResultOK
    <3> QED
      BY <1>1, <1>7, <2>4, <2>8, <2>9, <2>10, <3>1, <3>2 DEF ResultOK
  <2> QED
    BY <1>a, <1>1, <2>h, <2>4, <2>5, <2>9, <2>10, <2>11, <2>12, <2>13, <2>15, <2>16, OwnerStep
<1>s. CASE /\ \/ accepted[heldLease(c).attempt] # NoResult
              \/ nodeVersion[NodeOf[heldLease(c).attempt]] # claimers[c].version
              \/ ~LeaseValid(heldLease(c), now)
           /\ Return(c)
           /\ UNCHANGED storeVars
  <2>h. ~Holds(c) /\ lapses[a] # 0
    BY <1>1, <1>7, <1>s, ReportAccepted
  <2>2. claimers' \in [Claimers -> Call] /\ Only(c) /\ claimers'[c].pc = "idle"
    BY <1>s, ReturnRow
  <2>4. CallOK(c)'
    BY <2>2 DEF CallOK, InTime, ReclaimsOK, PickedOK, OwnerOK, Owning
  <2>5. /\ faults' \in Nat /\ launches' \in [Attempts -> Nat]
        /\ proofResults' \in [Attempts -> Outcomes \cup {"none"}]
    BY <1>1, <1>6 DEF TablesOK
  <2>6. /\ TablesOK' /\ NodesForward
        /\ UNCHANGED <<now, tokens, leases, leaseGeneration, accepted, attemptState, nodeState>>
        /\ \A b : AttemptKept(b)
    BY <1>1, <1>s, <2>2, <2>5, OwnerQuiet
  <2>7. ResultOK(a)'
    BY <1>1, <1>6, <2>6, <2>h DEF ResultOK
  <2> QED
    BY <1>a, <1>1, <1>7, <2>h, <2>2, <2>4, <2>6, <2>7, OwnerStep
<1> QED
  BY <1>r, <1>s DEF ReportResult

LEMMA CompleteTaskStep ==
  ASSUME ServiceInv, NEW c \in Claimers, CompleteTask(c)
  PROVE  ServiceInv'
<1>a. PICK a : a = attemptOf(c)
  OBVIOUS
<1>1. /\ claimers[c].pc = "complete" /\ claimers[c].pc \in Owning /\ Return(c)
      /\ UNCHANGED <<intakeVars, proofResults, historyVars, faults>>
      /\ CompleteAuthorizedResult(a)
  BY <1>a DEF CompleteTask, Owning
<1>2. claimers' \in [Claimers -> Call] /\ Only(c) /\ claimers'[c].pc = "idle"
  BY <1>1, ReturnRow
<1>3. /\ a \in Attempts /\ TablesOK /\ CallOK(c) /\ ResultOK(a)
      /\ NodeOf[a] \in Nodes
  BY <1>a, <1>1, OwnerFacts DEF nodeOfCall
<1>4. PICK n \in Nodes : n = NodeOf[a]
  BY <1>3
<1>5. PICK o : o = accepted[a].outcome
  OBVIOUS
<1>6. /\ accepted[a] # NoResult /\ isValidTransition(nodeState[n], o)
      /\ nodeState' = [nodeState EXCEPT ![n] = o]
      /\ nodeVersion' = [nodeVersion EXCEPT ![n] = nodeVersion[n] + 1]
      /\ attemptState' = [attemptState EXCEPT ![a] = "completed"]
      /\ UNCHANGED <<leaseGeneration, leases, tokens, accepted, now>>
  BY <1>1, <1>4, <1>5 DEF CompleteAuthorizedResult, leaseVars
<1>7. o \in Outcomes \cup {"none"}
  BY <1>3, <1>5 DEF TablesOK, Result
<1>8. nodeState[n] = "in_progress" /\ o \in TerminalStates /\ o \in NodeStates
  BY <1>6, <1>7 DEF isValidTransition, TerminalStates, Outcomes, NodeStates
<1>9. nodeVersion[n] = 3 /\ VersionOf(o) = 4
  BY <1>3, <1>8 DEF TablesOK, VersionOf, TerminalStates
<1>10. /\ nodeState' \in [Nodes -> NodeStates] /\ nodeVersion' \in [Nodes -> Nat]
       /\ \A m \in Nodes : nodeState'[m] # "absent" => nodeVersion'[m] = VersionOf(nodeState'[m])
  <2>1. nodeState'[n] = o /\ nodeVersion'[n] = 4
    BY <1>3, <1>6, <1>9 DEF TablesOK
  <2>2. \A m \in Nodes : m # n => nodeState'[m] = nodeState[m] /\ nodeVersion'[m] = nodeVersion[m]
    BY <1>3, <1>6 DEF TablesOK
  <2>3. nodeState' \in [Nodes -> NodeStates] /\ nodeVersion' \in [Nodes -> Nat]
    BY <1>3, <1>6, <1>8, <1>9 DEF TablesOK
  <2> QED
    BY <1>3, <1>9, <2>1, <2>2, <2>3 DEF TablesOK
<1>11. TablesOK'
  BY <1>1, <1>2, <1>3, <1>6, <1>10 DEF TablesOK, intakeVars, historyVars, HasNode, AttemptStates
<1>12. NodesForward
  BY <1>3, <1>6, <1>8 DEF NodesForward, TablesOK, TerminalStates
<1>13. \A b \in Attempts : b # a =>
         AttemptKept(b) /\ nodeState'[NodeOf[b]] = nodeState[NodeOf[b]]
  <2>1. \A b \in Attempts : b # a => NodeOf[b] # n /\ NodeOf[b] \in Nodes
    BY <1>3, <1>4, NodeOfInjective
  <2> QED
    BY <1>1, <1>3, <1>6, <2>1 DEF AttemptKept, TablesOK, historyVars
<1>14. CallOK(c)'
  BY <1>2 DEF CallOK, InTime, ReclaimsOK, PickedOK, OwnerOK, Owning
<1>15. ResultOK(a)'
  <2>1. nodeState'[NodeOf[a]] = o /\ attemptState'[a] = "completed"
    BY <1>3, <1>4, <1>6 DEF TablesOK
  <2> QED
    BY <1>1, <1>3, <1>5, <1>6, <2>1 DEF ResultOK, historyVars
<1>16. /\ attemptState'[a] # "none" /\ accepted'[a] = accepted[a] /\ accepted[a] # NoResult
       /\ lapses' = lapses /\ unconfirmed' = unconfirmed /\ proofResults' = proofResults
  BY <1>1, <1>3, <1>6 DEF TablesOK, historyVars
<1> QED
  BY <1>a, <1>1, <1>2, <1>6, <1>11, <1>12, <1>13, <1>14, <1>15, <1>16, OwnerStep

-----------------------------------------------------------------------------
(* The environment.                                                        *)

\* A restart loses every call: nobody holds anything any more.
LEMMA RestartStep ==
  ASSUME ServiceInv, Restart
  PROVE  ServiceInv'
<1>1. /\ TablesOK /\ faults' = faults + 1 /\ claimers' = [c \in Claimers |-> Idle]
      /\ UNCHANGED <<storeVars, intakeVars, proofResults, historyVars>>
  BY DEF ServiceInv, Restart, Fault
<1>2. claimers' \in [Claimers -> Call] /\ \A d \in Claimers : claimers'[d].pc = "idle"
  BY <1>1, IdleCall
<1>3. faults \in Nat /\ faults' \in Nat
  BY <1>1 DEF TablesOK
<1>4. TablesOK'
  BY <1>1, <1>2, <1>3 DEF TablesOK, storeVars, intakeVars, historyVars, HasNode
<1>5. \A d \in Claimers : CallOK(d)'
  BY <1>2 DEF CallOK, InTime, ReclaimsOK, PickedOK, OwnerOK, Owning
<1>6. OneHolder'
  BY <1>2 DEF OneHolder, Holds, Holding
<1>7. ASSUME NEW b \in Attempts PROVE ResultOK(b)'
  <2>1. NobodyLate(b)'
    BY <1>2 DEF NobodyLate, Late, Owning
  <2>2. ResultOK(b)
    BY DEF ServiceInv
  <2> QED
    BY <1>1, <2>1, <2>2 DEF ResultOK, storeVars, historyVars
<1>8. ASSUME NEW b \in Attempts PROVE LeasesOK(b)'
  <2>1. /\ leaseGeneration[b] <= 1 + faults + lapses[b] /\ leaseGeneration[b] \in Nat
        /\ lapses[b] \in Nat
    BY <1>1 DEF ServiceInv, LeasesOK, TablesOK
  <2>2. leaseGeneration'[b] = leaseGeneration[b] /\ lapses'[b] = lapses[b]
    BY <1>1 DEF storeVars, leaseVars, historyVars
  <2>3. \A g, f, x \in Nat : g <= 1 + f + x => g <= 1 + (f + 1) + x /\ g # 1 + (f + 1) + x
    OBVIOUS
  <2>4. leaseGeneration'[b] <= 1 + faults' + lapses'[b] /\ leaseGeneration'[b] # 1 + faults' + lapses'[b]
    BY <1>1, <1>3, <2>1, <2>2, <2>3
  <2> QED
    BY <2>4 DEF LeasesOK
<1> QED
  BY <1>4, <1>5, <1>6, <1>7, <1>8 DEF ServiceInv

\* A call whose lease runs out as the clock moves is counted.
LEMMA LapseCounted ==
  ASSUME ServiceInv, TimePasses, NEW a \in Attempts
  PROVE  /\ lapses[a] \in Nat /\ lapses'[a] \in Nat /\ lapses[a] <= lapses'[a]
         /\ \A d \in Claimers : Holds(d) /\ attemptOf(d) = a /\ ~Holds(d)' => lapses'[a] = lapses[a] + 1
<1>1. /\ TablesOK /\ now' = now + 1 /\ claimers' = claimers
      /\ lapses' = [x \in Attempts |-> IF Lapsing(x) THEN lapses[x] + 1 ELSE lapses[x]]
  BY DEF ServiceInv, TimePasses, Tick
<1>2. lapses[a] \in Nat /\ now \in Nat
  BY <1>1 DEF TablesOK
<1>3. lapses'[a] = IF Lapsing(a) THEN lapses[a] + 1 ELSE lapses[a]
  BY <1>1
<1>4. ASSUME NEW d \in Claimers, Holds(d), attemptOf(d) = a, ~Holds(d)'
      PROVE  lapses'[a] = lapses[a] + 1
  <2>1. claimers[d].at \in Nat
    BY <1>1 DEF TablesOK, Call
  <2>2. /\ claimers[d].pc \in Holding /\ now < claimers[d].at + LeaseTTL
        /\ ~(now + 1 < claimers[d].at + LeaseTTL)
    BY <1>1, <1>4 DEF Holds
  <2>3. claimers[d].at + LeaseTTL = now + 1
    BY <1>2, <2>1, <2>2
  <2>4. Lapsing(a)
    BY <1>4, <2>2, <2>3 DEF Lapsing, Holding
  <2> QED
    BY <1>3, <2>4
<1> QED
  BY <1>2, <1>3, <1>4

LEMMA TimePassesStep ==
  ASSUME ServiceInv, TimePasses
  PROVE  ServiceInv'
<1>1. /\ TablesOK /\ now' = now + 1 /\ claimers' = claimers
      /\ UNCHANGED <<nodeState, nodeVersion, attemptState, leaseGeneration, leases, accepted, tokens>>
      /\ UNCHANGED <<intakeVars, proofResults, launches, unconfirmed, faults>>
      /\ lapses' = [x \in Attempts |-> IF Lapsing(x) THEN lapses[x] + 1 ELSE lapses[x]]
  BY DEF ServiceInv, TimePasses, Tick, nodeVars, leaseVars, resultVars
<1>2. now \in Nat /\ now' \in Nat
  BY <1>1 DEF TablesOK
<1>l. lapses' \in [Attempts -> Nat]
  BY <1>1, LapseCounted DEF TablesOK
<1>3. TablesOK'
  BY <1>1, <1>2, <1>l DEF TablesOK, intakeVars, HasNode
<1>h. \A d \in Claimers : attemptOf(d)' = attemptOf(d) /\ (Holds(d)' => Holds(d))
  <2> TAKE d \in Claimers
  <2>1. claimers[d].at \in Nat
    BY <1>1 DEF TablesOK, Call
  <2>2. now + 1 < claimers[d].at + LeaseTTL => now < claimers[d].at + LeaseTTL
    BY <1>2, <2>1
  <2> QED
    BY <1>1, <2>2 DEF Holds, attemptOf
<1>z. \A a \in Attempts : lapses'[a] = 0 => lapses[a] = 0
  <2> TAKE a \in Attempts
  <2>1. lapses[a] \in Nat /\ lapses'[a] \in Nat /\ lapses[a] <= lapses'[a]
    BY LapseCounted
  <2> QED
    BY <2>1
<1>4. ASSUME NEW d \in Claimers PROVE CallOK(d)'
  <2>1. CallOK(d) /\ claimers'[d] = claimers[d] /\ claimers[d] \in Call
    BY <1>1 DEF ServiceInv, TablesOK
  <2>2. InTime(d)'
    <3>1. claimers[d].at \in Nat
      BY <2>1 DEF Call
    <3> QED
      BY <1>1, <1>2, <2>1, <3>1 DEF CallOK, InTime
  <2>3. ReclaimsOK(d)'
    BY <1>1, <2>1 DEF CallOK, ReclaimsOK
  <2>4. attemptOf(d)' = attemptOf(d) /\ nodeOfCall(d)' = nodeOfCall(d)
    BY <2>1 DEF attemptOf, nodeOfCall
  <2>5. PickedOK(d)'
    BY <1>1, <2>1, <2>4 DEF CallOK, PickedOK, HasNode
  <2>6. OwnerOK(d)'
    <3> SUFFICES ASSUME claimers[d].pc \in Owning PROVE OwnerOK(d)'
      BY <2>1 DEF OwnerOK
    <3>1. PICK a : a = attemptOf(d)
      OBVIOUS
    <3>2. a \in Attempts
      BY <3>1, OwnerFacts
    <3>3. lapses'[a] = 0 => lapses[a] = 0 /\ (Holds(d) => Holds(d)')
      <4>1. lapses[a] \in Nat /\ (Holds(d) /\ ~Holds(d)' => lapses'[a] = lapses[a] + 1)
        BY <3>1, <3>2, LapseCounted
      <4> QED
        BY <1>z, <3>2, <4>1
    <3> QED
      BY <1>1, <1>h, <2>1, <2>4, <3>1, <3>2, <3>3 DEF CallOK, OwnerOK
  <2> QED
    BY <2>2, <2>3, <2>5, <2>6 DEF CallOK
<1>5. OneHolder'
  BY <1>h DEF ServiceInv, OneHolder
<1>6. ASSUME NEW b \in Attempts PROVE ResultOK(b)'
  <2>1. (Reporting(b)' <=> Reporting(b)) /\ (NobodyLate(b)' <=> NobodyLate(b))
    BY <1>1 DEF Reporting, NobodyLate, attemptOf
  <2>2. ResultOK(b)
    BY DEF ServiceInv
  <2> QED
    BY <1>1, <1>z, <2>1, <2>2 DEF ResultOK
<1>7. ASSUME NEW b \in Attempts PROVE LeasesOK(b)'
  <2>1. /\ lapses[b] \in Nat /\ lapses'[b] \in Nat /\ lapses[b] <= lapses'[b]
        /\ \A d \in Claimers : Holds(d) /\ attemptOf(d) = b /\ ~Holds(d)' => lapses'[b] = lapses[b] + 1
    BY LapseCounted
  <2>2. LeasesOK(b) /\ leaseGeneration[b] \in Nat /\ faults \in Nat
    BY <1>1 DEF ServiceInv, TablesOK
  <2>3. leaseGeneration[b] <= 1 + faults + lapses[b]
    BY <2>2 DEF LeasesOK
  <2>4. \A g, f, x, y \in Nat : g <= 1 + f + x /\ x <= y =>
          /\ g <= 1 + f + y
          /\ g = 1 + f + y => y = x
    OBVIOUS
  <2>5. /\ leaseGeneration[b] <= 1 + faults + lapses'[b]
        /\ leaseGeneration[b] = 1 + faults + lapses'[b] => lapses'[b] = lapses[b]
    BY <2>1, <2>2, <2>3, <2>4
  <2>6. lapses'[b] = lapses[b] /\ Held(b) => Held(b)'
    <3> SUFFICES ASSUME lapses'[b] = lapses[b], Held(b) PROVE Held(b)'
      OBVIOUS
    <3>1. PICK d \in Claimers : Holds(d) /\ attemptOf(d) = b
      BY DEF Held
    <3>2. lapses'[b] # lapses[b] + 1
      BY <2>1
    <3>3. Holds(d)'
      BY <2>1, <3>1, <3>2
    <3> QED
      BY <1>h, <3>1, <3>3 DEF Held
  <2> QED
    BY <1>1, <2>2, <2>5, <2>6 DEF LeasesOK
<1> QED
  BY <1>3, <1>4, <1>5, <1>6, <1>7 DEF ServiceInv

\* A step that no call takes, and that moves no node but forward from absent.
LEMMA CallsUnmoved ==
  ASSUME ServiceInv, TablesOK', UNCHANGED serviceVars,
         UNCHANGED <<attemptState, leaseGeneration, leases, accepted, now, tokens>>, NodesForward,
         \A n \in Nodes : nodeState'[n] \in TerminalStates => nodeState'[n] = nodeState[n]
  PROVE  ServiceInv'
<1>0. UNCHANGED <<claimers, proofResults, launches, lapses, unconfirmed, faults>>
  BY DEF serviceVars, historyVars
<1>1. \A b : AttemptKept(b)
  BY <1>0 DEF AttemptKept
<1>t. tokens' \in Nat /\ tokens <= tokens'
  BY DEF ServiceInv, TablesOK
<1>2. ASSUME NEW d \in Claimers PROVE CallOK(d)'
  <2>1. claimers'[d] = claimers[d]
    BY <1>0
  <2>2. \A T : T = {} => CallOK(d)'
    <3> SUFFICES ASSUME NEW T, T = {} PROVE CallOK(d)'
      OBVIOUS
    <3>1. ReclaimableOK(d, T)
      BY DEF ReclaimableOK
    <3> QED
      BY <1>t, <1>1, <2>1, <3>1, CallKept
  <2> QED
    BY <2>2
<1>h. \A d \in Claimers : attemptOf(d)' = attemptOf(d) /\ (Holds(d)' <=> Holds(d))
  BY <1>0 DEF attemptOf, Holds
<1>3. OneHolder'
  BY <1>h DEF ServiceInv, OneHolder
<1>4. ASSUME NEW b \in Attempts PROVE ResultOK(b)' /\ LeasesOK(b)'
  <2>1. /\ Reporting(b)' <=> Reporting(b)
        /\ NobodyLate(b)' <=> NobodyLate(b)
        /\ Held(b)' <=> Held(b)
    BY <1>0, <1>h DEF Reporting, NobodyLate, Held
  <2>2. ResultOK(b) /\ LeasesOK(b)
    BY DEF ServiceInv
  <2>3. nodeState'[NodeOf[b]] \in TerminalStates => nodeState'[NodeOf[b]] = nodeState[NodeOf[b]]
    OBVIOUS
  <2>4. ResultOK(b)'
    BY <1>0, <2>1, <2>2, <2>3 DEF ResultOK
  <2>5. LeasesOK(b)'
    BY <1>0, <2>1, <2>2 DEF LeasesOK
  <2> QED
    BY <2>4, <2>5
<1> QED
  BY <1>2, <1>3, <1>4 DEF ServiceInv

LEMMA PostStep ==
  ASSUME ServiceInv, Post
  PROVE  ServiceInv'
<1>1. UNCHANGED serviceVars /\ TablesOK
  BY DEF Post, ServiceInv
<1>2. PICK caller \in Callers, key \in Keys \cup {NoKey}, payload \in Payloads :
        handlePost(caller, key, payload)
  BY DEF Post, IntakeNext
<1>3. CASE replayDirectTask(caller, key, payload)
  <2>1. UNCHANGED <<storeVars, submissions>>
    BY <1>3 DEF replayDirectTask
  <2>2. TablesOK'
    BY <1>1, <2>1 DEF TablesOK, storeVars, serviceVars, historyVars, HasNode
  <2>3. NodesForward /\ UNCHANGED <<attemptState, leaseGeneration, leases, accepted, now, tokens, nodeState>>
    BY <2>1 DEF NodesForward, storeVars, leaseVars, resultVars, nodeVars
  <2> QED
    BY <1>1, <2>2, <2>3, CallsUnmoved
<1>4. ASSUME NEW w \in DirectWorks, importDirectTask(caller, key, payload, w)
      PROVE  ServiceInv'
  <2>1. /\ ValidWork(w, NoDependencies)
        /\ \A n \in Nodes : WorkOf[n] = w => nodeState[n] = "absent"
        /\ nodeState' = [n \in Nodes |-> IF WorkOf[n] = w THEN "pending" ELSE nodeState[n]]
        /\ nodeVersion' = [n \in Nodes |-> IF WorkOf[n] = w THEN 1 ELSE nodeVersion[n]]
        /\ UNCHANGED <<attemptState, leaseGeneration, leases, tokens, accepted, now>>
        /\ submissions' = Append(submissions, [work |-> w, caller |-> caller, payload |-> payload])
    BY <1>4 DEF importDirectTask, ImportApprovedWork, leaseVars, resultVars
  <2> DEFINE s == [work |-> w, caller |-> caller, payload |-> payload]
  <2>2. w \in Works /\ HasNode(w)
    BY <2>1 DEF ValidWork, HasNode, DirectWorks
  <2>3. s \in Submission /\ s.work = w
    BY <2>2 DEF Submission
  <2> HIDE DEF s
  <2>4. submissions' = Append(submissions, s) /\ submissions \in Seq(Submission)
    BY <1>1, <2>1 DEF TablesOK, s
  <2>5. submissions' \in Seq(Submission) /\ \A i \in DOMAIN submissions' : HasNode(submissions'[i].work)
    <3>1. /\ submissions' \in Seq(Submission)
          /\ DOMAIN submissions' = 1 .. (Len(submissions) + 1)
          /\ DOMAIN submissions = 1 .. Len(submissions) /\ Len(submissions) \in Nat
          /\ submissions'[Len(submissions) + 1] = s
          /\ \A i \in 1 .. Len(submissions) : submissions'[i] = submissions[i]
      BY <2>3, <2>4, AppendProperties, LenProperties
    <3>2. \A i \in DOMAIN submissions' : i \in DOMAIN submissions \/ i = Len(submissions) + 1
      BY <3>1
    <3> QED
      BY <1>1, <2>2, <2>3, <3>1, <3>2 DEF TablesOK
  <2>6. /\ nodeState' \in [Nodes -> NodeStates] /\ nodeVersion' \in [Nodes -> Nat]
        /\ \A n \in Nodes : nodeState'[n] # "absent" => nodeVersion'[n] = VersionOf(nodeState'[n])
    BY <1>1, <2>1 DEF TablesOK, NodeStates, VersionOf
  <2>7. TablesOK'
    BY <1>1, <2>1, <2>5, <2>6 DEF TablesOK, serviceVars, historyVars, HasNode
  <2>8. NodesForward
    BY <1>1, <2>1 DEF NodesForward, TablesOK, TerminalStates
  <2>9. \A n \in Nodes : nodeState'[n] \in TerminalStates => nodeState'[n] = nodeState[n]
    BY <2>1 DEF TerminalStates
  <2> QED
    BY <1>1, <2>1, <2>7, <2>8, <2>9, CallsUnmoved
<1> QED
  BY <1>2, <1>3, <1>4 DEF handlePost

-----------------------------------------------------------------------------
(* The invariant holds.                                                    *)

LEMMA ServiceInvInit == Init => ServiceInv
<1> SUFFICES ASSUME Init PROVE ServiceInv
  OBVIOUS
<1>1. TablesOK
  <2>1. NoLease \in Lease /\ NoResult \in Result
    BY DEF NoLease, Lease, NoResult, Result
  <2>2. submissions \in Seq(Submission) /\ DOMAIN submissions = {}
    BY EmptySeq DEF Init, IntakeInit
  <2>3. claimers \in [Claimers -> Call]
    BY IdleCall DEF Init
  <2>4. /\ nodeState \in [Nodes -> NodeStates] /\ nodeVersion \in [Nodes -> Nat]
        /\ \A n \in Nodes : nodeState[n] = "absent"
        /\ attemptState \in [Attempts -> AttemptStates] /\ leaseGeneration \in [Attempts -> Nat]
        /\ leases \in [Attempts -> Lease] /\ accepted \in [Attempts -> Result]
        /\ now \in Nat /\ tokens \in Nat
    BY <2>1 DEF Init, IntakeInit, StoreInit, NodeStates, AttemptStates
  <2>5. /\ proofResults \in [Attempts -> Outcomes \cup {"none"}]
        /\ launches \in [Attempts -> Nat] /\ lapses \in [Attempts -> Nat] /\ faults \in Nat
    BY DEF Init
  <2> QED
    BY <2>2, <2>3, <2>4, <2>5 DEF TablesOK
<1>2. \A c \in Claimers : claimers[c].pc = "idle"
  BY IdleCall DEF Init
<1>3. \A c \in Claimers : CallOK(c)
  BY <1>2 DEF CallOK, InTime, ReclaimsOK, PickedOK, OwnerOK, Owning
<1>4. OneHolder
  BY <1>2 DEF OneHolder, Holds, Holding
<1>5. ASSUME NEW a \in Attempts PROVE ResultOK(a) /\ LeasesOK(a)
  <2>1. /\ accepted[a] = NoResult /\ nodeState[NodeOf[a]] = "absent" /\ proofResults[a] = "none"
        /\ leaseGeneration[a] = 0 /\ lapses[a] = 0 /\ faults = 0
    BY DEF Init, IntakeInit, StoreInit
  <2> QED
    BY <2>1 DEF ResultOK, LeasesOK, TerminalStates
<1> QED
  BY <1>1, <1>3, <1>4, <1>5 DEF ServiceInv

LEMMA ServiceInvStep ==
  ASSUME ServiceInv, [Next]_vars
  PROVE  ServiceInv'
<1>1. CASE Post
  BY <1>1, PostStep
<1>2. ASSUME NEW c \in Claimers, claimOnce(c) PROVE ServiceInv'
  BY <1>2, StartClaimStep, ReclaimExpiredStep, PickTaskStep, CheckProofStep, AdvanceNodeStep,
     EnsureAttemptStep, ClaimTaskStep, AllocationFailsStep, LaunchWorkerStep, RecordProofStep,
     ReportResultStep, CompleteTaskStep DEF claimOnce
<1>3. ASSUME NEW c \in Claimers, RunThrows(c) \/ RecordFails(c) PROVE ServiceInv'
  BY <1>3, RunThrowsStep, RecordFailsStep
<1>4. CASE Restart
  BY <1>4, RestartStep
<1>5. CASE TimePasses
  BY <1>5, TimePassesStep
<1>6. CASE UNCHANGED vars
  <2>1. UNCHANGED <<storeVars, intakeVars, serviceVars>> /\ TablesOK
    BY <1>6 DEF vars, ServiceInv
  <2>2. TablesOK'
    BY <2>1 DEF TablesOK, storeVars, intakeVars, serviceVars, historyVars, HasNode
  <2>3. NodesForward /\ UNCHANGED <<attemptState, leaseGeneration, leases, accepted, now, tokens, nodeState>>
    BY <2>1 DEF NodesForward, storeVars, leaseVars, resultVars, nodeVars
  <2> QED
    BY <2>1, <2>2, <2>3, CallsUnmoved
<1> QED
  BY <1>1, <1>2, <1>3, <1>4, <1>5, <1>6 DEF Next

LEMMA ServiceInvariant == Spec => []ServiceInv
<1>1. Init => ServiceInv
  BY ServiceInvInit
<1>2. ServiceInv /\ [Next]_vars => ServiceInv'
  BY ServiceInvStep
<1> QED
  BY <1>1, <1>2, PTL DEF Spec

-----------------------------------------------------------------------------
(* Launches.                                                               *)

\* How a call comes to where it may still launch a worker: it was there before,
\* or its attempt has no proof result; and to where it launches one: by claiming.
Launching == Late \cup {"run"}
Enters(c) ==
  /\ Only(c)
  /\ claimers'[c].pc \in Launching =>
       \/ claimers[c].pc \in Launching /\ claimers'[c].work = claimers[c].work
       \/ proofResults[attemptOf(c)'] = "none"
  /\ claimers'[c].pc # "run" \/ ClaimTask(c)

LEMMA ReturnEnters ==
  ASSUME ServiceInv, NEW c \in Claimers, Return(c)
  PROVE  Enters(c)
BY ReturnRow DEF Enters, Launching, Late

LEMMA QuietEnters ==
  ASSUME ServiceInv, NEW c \in Claimers, StartClaim(c) \/ ReclaimExpired(c)
  PROVE  Enters(c)
<1>0. claimers \in [Claimers -> Call]
  BY DEF ServiceInv, TablesOK
<1>1. CASE StartClaim(c)
  <2>1. claimers' = [claimers EXCEPT ![c] =
          [Idle EXCEPT !.pc = "reclaim", !.at = now, !.todo = listAttemptsNeedingReconciliation(now)]]
    BY <1>1 DEF StartClaim
  <2>2. claimers'[c].pc = "reclaim" /\ Only(c)
    BY <1>0, <2>1 DEF Only, Idle
  <2> QED
    BY <2>2 DEF Enters, Launching, Late
<1>2. CASE ReclaimExpired(c)
  <2>1. PICK a \in claimers[c].todo : claimers' = [claimers EXCEPT ![c].todo = @ \ {a}]
    BY <1>2 DEF ReclaimExpired
  <2> DEFINE r == [claimers[c] EXCEPT !.todo = claimers[c].todo \ {a}]
  <2>2. claimers' = [claimers EXCEPT ![c] = r] /\ claimers[c].pc = "reclaim" /\ claimers[c] \in Call
    BY <1>0, <1>2, <2>1 DEF ReclaimExpired
  <2>3. r.pc = "reclaim"
    BY <2>2 DEF Call
  <2> HIDE DEF r
  <2>4. claimers'[c].pc = "reclaim" /\ Only(c)
    BY <1>0, <2>2, <2>3 DEF Only
  <2> QED
    BY <2>4 DEF Enters, Launching, Late
<1> QED
  BY <1>1, <1>2

\* A task whose attempt exists is looked up, and one without an attempt has no
\* proof result.
LEMMA PickTaskEnters ==
  ASSUME ServiceInv, NEW c \in Claimers, PickTask(c)
  PROVE  Enters(c)
<1>0. TablesOK /\ claimers \in [Claimers -> Call] /\ claimers[c] \in Call
  BY DEF ServiceInv, TablesOK
<1>1. CASE Return(c)
  BY <1>1, ReturnEnters
<1>2. ASSUME NEW i \in listDirectTaskClaimables,
             LET w == submissions[i].work
                 n == nodeOfWork(w)
                 has == attemptState[deriveAttemptId(w)] # "none" IN
             claimers' = [claimers EXCEPT ![c] =
               [@ EXCEPT !.work = w, !.state = nodeState[n], !.version = nodeVersion[n],
                         !.hasAttempt = has,
                         !.pc = IF has THEN "proof" ELSE NextStep(nodeState[n], FALSE)]]
      PROVE  Enters(c)
  <2> DEFINE w == submissions[i].work
             n == nodeOfWork(w)
             a == deriveAttemptId(w)
             p == IF attemptState[a] # "none" THEN "proof" ELSE NextStep(nodeState[n], FALSE)
             r == [claimers[c] EXCEPT
                     !.work = w, !.state = nodeState[n], !.version = nodeVersion[n],
                     !.hasAttempt = (attemptState[a] # "none"), !.pc = p]
  <2>1. claimers' = [claimers EXCEPT ![c] = r] /\ i \in DOMAIN submissions
    BY <1>2 DEF listDirectTaskClaimables
  <2>2. a \in Attempts
    <3>1. HasNode(w)
      BY <1>0, <2>1 DEF TablesOK
    <3> QED
      BY <3>1, WorkAttempt
  <2>3. p \in Late => attemptState[a] = "none"
    BY DEF Late
  <2>4. p \in Late \cup {"proof"}
    BY NextStepRange
  <2>5. attemptState[a] = "none" => proofResults[a] = "none"
    BY <2>2 DEF ServiceInv, ResultOK
  <2>6. r.pc = p /\ r.work = w
    BY <1>0 DEF Call
  <2>a. a = deriveAttemptId(w)
    OBVIOUS
  <2> HIDE DEF r, p, a, n, w
  <2>7. claimers'[c] = r /\ Only(c)
    BY <1>0, <2>1 DEF Only
  <2>8. attemptOf(c)' = a
    BY <2>a, <2>6, <2>7 DEF attemptOf
  <2> QED
    BY <2>3, <2>4, <2>5, <2>6, <2>7, <2>8 DEF Enters, Launching, Late
<1> QED
  BY <1>1, <1>2 DEF PickTask

LEMMA CheckProofEnters ==
  ASSUME ServiceInv, NEW c \in Claimers, CheckProof(c)
  PROVE  Enters(c)
<1>1. CASE Return(c)
  BY <1>1, ReturnEnters
<1>2. CASE proofResults[attemptOf(c)] = "none" /\ Goto(c, NextStep(claimers[c].state, TRUE))
  <2>1. NextStep(claimers[c].state, TRUE) \in Late /\ NextStep(claimers[c].state, TRUE) \in Pcs
    BY NextStepRange DEF Pcs
  <2>2. /\ Only(c) /\ claimers'[c].work = claimers[c].work
        /\ claimers'[c].pc = NextStep(claimers[c].state, TRUE)
    BY <1>2, <2>1, GotoRow DEF SameTask
  <2>3. attemptOf(c)' = attemptOf(c)
    BY <2>2 DEF attemptOf
  <2> QED
    BY <1>2, <2>1, <2>2, <2>3 DEF Enters, Late
<1> QED
  BY <1>1, <1>2 DEF CheckProof

LEMMA AdvanceEnters ==
  ASSUME ServiceInv, NEW c \in Claimers, AdvanceNode(c) \/ EnsureAttempt(c)
  PROVE  Enters(c)
<1>0. claimers \in [Claimers -> Call] /\ claimers[c] \in Call /\ claimers[c].pc \in Launching
  BY DEF ServiceInv, TablesOK, AdvanceNode, EnsureAttempt, Launching, Late
<1>1. CASE Return(c)
  BY <1>1, ReturnEnters
<1>2. ASSUME NEW to, claimers' = [claimers EXCEPT ![c] =
               [@ EXCEPT !.state = to, !.version = claimers[c].version + 1,
                         !.pc = NextStep(to, claimers[c].hasAttempt)]]
      PROVE  Enters(c)
  <2> DEFINE p == NextStep(to, claimers[c].hasAttempt)
             r == [claimers[c] EXCEPT !.state = to, !.version = claimers[c].version + 1, !.pc = p]
  <2>1. claimers' = [claimers EXCEPT ![c] = r]
    BY <1>2
  <2>2. p \in Late
    BY NextStepRange
  <2> HIDE DEF p
  <2>3. r.pc = p /\ r.work = claimers[c].work
    BY <1>0 DEF Call
  <2> HIDE DEF r
  <2>4. claimers'[c] = r /\ Only(c)
    BY <1>0, <2>1 DEF Only
  <2> QED
    BY <1>0, <2>2, <2>3, <2>4 DEF Enters, Late
<1>3. CASE claimers' = [claimers EXCEPT ![c] = [@ EXCEPT !.hasAttempt = TRUE,
                                                  !.pc = NextStep(claimers[c].state, TRUE)]]
  <2> DEFINE p == NextStep(claimers[c].state, TRUE)
             r == [claimers[c] EXCEPT !.hasAttempt = TRUE, !.pc = p]
  <2>1. claimers' = [claimers EXCEPT ![c] = r]
    BY <1>3
  <2>2. p \in Late
    BY NextStepRange
  <2> HIDE DEF p
  <2>3. r.pc = p /\ r.work = claimers[c].work
    BY <1>0 DEF Call
  <2> HIDE DEF r
  <2>4. claimers'[c] = r /\ Only(c)
    BY <1>0, <2>1 DEF Only
  <2> QED
    BY <1>0, <2>2, <2>3, <2>4 DEF Enters, Late
<1>4. CASE AdvanceNode(c)
  BY <1>1, <1>2, <1>4 DEF AdvanceNode
<1>5. CASE EnsureAttempt(c)
  BY <1>1, <1>3, <1>5 DEF EnsureAttempt
<1> QED
  BY <1>4, <1>5

LEMMA ClaimTaskEnters ==
  ASSUME ServiceInv, NEW c \in Claimers, ClaimTask(c)
  PROVE  Enters(c)
<1>0. claimers \in [Claimers -> Call] /\ claimers[c] \in Call /\ claimers[c].pc \in Launching
  BY DEF ServiceInv, TablesOK, ClaimTask, Launching, Late
<1>1. CASE Return(c)
  BY <1>1, ReturnEnters
<1>2. ASSUME NEW l, claimers' = [claimers EXCEPT ![c] = [claimers[c] EXCEPT !.pc = "run", !.lease = l]]
      PROVE  Enters(c)
  <2> DEFINE r == [claimers[c] EXCEPT !.pc = "run", !.lease = l]
  <2>1. claimers' = [claimers EXCEPT ![c] = r]
    BY <1>2
  <2>2. r.work = claimers[c].work
    BY <1>0 DEF Call
  <2> HIDE DEF r
  <2>3. claimers'[c] = r /\ Only(c)
    BY <1>0, <2>1 DEF Only
  <2> QED
    BY <1>0, <2>2, <2>3 DEF Enters
<1> QED
  BY <1>1, <1>2 DEF ClaimTask

LEMMA OwnerEnters ==
  ASSUME ServiceInv, NEW c \in Claimers,
         \/ AllocationFails(c) \/ LaunchWorker(c) \/ RecordProof(c) \/ ReportResult(c)
         \/ CompleteTask(c) \/ RunThrows(c) \/ RecordFails(c)
  PROVE  Enters(c)
<1>1. CASE Return(c)
  BY <1>1, ReturnEnters
<1>2. ASSUME NEW p \in {"verify", "complete"}, Goto(c, p) PROVE Enters(c)
  <2>1. p \in Pcs
    BY DEF Pcs, Owning
  <2>2. Only(c) /\ claimers'[c].pc = p
    BY <1>2, <2>1, GotoRow
  <2> QED
    BY <2>2 DEF Enters, Launching, Late
<1>3. ASSUME NEW o \in Outcomes, claimers' = [claimers EXCEPT ![c].pc = "accept", ![c].outcome = o]
      PROVE  Enters(c)
  <2>1. Only(c) /\ claimers'[c].pc = "accept"
    BY <1>3, OutcomeRow
  <2> QED
    BY <2>1 DEF Enters, Launching, Late
<1>4. "failed" \in Outcomes
  BY DEF Outcomes
<1>5. CASE AllocationFails(c) \/ RecordProof(c) \/ RecordFails(c)
  BY <1>3, <1>4, <1>5 DEF AllocationFails, RecordProof, RecordFails
<1>6. CASE LaunchWorker(c) \/ ReportResult(c)
  BY <1>1, <1>2, <1>6 DEF LaunchWorker, ReportResult
<1>7. CASE CompleteTask(c) \/ RunThrows(c)
  BY <1>1, <1>7 DEF CompleteTask, RunThrows
<1> QED
  BY <1>5, <1>6, <1>7

\* Every step is one call's, or moves no call forward.
LEMMA EveryStepEnters ==
  ASSUME ServiceInv, [Next]_vars
  PROVE  \/ \E c \in Claimers : Enters(c)
         \/ claimers' = claimers
         \/ \A c \in Claimers : claimers'[c].pc = "idle"
<1>1. ASSUME NEW c \in Claimers, claimOnce(c) \/ RunThrows(c) \/ RecordFails(c) PROVE Enters(c)
  BY <1>1, QuietEnters, PickTaskEnters, CheckProofEnters, AdvanceEnters, ClaimTaskEnters, OwnerEnters
     DEF claimOnce
<1>2. CASE Post \/ TimePasses \/ UNCHANGED vars
  BY <1>2 DEF Post, TimePasses, vars, serviceVars
<1>3. CASE Restart
  BY <1>3, IdleCall DEF Restart
<1> QED
  BY <1>1, <1>2, <1>3 DEF Next

\* Who writes the counts.
LEMMA LaunchesMoved ==
  ASSUME [Next]_vars
  PROVE  UNCHANGED launches \/ \E c \in Claimers : LaunchWorker(c)
<1>1. CASE Post \/ Restart \/ TimePasses \/ UNCHANGED vars
  BY <1>1 DEF Post, Restart, TimePasses, vars, serviceVars, historyVars
<1>2. ASSUME NEW c \in Claimers, claimOnce(c) \/ RunThrows(c) \/ RecordFails(c)
      PROVE  UNCHANGED launches \/ LaunchWorker(c)
  BY <1>2 DEF claimOnce, RunThrows, RecordFails, StartClaim, ReclaimExpired, PickTask, CheckProof,
              AdvanceNode, EnsureAttempt, ClaimTask, AllocationFails, RecordProof, ReportResult,
              CompleteTask, historyVars
<1> QED
  BY <1>1, <1>2 DEF Next

LEMMA LeasesMoved ==
  ASSUME ServiceInv, [Next]_vars, NEW a \in Attempts
  PROVE  \/ leaseGeneration'[a] = leaseGeneration[a]
         \/ \E c \in Claimers : ClaimTask(c) /\ attemptOf(c) = a
<1>0. leaseGeneration \in [Attempts -> Nat]
  BY DEF ServiceInv, TablesOK
<1>1. CASE Post
  <2>1. UNCHANGED leaseGeneration
    <3>1. PICK caller \in Callers, key \in Keys \cup {NoKey}, payload \in Payloads :
            handlePost(caller, key, payload)
      BY <1>1 DEF Post, IntakeNext
    <3>2. CASE replayDirectTask(caller, key, payload)
      BY <3>2 DEF replayDirectTask, storeVars
    <3>3. ASSUME NEW w \in DirectWorks, importDirectTask(caller, key, payload, w)
          PROVE  UNCHANGED leaseGeneration
      BY <3>3 DEF importDirectTask, ImportApprovedWork, leaseVars
    <3> QED
      BY <3>1, <3>2, <3>3 DEF handlePost
  <2> QED
    BY <2>1
<1>2. CASE Restart \/ TimePasses \/ UNCHANGED vars
  BY <1>2 DEF Restart, TimePasses, Tick, vars, storeVars, leaseVars
<1>3. ASSUME NEW c \in Claimers, ClaimTask(c), attemptOf(c) # a
      PROVE  leaseGeneration'[a] = leaseGeneration[a]
  <2>1. CASE UNCHANGED storeVars
    BY <2>1 DEF storeVars, leaseVars
  <2>2. CASE ClaimLease(attemptOf(c), "direct-task-service", claimers[c].at)
    BY <1>0, <1>3, <2>2 DEF ClaimLease
  <2> QED
    BY <1>3, <2>1, <2>2 DEF ClaimTask
<1>4. ASSUME NEW c \in Claimers, claimOnce(c) \/ RunThrows(c) \/ RecordFails(c), ~ClaimTask(c)
      PROVE  UNCHANGED leaseGeneration
  <2>1. CASE StartClaim(c) \/ PickTask(c) \/ CheckProof(c) \/ AllocationFails(c) \/ LaunchWorker(c)
             \/ RecordProof(c) \/ RunThrows(c) \/ RecordFails(c)
    BY <2>1 DEF StartClaim, PickTask, CheckProof, AllocationFails, LaunchWorker, RecordProof,
                RunThrows, RecordFails, storeVars, leaseVars
  <2>2. CASE ReclaimExpired(c)
    BY <2>2 DEF ReclaimExpired, ReclaimLease, DropLease, storeVars, leaseVars
  <2>3. CASE AdvanceNode(c)
    BY <2>3 DEF AdvanceNode, TransitionNode, storeVars, leaseVars
  <2>4. CASE EnsureAttempt(c)
    BY <2>4 DEF EnsureAttempt, CreateAttempt, storeVars, leaseVars
  <2>5. CASE ReportResult(c)
    BY <2>5 DEF ReportResult, AcceptResult, storeVars, leaseVars
  <2>6. CASE CompleteTask(c)
    BY <2>6 DEF CompleteTask, CompleteAuthorizedResult, leaseVars
  <2> QED
    BY <1>4, <2>1, <2>2, <2>3, <2>4, <2>5, <2>6 DEF claimOnce
<1> QED
  BY <1>1, <1>2, <1>3, <1>4 DEF Next

LEMMA RunningFinite ==
  ASSUME NEW a
  PROVE  IsFiniteSet(Running(a)) /\ Cardinality(Running(a)) \in Nat
<1>1. Running(a) \subseteq Claimers
  BY DEF Running
<1> QED
  BY <1>1, ServiceAssumption, FS_Subset, FS_CardinalityType

\* A step that launches nothing for the attempt, and brings nobody to launch.
LEMMA LaunchesKept ==
  ASSUME NEW a, LaunchesOK(a), launches[a] \in Nat, leaseGeneration[a] \in Nat,
         launches'[a] = launches[a], leaseGeneration'[a] = leaseGeneration[a],
         Running(a)' \subseteq Running(a)
  PROVE  LaunchesOK(a)'
<1>1. IsFiniteSet(Running(a)) /\ Cardinality(Running(a)) \in Nat
  BY RunningFinite
<1>2. \A S, T : IsFiniteSet(T) /\ S \subseteq T =>
        Cardinality(S) <= Cardinality(T) /\ Cardinality(S) \in Nat
  BY FS_Subset, FS_CardinalityType
<1>3. Cardinality(Running(a)') <= Cardinality(Running(a)) /\ Cardinality(Running(a)') \in Nat
  BY <1>1, <1>2
<1>4. launches[a] + Cardinality(Running(a)') <= leaseGeneration[a]
  BY <1>1, <1>3 DEF LaunchesOK
<1> QED
  BY <1>4 DEF LaunchesOK

\* Who is there, claims, launches: a launch spends the lease it was claimed with.
LEMMA LaunchesStep ==
  ASSUME ServiceInv, [Next]_vars, NEW a \in Attempts, LaunchesOK(a)
  PROVE  LaunchesOK(a)'
<1>1. /\ TablesOK /\ launches[a] \in Nat /\ leaseGeneration[a] \in Nat
      /\ IsFiniteSet(Running(a)) /\ Cardinality(Running(a)) \in Nat
  BY RunningFinite DEF ServiceInv, TablesOK
<1>2. ASSUME NEW c \in Claimers, LaunchWorker(c), attemptOf(c) = a
      PROVE  LaunchesOK(a)'
  <2>1. /\ claimers[c].pc = "run" /\ launches' = [launches EXCEPT ![a] = launches[a] + 1]
        /\ Goto(c, "verify") /\ UNCHANGED storeVars
    BY <1>2 DEF LaunchWorker
  <2>2. launches'[a] = launches[a] + 1 /\ leaseGeneration' = leaseGeneration
    BY <1>1, <2>1 DEF TablesOK, storeVars, leaseVars
  <2>3. "verify" \in Pcs
    BY DEF Pcs, Owning
  <2>4. Only(c) /\ claimers'[c].pc = "verify"
    BY <2>1, <2>3, GotoRow
  <2>5. Running(a)' = Running(a) \ {c} /\ c \in Running(a)
    BY <1>2, <2>1, <2>4 DEF Running, Only, attemptOf
  <2>6. Cardinality(Running(a)') = Cardinality(Running(a)) - 1
    BY <1>1, <2>5, FS_RemoveElement
  <2>7. launches'[a] + Cardinality(Running(a)') <= leaseGeneration'[a]
    BY <1>1, <2>2, <2>6 DEF LaunchesOK
  <2> QED
    BY <2>7 DEF LaunchesOK
<1>3. ASSUME NEW c \in Claimers, ClaimTask(c), leaseGeneration' # leaseGeneration, attemptOf(c) = a
      PROVE  LaunchesOK(a)'
  <2>1. /\ leaseGeneration' = [leaseGeneration EXCEPT ![a] = leaseGeneration[a] + 1]
        /\ launches' = launches
    BY <1>3 DEF ClaimTask, ClaimLease, storeVars, leaseVars
  <2>2. leaseGeneration'[a] = leaseGeneration[a] + 1
    BY <1>1, <2>1 DEF TablesOK
  <2>3. Only(c)
    BY <1>3, ClaimTaskEnters DEF Enters
  <2>4. Running(a)' \subseteq Running(a) \cup {c}
    BY <2>3 DEF Running, Only, attemptOf
  <2>5. /\ IsFiniteSet(Running(a) \cup {c}) /\ Cardinality(Running(a) \cup {c}) \in Nat
        /\ Cardinality(Running(a) \cup {c}) <= Cardinality(Running(a)) + 1
    <3>1. \A S, x : IsFiniteSet(S) => IsFiniteSet(S \cup {x})
            /\ Cardinality(S \cup {x}) = IF x \in S THEN Cardinality(S) ELSE Cardinality(S) + 1
      BY FS_AddElement
    <3>2. /\ IsFiniteSet(Running(a) \cup {c})
          /\ \/ Cardinality(Running(a) \cup {c}) = Cardinality(Running(a))
             \/ Cardinality(Running(a) \cup {c}) = Cardinality(Running(a)) + 1
      BY <1>1, <3>1
    <3> QED
      BY <1>1, <3>2
  <2>6. \A S, T : IsFiniteSet(T) /\ S \subseteq T =>
          Cardinality(S) <= Cardinality(T) /\ Cardinality(S) \in Nat
    BY FS_Subset, FS_CardinalityType
  <2>7. Cardinality(Running(a)') <= Cardinality(Running(a) \cup {c}) /\ Cardinality(Running(a)') \in Nat
    BY <2>4, <2>5, <2>6
  <2>8. launches[a] + Cardinality(Running(a)') <= leaseGeneration'[a]
    BY <1>1, <2>2, <2>5, <2>7 DEF LaunchesOK
  <2> QED
    BY <2>1, <2>8 DEF LaunchesOK
<1>4. ASSUME launches'[a] = launches[a], leaseGeneration'[a] = leaseGeneration[a],
             \A c \in Claimers : ClaimTask(c) => leaseGeneration' = leaseGeneration \/ attemptOf(c) # a
      PROVE  LaunchesOK(a)'
  <2>1. Running(a)' \subseteq Running(a)
    <3>1. CASE claimers' = claimers
      BY <3>1 DEF Running, attemptOf
    <3>2. CASE \A c \in Claimers : claimers'[c].pc = "idle"
      BY <3>2 DEF Running
    <3>3. ASSUME NEW c \in Claimers, Enters(c) PROVE Running(a)' \subseteq Running(a)
      <4>1. claimers'[c].pc # "run" \/ attemptOf(c)' # a
        <5>1. CASE claimers'[c].pc # "run"
          BY <5>1
        <5>2. CASE ClaimTask(c) /\ leaseGeneration' = leaseGeneration
          <6>1. Return(c)
            <7>1. leaseGeneration'[attemptOf(c)] = leaseGeneration[attemptOf(c)]
              BY <5>2
            <7>2. attemptOf(c) \in Attempts
              BY <5>2, CallAttempt DEF ClaimTask
            <7>3. ~ClaimLease(attemptOf(c), "direct-task-service", claimers[c].at)
              BY <1>1, <7>1, <7>2 DEF ClaimLease, TablesOK
            <7> QED
              BY <5>2, <7>3 DEF ClaimTask
          <6> QED
            BY <6>1, ReturnRow
        <5>3. CASE ClaimTask(c) /\ attemptOf(c) # a
          <6>1. CASE Return(c)
            BY <6>1, ReturnRow
          <6>2. CASE claimers'[c].work = claimers[c].work
            BY <5>3, <6>2 DEF attemptOf
          <6>3. claimers'[c].work = claimers[c].work \/ Return(c)
            <7>1. claimers \in [Claimers -> Call] /\ claimers[c] \in Call
              BY <1>1 DEF TablesOK
            <7>2. ASSUME NEW l, claimers' = [claimers EXCEPT ![c] = [claimers[c] EXCEPT !.pc = "run", !.lease = l]]
                  PROVE  claimers'[c].work = claimers[c].work
              BY <7>1, <7>2 DEF Call
            <7> QED
              BY <5>3, <7>2 DEF ClaimTask
          <6> QED
            BY <6>1, <6>2, <6>3
        <5> QED
          BY <1>4, <3>3, <5>1, <5>2, <5>3 DEF Enters
      <4> QED
        BY <3>3, <4>1 DEF Enters, Only, Running, attemptOf
    <3> QED
      BY <3>1, <3>2, <3>3, EveryStepEnters
  <2> QED
    BY <1>1, <1>4, <2>1, LaunchesKept
<1>5. launches'[a] = launches[a] \/ \E c \in Claimers : LaunchWorker(c) /\ attemptOf(c) = a
  <2>1. ASSUME NEW c \in Claimers, LaunchWorker(c), attemptOf(c) # a PROVE launches'[a] = launches[a]
    <3>1. launches' = [launches EXCEPT ![attemptOf(c)] = launches[attemptOf(c)] + 1]
      BY <2>1 DEF LaunchWorker
    <3> QED
      BY <1>1, <2>1, <3>1 DEF TablesOK
  <2>2. UNCHANGED launches \/ \E c \in Claimers : LaunchWorker(c)
    BY LaunchesMoved
  <2> QED
    BY <2>1, <2>2
<1>6. leaseGeneration'[a] = leaseGeneration[a]
      \/ \E c \in Claimers : ClaimTask(c) /\ attemptOf(c) = a
  BY <1>1, LeasesMoved
<1>7. ASSUME NEW c \in Claimers, LaunchWorker(c) PROVE leaseGeneration' = leaseGeneration
  BY <1>7 DEF LaunchWorker, storeVars, leaseVars
<1>8. ASSUME NEW c \in Claimers, ClaimTask(c) PROVE launches' = launches
  BY <1>8 DEF ClaimTask
<1> QED
  BY <1>2, <1>3, <1>4, <1>5, <1>6, <1>7, <1>8

LEMMA LaunchesInvariant == Spec => [](ServiceInv /\ \A a \in Attempts : LaunchesOK(a))
<1>1. Init => \A a \in Attempts : LaunchesOK(a)
  <2> SUFFICES ASSUME Init, NEW a \in Attempts PROVE LaunchesOK(a)
    OBVIOUS
  <2>1. launches[a] = 0 /\ leaseGeneration[a] = 0 /\ \A c \in Claimers : claimers[c].pc = "idle"
    BY IdleCall DEF Init, IntakeInit, StoreInit
  <2>2. Running(a) = {}
    BY <2>1 DEF Running
  <2> QED
    BY <2>1, <2>2, FS_EmptySet DEF LaunchesOK
<1>2. ServiceInv /\ (\A a \in Attempts : LaunchesOK(a)) /\ [Next]_vars => (\A a \in Attempts : LaunchesOK(a))'
  BY LaunchesStep
<1>3. Spec => []ServiceInv
  BY ServiceInvariant
<1> QED
  BY <1>1, <1>2, <1>3, PTL DEF Spec

-----------------------------------------------------------------------------
(* The theorems.                                                           *)

\* A node that passed has a proof result that passed, however many calls of
\* claimOnce overlap, however long they take, and whichever run throws, loses its
\* result or is cut off by a restart.  The two answers GET /tasks/{id} can give
\* contradict each other only where the result was stored by a call that threw
\* afterwards, or a lease of the task ran out under its call.
THEOREM VerdictsMatchProofs == Spec => []VerdictMatchesProof
<1>1. ServiceInv => VerdictMatchesProof
  <2> SUFFICES ASSUME ServiceInv, NEW a \in Attempts
               PROVE  /\ nodeState[NodeOf[a]] = "passed" => proofResults[a] = "passed"
                      /\ /\ nodeState[NodeOf[a]] \in TerminalStates /\ proofResults[a] # "none"
                         /\ a \notin unconfirmed /\ lapses[a] = 0
                         => nodeState[NodeOf[a]] = proofResults[a]
    BY DEF VerdictMatchesProof
  <2>1. ResultOK(a)
    BY DEF ServiceInv
  <2>2. "passed" \in TerminalStates
    BY DEF TerminalStates
  <2> QED
    BY <2>1, <2>2 DEF ResultOK
<1> QED
  BY <1>1, ServiceInvariant, PTL

\* However many calls overlap and however long they take, a worker is launched
\* once for a task, and once more at most for every fault and for every lease
\* that ran out under the call that held it.
THEOREM LaunchesArePaidFor == Spec => []OneLaunchPerFault
<1>1. ServiceInv /\ (\A a \in Attempts : LaunchesOK(a)) => OneLaunchPerFault
  <2> SUFFICES ASSUME ServiceInv, NEW a \in Attempts, LaunchesOK(a)
               PROVE  launches[a] <= 1 + faults + lapses[a]
    BY DEF OneLaunchPerFault
  <2>1. /\ launches[a] \in Nat /\ leaseGeneration[a] \in Nat /\ faults \in Nat /\ lapses[a] \in Nat
        /\ Cardinality(Running(a)) \in Nat
    BY RunningFinite DEF ServiceInv, TablesOK
  <2>2. leaseGeneration[a] <= 1 + faults + lapses[a]
    BY DEF ServiceInv, LeasesOK
  <2>3. launches[a] + Cardinality(Running(a)) <= leaseGeneration[a]
    BY DEF LaunchesOK
  <2>4. \A n, k, g, m \in Nat : n + k <= g /\ g <= m => n <= m
    OBVIOUS
  <2>5. 1 + faults + lapses[a] \in Nat
    BY <2>1
  <2> QED
    BY <2>1, <2>2, <2>3, <2>4, <2>5
<1> QED
  BY <1>1, LaunchesInvariant, PTL

\* Once a task has a proof result no step takes a call past the lookup of it, and
\* as long as no lease of the task ran out under its call no step launches a
\* worker for it, although the lookup is many awaits away from the launch.
THEOREM ProvenTasksNotRelaunched == Spec => NoRelaunchAfterProof
<1> DEFINE Kept == \A a \in Attempts : proofResults[a] # "none" =>
                     /\ Launchers(a)' \subseteq Launchers(a)
                     /\ lapses[a] = 0 => launches'[a] = launches[a]
<1>1. ServiceInv /\ [Next]_vars => [Kept]_vars
  <2> SUFFICES ASSUME ServiceInv, [Next]_vars, NEW a \in Attempts, proofResults[a] # "none"
               PROVE  /\ Launchers(a)' \subseteq Launchers(a)
                      /\ lapses[a] = 0 => launches'[a] = launches[a]
    OBVIOUS
  <2>0. Launching = {"ready", "create", "start", "claim", "run"}
    BY DEF Launching, Late
  <2>1. Launchers(a)' \subseteq Launchers(a)
    <3>1. CASE claimers' = claimers
      BY <3>1 DEF Launchers, attemptOf
    <3>2. CASE \A c \in Claimers : claimers'[c].pc = "idle"
      BY <3>2 DEF Launchers
    <3>3. ASSUME NEW c \in Claimers, Enters(c) PROVE Launchers(a)' \subseteq Launchers(a)
      <4>1. claimers'[c].pc \in Launching /\ attemptOf(c)' = a =>
              claimers[c].pc \in Launching /\ attemptOf(c) = a
        BY <3>3 DEF Enters, attemptOf
      <4> QED
        BY <2>0, <3>3, <4>1 DEF Enters, Only, Launchers, attemptOf
    <3> QED
      BY <3>1, <3>2, <3>3, EveryStepEnters
  <2>2. ASSUME NEW c \in Claimers, LaunchWorker(c), lapses[a] = 0 PROVE launches'[a] = launches[a]
    <3>1. claimers[c].pc = "run" /\ launches' = [launches EXCEPT ![attemptOf(c)] = launches[attemptOf(c)] + 1]
      BY <2>2 DEF LaunchWorker
    <3>2. attemptOf(c) # a /\ launches \in [Attempts -> Nat]
      BY <2>2, <3>1 DEF ServiceInv, TablesOK, CallOK, OwnerOK, Owning
    <3> QED
      BY <3>1, <3>2
  <2> QED
    BY <2>1, <2>2, LaunchesMoved
<1>2. Spec => []ServiceInv
  BY ServiceInvariant
<1> QED
  BY <1>1, <1>2, PTL DEF Spec, NoRelaunchAfterProof
=============================================================================
