------------------------- MODULE DirectTaskService --------------------------
(***************************************************************************)
(* The claim loop of the composed service: claimOnce reclaims expired      *)
(* leases, picks the oldest unfinished direct task, drives its node and    *)
(* attempt forward, claims a lease, runs the task (runClaimedTask) and     *)
(* reports the result.  Every store call is awaited, so concurrent calls   *)
(* of claimOnce interleave between any two of them, and a process restart  *)
(* may cut a call off anywhere; the store survives.                        *)
(*                                                                         *)
(* External: the worker and the verifier behind runClaimedTask.            *)
(***************************************************************************)
EXTENDS DirectTaskIntake

CONSTANTS
  Claimers,       \* concurrent calls of claimOnce
  LongRuns,       \* may a call outlast the lease it asks for?
  CrashAnywhere,  \* may the process die between the end of a run and its report?
  MaxFaults       \* bound: restarts, runs that throw, results that cannot be stored

ASSUME ServiceAssumption ==
  /\ IsFiniteSet(Claimers)
  /\ LongRuns \in BOOLEAN
  /\ CrashAnywhere \in BOOLEAN
  /\ MaxFaults \in Nat
  /\ "direct-task-service" \in Owners
  /\ \A n \in Nodes : \E a \in Attempts : \A b \in Attempts : NodeOf[b] = n <=> b = a

VARIABLES
  proofResults,   \* pool_proof_results.status of an attempt; "none": no row
  launches,       \* history: how often a worker was launched for an attempt
  lapses,         \* history: how often a lease of the attempt ran out before the call
                  \* that holds it had reported
  unconfirmed,    \* history: attempts whose result was stored by a call that then threw
  claimers,       \* the calls of claimOnce in flight
  faults          \* faults injected so far

historyVars == <<launches, lapses, unconfirmed>>
serviceVars == <<proofResults, historyVars, claimers, faults>>
vars == <<storeVars, intakeVars, serviceVars>>

nodeOfWork(w) == CHOOSE n \in Nodes : WorkOf[n] = w
deriveAttemptId(w) == CHOOSE a \in Attempts : NodeOf[a] = nodeOfWork(w)

-----------------------------------------------------------------------------
(* claimOnce                                                               *)

NoLeaseHeld == [generation |-> 0, token |-> 0]
Idle == [pc |-> "idle", at |-> 0, todo |-> {}, work |-> NoWork, state |-> "absent",
         version |-> 0, hasAttempt |-> FALSE, lease |-> NoLeaseHeld, outcome |-> "none"]

attemptOf(c) == deriveAttemptId(claimers[c].work)

Return(c) == claimers' = [claimers EXCEPT ![c] = Idle]
Goto(c, pc) == claimers' = [claimers EXCEPT ![c].pc = pc]

\* Mutant: expired leases are not reclaimed.
StartClaim_NoReclaim(c) ==
  /\ claimers[c].pc = "idle"
  /\ claimers' = [claimers EXCEPT ![c] = [Idle EXCEPT !.pc = "reclaim", !.at = now]]
  /\ UNCHANGED <<storeVars, intakeVars, proofResults, historyVars, faults>>

\* The clock is read once for the whole call.
StartClaim(c) ==
  /\ claimers[c].pc = "idle"
  /\ claimers' = [claimers EXCEPT ![c] =
       [Idle EXCEPT !.pc = "reclaim", !.at = now,
                    !.todo = listAttemptsNeedingReconciliation(now)]]
  /\ UNCHANGED <<storeVars, intakeVars, proofResults, historyVars, faults>>

\* reclaimLease for one listed attempt; a refusal is ignored.
ReclaimExpired(c) ==
  /\ claimers[c].pc = "reclaim"
  /\ \E a \in claimers[c].todo :
       /\ \/ ReclaimLease(a, claimers[c].at)
          \/ ~ (leases[a].generation # 0 /\ leases[a].expires <= claimers[c].at)
             /\ UNCHANGED storeVars
       /\ claimers' = [claimers EXCEPT ![c].todo = @ \ {a}]
  /\ UNCHANGED <<intakeVars, proofResults, historyVars, faults>>

\* The rows claimOnce would take, by their place in the order of submission.
\* (A terminal node is not listed, and a completed attempt's node is terminal.)
listDirectTaskClaimables ==
  {i \in DOMAIN submissions :
     LET n == nodeOfWork(submissions[i].work) IN
     \/ nodeState[n] \in {"pending", "ready"}
     \/ /\ nodeState[n] = "in_progress"
        /\ attemptState[deriveAttemptId(submissions[i].work)] # "completed"}

\* Where a call continues once it knows the task's state and attempt.
NextStep(state, hasAttempt) ==
  IF state = "pending" THEN "ready"
  ELSE IF ~hasAttempt THEN "create"
  ELSE IF state = "ready" THEN "start"
  ELSE "claim"

\* The oldest row is picked, or there is nothing to do.
PickTask(c) ==
  /\ claimers[c].pc = "reclaim"
  /\ claimers[c].todo = {}
  /\ \/ /\ listDirectTaskClaimables = {}
        /\ Return(c)
     \/ \E i \in listDirectTaskClaimables :
          /\ \A j \in listDirectTaskClaimables : i <= j
          /\ LET w == submissions[i].work
                 n == nodeOfWork(w)
                 has == attemptState[deriveAttemptId(w)] # "none" IN
             claimers' = [claimers EXCEPT ![c] =
               [@ EXCEPT !.work = w, !.state = nodeState[n], !.version = nodeVersion[n],
                         !.hasAttempt = has,
                         !.pc = IF has THEN "proof" ELSE NextStep(nodeState[n], FALSE)]]
  /\ UNCHANGED <<storeVars, intakeVars, proofResults, historyVars, faults>>

\* Mutant: the proof result is not looked up.
CheckProof_Skipped(c) ==
  /\ claimers[c].pc = "proof"
  /\ Goto(c, NextStep(claimers[c].state, TRUE))
  /\ UNCHANGED <<storeVars, intakeVars, proofResults, historyVars, faults>>

\* A task whose attempt has a proof result is left alone.
CheckProof(c) ==
  /\ claimers[c].pc = "proof"
  /\ \/ /\ proofResults[attemptOf(c)] # "none"
        /\ Return(c)
     \/ /\ proofResults[attemptOf(c)] = "none"
        /\ Goto(c, NextStep(claimers[c].state, TRUE))
  /\ UNCHANGED <<storeVars, intakeVars, proofResults, historyVars, faults>>

\* transitionNode to ready, then to in_progress, each at the version the call
\* knows; a refusal ends the call.
AdvanceNode(c) ==
  /\ claimers[c].pc \in {"ready", "start"}
  /\ LET n == nodeOfWork(claimers[c].work)
         to == IF claimers[c].pc = "ready" THEN "ready" ELSE "in_progress" IN
     \/ /\ TransitionNode(n, claimers[c].version, to)
        /\ claimers' = [claimers EXCEPT ![c] =
             [@ EXCEPT !.state = to, !.version = claimers[c].version + 1,
                       !.pc = NextStep(to, claimers[c].hasAttempt)]]
     \/ /\ ~ (nodeVersion[n] = claimers[c].version /\ isValidTransition(nodeState[n], to))
        /\ Return(c)
        /\ UNCHANGED storeVars
  /\ UNCHANGED <<intakeVars, proofResults, historyVars, faults>>

\* createAttempt with the configured model: created, found, or refused because
\* another call has already started the node.
EnsureAttempt(c) ==
  /\ claimers[c].pc = "create"
  /\ LET n == nodeOfWork(claimers[c].work)
         known == [claimers EXCEPT ![c] = [@ EXCEPT !.hasAttempt = TRUE,
                                             !.pc = NextStep(claimers[c].state, TRUE)]] IN
     \/ /\ \E m \in Models : CreateAttempt(attemptOf(c), m)
        /\ claimers' = known
     \/ /\ nodeState[n] = "ready" /\ attemptState[attemptOf(c)] # "none"
        /\ claimers' = known
        /\ UNCHANGED storeVars
     \/ /\ nodeState[n] # "ready"
        /\ Return(c)
        /\ UNCHANGED storeVars
  /\ UNCHANGED <<intakeVars, proofResults, historyVars, faults>>

\* A lease that was asked for at a clock reading too old is expired from the start.
BornExpired(c) == claimers[c].at + LeaseTTL <= now

\* Mutant: the call goes on when the claim is refused.
ClaimTask_IgnoresConflict(c) ==
  /\ claimers[c].pc = "claim"
  /\ \/ /\ ClaimLease(attemptOf(c), "direct-task-service", claimers[c].at)
        /\ claimers' = [claimers EXCEPT ![c] =
             [@ EXCEPT !.pc = "run",
                       !.lease = [generation |-> leaseGeneration'[attemptOf(c)],
                                  token |-> tokens']]]
        /\ lapses' = IF BornExpired(c) THEN [lapses EXCEPT ![attemptOf(c)] = @ + 1] ELSE lapses
     \/ /\ leases[attemptOf(c)] # NoLease
        /\ Goto(c, "run")
        /\ UNCHANGED <<storeVars, lapses>>
  /\ UNCHANGED <<intakeVars, proofResults, launches, unconfirmed, faults>>

\* claimLease, with the expiry counted from the clock reading of the start.
ClaimTask(c) ==
  /\ claimers[c].pc = "claim"
  /\ \/ /\ ClaimLease(attemptOf(c), "direct-task-service", claimers[c].at)
        /\ claimers' = [claimers EXCEPT ![c] =
             [@ EXCEPT !.pc = "run",
                       !.lease = [generation |-> leaseGeneration'[attemptOf(c)],
                                  token |-> tokens']]]
        /\ lapses' = IF BornExpired(c) THEN [lapses EXCEPT ![attemptOf(c)] = @ + 1] ELSE lapses
     \/ /\ leases[attemptOf(c)] # NoLease
        /\ Return(c)
        /\ UNCHANGED <<storeVars, lapses>>
  /\ UNCHANGED <<intakeVars, proofResults, launches, unconfirmed, faults>>

-----------------------------------------------------------------------------
(* runClaimedTask                                                          *)

Fault == faults < MaxFaults /\ faults' = faults + 1

\* The workspace cannot be prepared: the call throws, and leaves its lease.
\* (The clock must have room to expire it; MaxTime is only the model's bound.)
RunThrows(c) ==
  /\ claimers[c].pc = "run"
  /\ now + LeaseTTL <= MaxTime
  /\ Fault
  /\ Return(c)
  /\ UNCHANGED <<storeVars, intakeVars, proofResults, historyVars>>

\* Resource allocation fails: the run ends failed, with no proof result.
AllocationFails(c) ==
  /\ claimers[c].pc = "run"
  /\ claimers' = [claimers EXCEPT ![c].pc = "accept", ![c].outcome = "failed"]
  /\ UNCHANGED <<storeVars, intakeVars, proofResults, historyVars, faults>>

LaunchWorker(c) ==
  /\ claimers[c].pc = "run"
  /\ launches' = [launches EXCEPT ![attemptOf(c)] = @ + 1]
  /\ Goto(c, "verify")
  /\ UNCHANGED <<storeVars, intakeVars, proofResults, lapses, unconfirmed, faults>>

\* Mutant: a run that stored its result counts as passed, whatever the status.
RecordProof_OkIsPassed(c) ==
  /\ claimers[c].pc = "verify"
  /\ \E status \in Outcomes :
       /\ proofResults[attemptOf(c)] = "none"
       /\ proofResults' = [proofResults EXCEPT ![attemptOf(c)] = status]
       /\ claimers' = [claimers EXCEPT ![c].pc = "accept", ![c].outcome = "passed"]
  /\ UNCHANGED <<storeVars, intakeVars, historyVars, faults>>

\* The result table takes one row per attempt.  (An equal row would be a
\* duplicate, but two runs differ in their times.)
recordProofResult(a, status) ==
  /\ proofResults[a] = "none"
  /\ proofResults' = [proofResults EXCEPT ![a] = status]

\* The verdict is stored with recordProofResult.  When the attempt already has
\* a proof result, another run's, the call throws inside the runtime, storing
\* the failure is refused for the same reason, and the run ends failed.
RecordProof(c) ==
  /\ claimers[c].pc = "verify"
  /\ \/ \E status \in Outcomes :
          /\ recordProofResult(attemptOf(c), status)
          /\ claimers' = [claimers EXCEPT ![c].pc = "accept", ![c].outcome = status]
     \/ /\ proofResults[attemptOf(c)] # "none"
        /\ claimers' = [claimers EXCEPT ![c].pc = "accept", ![c].outcome = "failed"]
        /\ UNCHANGED proofResults
  /\ UNCHANGED <<storeVars, intakeVars, historyVars, faults>>

\* recordProofResult throws, before its row is committed or after it (the audit
\* record is written last), and storing the failure instead does not succeed
\* either: the run ends failed, whatever the row says.
RecordFails(c) ==
  /\ claimers[c].pc = "verify"
  /\ Fault
  /\ \/ UNCHANGED <<proofResults, unconfirmed>>
     \/ \E status \in Outcomes :
          /\ recordProofResult(attemptOf(c), status)
          /\ unconfirmed' = unconfirmed \cup {attemptOf(c)}
  /\ claimers' = [claimers EXCEPT ![c].pc = "accept", ![c].outcome = "failed"]
  /\ UNCHANGED <<storeVars, intakeVars, launches, lapses>>

-----------------------------------------------------------------------------
(* The end of claimOnce.                                                   *)

heldLease(c) == [attempt |-> attemptOf(c), owner |-> "direct-task-service",
                 generation |-> claimers[c].lease.generation,
                 token |-> claimers[c].lease.token]

\* acceptResult with the time of the call; a refusal ends the call.
ReportResult(c) ==
  /\ claimers[c].pc = "accept"
  /\ LET g == heldLease(c) IN
     \/ /\ AcceptResult(g, claimers[c].version, claimers[c].outcome, now)
        /\ Goto(c, "complete")
     \/ /\ \/ accepted[g.attempt] # NoResult
           \/ nodeVersion[NodeOf[g.attempt]] # claimers[c].version
           \/ ~LeaseValid(g, now)
        /\ Return(c)
        /\ UNCHANGED storeVars
  /\ UNCHANGED <<intakeVars, proofResults, historyVars, faults>>

\* completeAuthorizedResult for the result just accepted.  (Its answer is not
\* looked at; nobody else can have moved the node, so it is never refused.)
CompleteTask(c) ==
  /\ claimers[c].pc = "complete"
  /\ CompleteAuthorizedResult(attemptOf(c))
  /\ Return(c)
  /\ UNCHANGED <<intakeVars, proofResults, historyVars, faults>>

-----------------------------------------------------------------------------
(* The environment.                                                        *)

\* The process is restarted: every call in flight is lost.
Restart ==
  /\ \E c \in Claimers : claimers[c].pc # "idle"
  /\ CrashAnywhere \/ \A c \in Claimers : claimers[c].pc \notin {"accept", "complete"}
  /\ now + LeaseTTL <= MaxTime
  /\ Fault
  /\ claimers' = [c \in Claimers |-> Idle]
  /\ UNCHANGED <<storeVars, intakeVars, proofResults, historyVars>>

\* The lease a call holds on the attempt expires next, and it has not reported.
Lapsing(a) ==
  \E c \in Claimers : /\ claimers[c].pc \in {"run", "verify", "accept"}
                      /\ attemptOf(c) = a
                      /\ claimers[c].at + LeaseTTL = now + 1

\* Without LongRuns a call ends before the lease it asks for would expire.  No
\* call renews its lease.
TimePasses ==
  /\ LongRuns = FALSE =>
       \A c \in Claimers : claimers[c].pc # "idle" => now + 1 < claimers[c].at + LeaseTTL
  /\ Tick
  /\ lapses' = [a \in Attempts |-> IF Lapsing(a) THEN lapses[a] + 1 ELSE lapses[a]]
  /\ UNCHANGED <<intakeVars, proofResults, launches, unconfirmed, claimers, faults>>

Post ==
  /\ IntakeNext
  /\ UNCHANGED serviceVars

Init ==
  /\ IntakeInit
  /\ proofResults = [a \in Attempts |-> "none"]
  /\ launches = [a \in Attempts |-> 0]
  /\ lapses = [a \in Attempts |-> 0]
  /\ unconfirmed = {}
  /\ claimers = [c \in Claimers |-> Idle]
  /\ faults = 0

claimOnce(c) ==
  \/ StartClaim(c) \/ ReclaimExpired(c) \/ PickTask(c) \/ CheckProof(c)
  \/ AdvanceNode(c) \/ EnsureAttempt(c) \/ ClaimTask(c)
  \/ AllocationFails(c) \/ LaunchWorker(c) \/ RecordProof(c)
  \/ ReportResult(c) \/ CompleteTask(c)

Next ==
  \/ Post
  \/ \E c \in Claimers : claimOnce(c) \/ RunThrows(c) \/ RecordFails(c)
  \/ Restart
  \/ TimePasses

\* claimOnce is called again and again, a call runs to its end unless the
\* process is restarted, and time passes; nothing forces a fault.
Fairness ==
  /\ \A c \in Claimers : WF_vars(claimOnce(c))
  /\ SF_vars(TimePasses)

Spec == Init /\ [][Next]_vars
FairSpec == Spec /\ Fairness

-----------------------------------------------------------------------------
(* Properties.                                                             *)

\* Every table and the memory of every call have their types.
ServiceTypeOK ==
  /\ IntakeTypeOK
  /\ proofResults \in [Attempts -> Outcomes \cup {"none"}]
  /\ launches \in [Attempts -> Nat]
  /\ lapses \in [Attempts -> Nat]
  /\ unconfirmed \subseteq Attempts
  /\ \A c \in Claimers :
       /\ claimers[c].pc \in {"idle", "reclaim", "proof", "ready", "create", "start",
                              "claim", "run", "verify", "accept", "complete"}
       /\ claimers[c].todo \subseteq Attempts
       /\ claimers[c].pc \notin {"idle", "reclaim"} => claimers[c].work \in Works
       /\ claimers[c].pc \in {"accept", "complete"} => claimers[c].outcome \in Outcomes
  /\ faults \in 0..MaxFaults

\* A node that passed has a stored proof result that passed, whatever was lost,
\* restarted or repeated on the way.  The other way round, a stored result that
\* GET reports first and the node's verdict differ only if the result was stored
\* by a call that then threw, or a lease ran out under a call.
VerdictMatchesProof ==
  \A a \in Attempts :
    /\ nodeState[NodeOf[a]] = "passed" => proofResults[a] = "passed"
    /\ /\ nodeState[NodeOf[a]] \in TerminalStates /\ proofResults[a] # "none"
       /\ a \notin unconfirmed /\ lapses[a] = 0
       => nodeState[NodeOf[a]] = proofResults[a]

\* The calls that may still launch a worker for the attempt: they had nothing to
\* look up, or have looked it up and found no proof result.
Launchers(a) ==
  {c \in Claimers : /\ claimers[c].pc \in {"ready", "create", "start", "claim", "run"}
                    /\ attemptOf(c) = a}

\* Recovery repeats only runs that left no proof result.  Once a verdict of a task
\* is stored no further call gets past the lookup, and as long as no lease ran out
\* under its call no worker is launched for the task again, not even by a call
\* that had looked it up before.
NoRelaunchAfterProof ==
  [][\A a \in Attempts : proofResults[a] # "none" =>
       /\ Launchers(a)' \subseteq Launchers(a)
       /\ lapses[a] = 0 => launches'[a] = launches[a]]_vars

\* A worker launch is paid for: a task is launched once, and once more at most
\* for every fault and for every lease that ran out under its call, however many
\* calls of claimOnce overlap and however long they take.
OneLaunchPerFault == \A a \in Attempts : launches[a] <= 1 + faults + lapses[a]

\* A submitted task eventually gets its verdict.
TasksSettle ==
  \A w \in Works :
    (\E i \in DOMAIN submissions : submissions[i].work = w)
      ~> nodeState[nodeOfWork(w)] \in TerminalStates
=============================================================================
