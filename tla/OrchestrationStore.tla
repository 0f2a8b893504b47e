------------------------- MODULE OrchestrationStore -------------------------
(***************************************************************************)
(* The controller's durable store (domains/orchestration/sqlite-store.ts): *)
(* works and their nodes, attempts, leases, accepted results and           *)
(* completion authorizations.  Every store method runs one SQLite write    *)
(* transaction without an await inside it, so every method is one action.  *)
(* A call that the method refuses (an error return, a rollback) changes    *)
(* nothing; its refusal conditions are the action's guards.                *)
(*                                                                         *)
(* The module's own specification lets any caller call any method at any   *)
(* time with any arguments it can hold; the modules that extend it         *)
(* (Dispatch, DirectTaskService) restrict the callers to the repository's. *)
(***************************************************************************)
EXTENDS Naturals, FiniteSets

CONSTANTS
  Works,          \* work ids
  Nodes,          \* nodes of all works
  WorkOf,         \* the work a node belongs to
  Attempts,       \* attempt ids; deriveAttemptId is injective on (work, node, number)
  NodeOf,         \* the node an attempt id is derived from
  Manifests,      \* dependency maps a caller may submit
  Owners,         \* lease owners
  Models,         \* builder models of a resolved routing
  NoModel,        \* absence of a routing row
  LeaseTTL,       \* lease duration, in clock ticks
  MaxTime,        \* bound: last value of the clock
  MaxGeneration   \* bound: claims per attempt

ASSUME StoreAssumption ==
  /\ WorkOf \in [Nodes -> Works]
  /\ NodeOf \in [Attempts -> Nodes]
  /\ Manifests \subseteq [Nodes -> SUBSET Nodes]
  /\ NoModel \notin Models
  /\ LeaseTTL \in Nat \ {0}
  /\ MaxTime \in Nat
  /\ MaxGeneration \in Nat

VARIABLES
  dependencies,     \* dependencies table: node -> the nodes it depends on
  nodeState,        \* nodes.state; "absent" before the work is imported
  nodeVersion,      \* nodes.version
  attemptState,     \* attempts.state; "none" before createAttempt
  leaseGeneration,  \* attempts.lease_generation
  routing,          \* attempt_routing_decisions.builder_model
  leases,           \* leases table: the one row of an attempt, or NoLease
  accepted,         \* accepted_results table: the one row, or NoResult
  authorizations,   \* completion_authorizations.expected_node_version; 0: no row
  now,              \* the wall clock the callers read
  tokens,           \* number of lease tokens drawn so far (a token is a fresh nonce)
  grants            \* the leases ever handed to a caller by claimLease

leaseVars == <<leaseGeneration, leases, tokens, grants>>
nodeVars == <<nodeState, nodeVersion>>
resultVars == <<accepted, authorizations>>
storeVars == <<dependencies, nodeState, nodeVersion, attemptState,
               leaseGeneration, routing, leases, accepted, authorizations,
               now, tokens, grants>>

-----------------------------------------------------------------------------
(* The tables' columns.                                                    *)

NodeStates == {"absent", "pending", "ready", "in_progress", "passed", "failed"}
TerminalStates == {"passed", "failed"}
AttemptStates == {"none", "created", "leased", "result_accepted", "completed"}
Outcomes == {"passed", "failed"}

\* A node is imported at version 1 and takes at most three transitions.
Versions == 1..4

\* An attempt that the queue consumer, the reconciler and the claim loop still act on.
ActiveStates == {"created", "leased"}

Lease == [generation : Nat, owner : Owners \cup {"nobody"}, token : Nat, expires : Nat]
NoLease == [generation |-> 0, owner |-> "nobody", token |-> 0, expires |-> 0]

Result == [outcome : Outcomes \cup {"none"}, generation : Nat, version : Nat]
NoResult == [outcome |-> "none", generation |-> 0, version |-> 0]

Grant == [attempt : Attempts, owner : Owners, generation : Nat, token : Nat]

-----------------------------------------------------------------------------
(* Predicates of the methods.                                              *)

\* The node lifecycle table; a terminal state has no successor.
isValidTransition(from, to) ==
  \/ from = "pending" /\ to = "ready"
  \/ from = "ready" /\ to = "in_progress"
  \/ from = "in_progress" /\ to \in TerminalStates

\* A submitted graph names only the work's nodes and has no dependency cycle:
\* every non-empty set of nodes has a member that depends on none of them.
ValidWork(w, d) ==
  LET own == {n \in Nodes : WorkOf[n] = w} IN
  /\ own # {}
  /\ \A n \in own : d[n] \subseteq own
  /\ \A S \in SUBSET own : S # {} => \E n \in S : d[n] \cap S = {}

\* The caller of renew and release presents the lease row's owner and token.
PresentsLease(g) ==
  /\ leases[g.attempt].generation # 0
  /\ leases[g.attempt].owner = g.owner
  /\ leases[g.attempt].token = g.token

\* Mutant: acceptResult compares neither the generation nor the token.
LeaseValid_Unfenced(g, t) ==
  /\ leases[g.attempt].generation # 0
  /\ leases[g.attempt].expires > t

\* acceptResult's leaseValid: a live row with the result's generation and token.
LeaseValid(g, t) ==
  /\ leases[g.attempt].generation # 0
  /\ leases[g.attempt].expires > t
  /\ leases[g.attempt].generation = g.generation
  /\ leases[g.attempt].token = g.token

\* The attempts a reconciler reclaims: leased, with a row expired at t.  (The
\* query returns created attempts too, which both its callers skip.)
listAttemptsNeedingReconciliation(t) ==
  {a \in Attempts : /\ attemptState[a] = "leased"
                    /\ leases[a] # NoLease
                    /\ leases[a].expires <= t}

-----------------------------------------------------------------------------
(* The methods.                                                            *)

\* A known work id is a replay or a conflict: nothing is written.
ImportApprovedWork(w, d) ==
  /\ ValidWork(w, d)
  /\ \A n \in Nodes : WorkOf[n] = w => nodeState[n] = "absent"
  /\ dependencies' = [n \in Nodes |-> IF WorkOf[n] = w THEN d[n] ELSE dependencies[n]]
  /\ nodeState' = [n \in Nodes |-> IF WorkOf[n] = w THEN "pending" ELSE nodeState[n]]
  /\ nodeVersion' = [n \in Nodes |-> IF WorkOf[n] = w THEN 1 ELSE nodeVersion[n]]
  /\ UNCHANGED <<attemptState, leaseVars, routing, resultVars, now>>

\* Mutant: the version compare-and-set is dropped.
TransitionNode_NoVersionCheck(n, version, to) ==
  /\ nodeState[n] # "absent"
  /\ to \in TerminalStates \cup {"ready", "in_progress"}
  /\ nodeState' = [nodeState EXCEPT ![n] = to]
  /\ nodeVersion' = [nodeVersion EXCEPT ![n] = @ + 1]
  /\ UNCHANGED <<dependencies, attemptState, leaseVars, routing, resultVars, now>>

TransitionNode(n, version, to) ==
  /\ nodeState[n] # "absent"
  /\ nodeVersion[n] = version
  /\ isValidTransition(nodeState[n], to)
  /\ nodeState' = [nodeState EXCEPT ![n] = to]
  /\ nodeVersion' = [nodeVersion EXCEPT ![n] = @ + 1]
  /\ UNCHANGED <<dependencies, attemptState, leaseVars, routing, resultVars, now>>

\* A known attempt id is returned as it is: nothing is written.
CreateAttempt(a, model) ==
  /\ nodeState[NodeOf[a]] = "ready"
  /\ attemptState[a] = "none"
  /\ attemptState' = [attemptState EXCEPT ![a] = "created"]
  /\ routing' = [routing EXCEPT ![a] = model]
  /\ UNCHANGED <<dependencies, nodeVars, leaseVars, resultVars, now>>

\* Mutant: a claim reuses the generation counter instead of advancing it.
ClaimLease_SameGeneration(a, owner, t) ==
  /\ attemptState[a] # "none"
  /\ leases[a] = NoLease
  /\ leaseGeneration[a] < MaxGeneration
  /\ LET gen == IF leaseGeneration[a] = 0 THEN 1 ELSE leaseGeneration[a] IN
     /\ tokens' = tokens + 1
     /\ leases' = [leases EXCEPT ![a] = [generation |-> gen, owner |-> owner,
                                         token |-> tokens', expires |-> t + LeaseTTL]]
     /\ grants' = grants \cup {[attempt |-> a, owner |-> owner,
                                generation |-> gen, token |-> tokens']}
     /\ leaseGeneration' = [leaseGeneration EXCEPT ![a] = gen]
     /\ attemptState' = [attemptState EXCEPT ![a] = "leased"]
  /\ UNCHANGED <<dependencies, nodeVars, routing, resultVars, now>>

\* Any existing row refuses the claim, an expired one too; the attempt's and
\* the node's states are not looked at.
ClaimLease(a, owner, t) ==
  /\ attemptState[a] # "none"
  /\ leases[a] = NoLease
  /\ leaseGeneration[a] < MaxGeneration
  /\ tokens' = tokens + 1
  /\ leaseGeneration' = [leaseGeneration EXCEPT ![a] = @ + 1]
  /\ leases' = [leases EXCEPT ![a] = [generation |-> leaseGeneration[a] + 1,
                                      owner |-> owner, token |-> tokens + 1,
                                      expires |-> t + LeaseTTL]]
  /\ grants' = grants \cup {[attempt |-> a, owner |-> owner,
                             generation |-> leaseGeneration[a] + 1,
                             token |-> tokens + 1]}
  /\ attemptState' = [attemptState EXCEPT ![a] = "leased"]
  /\ UNCHANGED <<dependencies, nodeVars, routing, resultVars, now>>

\* Mutant: an expired lease can be renewed.
RenewLease_Expired(g, t) ==
  /\ PresentsLease(g)
  /\ leases' = [leases EXCEPT ![g.attempt].expires = t + LeaseTTL]
  /\ UNCHANGED <<dependencies, nodeVars, attemptState, leaseGeneration, routing,
                 resultVars, now, tokens, grants>>

RenewLease(g, t) ==
  /\ PresentsLease(g)
  /\ leases[g.attempt].expires > t
  /\ leases' = [leases EXCEPT ![g.attempt].expires = t + LeaseTTL]
  /\ UNCHANGED <<dependencies, nodeVars, attemptState, leaseGeneration, routing,
                 resultVars, now, tokens, grants>>

\* Both ways of dropping a lease set the attempt back to created, whatever
\* its state was.
DropLease(a) ==
  /\ leases' = [leases EXCEPT ![a] = NoLease]
  /\ attemptState' = [attemptState EXCEPT ![a] = "created"]
  /\ UNCHANGED <<dependencies, nodeVars, leaseGeneration, routing, resultVars,
                 now, tokens, grants>>

ReleaseLease(g) ==
  /\ PresentsLease(g)
  /\ DropLease(g.attempt)

ReclaimLease(a, t) ==
  /\ leases[a].generation # 0
  /\ leases[a].expires <= t
  /\ DropLease(a)

\* Mutant: acceptResult forgets to look for an already accepted result.
AcceptResult_Overwrites(g, version, outcome, t) ==
  /\ nodeState[NodeOf[g.attempt]] # "absent"
  /\ nodeVersion[NodeOf[g.attempt]] = version
  /\ LeaseValid(g, t)
  /\ accepted' = [accepted EXCEPT ![g.attempt] =
                    [outcome |-> outcome, generation |-> g.generation, version |-> version]]
  /\ authorizations' = [authorizations EXCEPT ![g.attempt] = version]
  /\ attemptState' = [attemptState EXCEPT ![g.attempt] = "result_accepted"]
  /\ UNCHANGED <<dependencies, nodeVars, leaseVars, routing, now>>

\* An accepted result is never replaced: an equal one is a duplicate, another
\* one a conflict.  The lease row stays, and the node's state is not looked at.
AcceptResult(g, version, outcome, t) ==
  /\ accepted[g.attempt] = NoResult
  /\ nodeState[NodeOf[g.attempt]] # "absent"
  /\ nodeVersion[NodeOf[g.attempt]] = version
  /\ LeaseValid(g, t)
  /\ accepted' = [accepted EXCEPT ![g.attempt] =
                    [outcome |-> outcome, generation |-> g.generation, version |-> version]]
  /\ authorizations' = [authorizations EXCEPT ![g.attempt] = version]
  /\ attemptState' = [attemptState EXCEPT ![g.attempt] = "result_accepted"]
  /\ UNCHANGED <<dependencies, nodeVars, leaseVars, routing, now>>

\* Mutant: completion ignores the authorized node version and lifecycle.
CompleteAuthorizedResult_Unguarded(a) ==
  /\ authorizations[a] # 0
  /\ accepted[a] # NoResult
  /\ nodeState' = [nodeState EXCEPT ![NodeOf[a]] = accepted[a].outcome]
  /\ nodeVersion' = [nodeVersion EXCEPT ![NodeOf[a]] = @ + 1]
  /\ attemptState' = [attemptState EXCEPT ![a] = "completed"]
  /\ authorizations' = [authorizations EXCEPT ![a] = 0]
  /\ UNCHANGED <<dependencies, leaseVars, routing, accepted, now>>

\* Mutant: completion runs without looking for the authorization.
CompleteAuthorizedResult_NoAuthorization(a) ==
  /\ attemptState[a] # "none"
  /\ nodeState' = [nodeState EXCEPT ![NodeOf[a]] = accepted[a].outcome]
  /\ nodeVersion' = [nodeVersion EXCEPT ![NodeOf[a]] = @ + 1]
  /\ attemptState' = [attemptState EXCEPT ![a] = "completed"]
  /\ authorizations' = [authorizations EXCEPT ![a] = 0]
  /\ UNCHANGED <<dependencies, leaseVars, routing, accepted, now>>

\* Mutant: completion takes every accepted result for a pass.
CompleteAuthorizedResult_AssumesPassed(a) ==
  /\ authorizations[a] # 0
  /\ nodeVersion[NodeOf[a]] = authorizations[a]
  /\ isValidTransition(nodeState[NodeOf[a]], "passed")
  /\ nodeState' = [nodeState EXCEPT ![NodeOf[a]] = "passed"]
  /\ nodeVersion' = [nodeVersion EXCEPT ![NodeOf[a]] = @ + 1]
  /\ attemptState' = [attemptState EXCEPT ![a] = "completed"]
  /\ authorizations' = [authorizations EXCEPT ![a] = 0]
  /\ UNCHANGED <<dependencies, leaseVars, routing, accepted, now>>

\* Mutant: completion leaves the authorization behind.
CompleteAuthorizedResult_KeepsAuthorization(a) ==
  /\ authorizations[a] # 0
  /\ nodeVersion[NodeOf[a]] = authorizations[a]
  /\ accepted[a] # NoResult
  /\ isValidTransition(nodeState[NodeOf[a]], accepted[a].outcome)
  /\ nodeState' = [nodeState EXCEPT ![NodeOf[a]] = accepted[a].outcome]
  /\ nodeVersion' = [nodeVersion EXCEPT ![NodeOf[a]] = @ + 1]
  /\ attemptState' = [attemptState EXCEPT ![a] = "completed"]
  /\ UNCHANGED <<dependencies, leaseVars, routing, resultVars, now>>

\* completeAuthorizedResult for the attempt's own node: the ids are the caller's and
\* are not compared with the attempt, but both callers pass those of the attempt.
CompleteAuthorizedResult(a) ==
  /\ authorizations[a] # 0
  /\ nodeVersion[NodeOf[a]] = authorizations[a]
  /\ accepted[a] # NoResult
  /\ isValidTransition(nodeState[NodeOf[a]], accepted[a].outcome)
  /\ nodeState' = [nodeState EXCEPT ![NodeOf[a]] = accepted[a].outcome]
  /\ nodeVersion' = [nodeVersion EXCEPT ![NodeOf[a]] = @ + 1]
  /\ attemptState' = [attemptState EXCEPT ![a] = "completed"]
  /\ authorizations' = [authorizations EXCEPT ![a] = 0]
  /\ UNCHANGED <<dependencies, leaseVars, routing, accepted, now>>

\* Time passes between two calls.
Tick ==
  /\ now < MaxTime
  /\ now' = now + 1
  /\ UNCHANGED <<dependencies, nodeVars, attemptState, leaseVars, routing,
                 resultVars>>

-----------------------------------------------------------------------------
StoreInit ==
  /\ dependencies = [n \in Nodes |-> {}]
  /\ nodeState = [n \in Nodes |-> "absent"]
  /\ nodeVersion = [n \in Nodes |-> 0]
  /\ attemptState = [a \in Attempts |-> "none"]
  /\ leaseGeneration = [a \in Attempts |-> 0]
  /\ routing = [a \in Attempts |-> NoModel]
  /\ leases = [a \in Attempts |-> NoLease]
  /\ accepted = [a \in Attempts |-> NoResult]
  /\ authorizations = [a \in Attempts |-> 0]
  /\ now = 0
  /\ tokens = 0
  /\ grants = {}

\* claimLease and reclaimLease are given a clock reading the caller may have
\* taken a while ago (claimOnce reads it once, before its first await);
\* renewLease and acceptResult are given the time of the call.
StoreNext ==
  \/ \E w \in Works, d \in Manifests : ImportApprovedWork(w, d)
  \/ \E n \in Nodes, v \in Versions, s \in NodeStates : TransitionNode(n, v, s)
  \/ \E a \in Attempts, m \in Models : CreateAttempt(a, m)
  \/ \E a \in Attempts, o \in Owners, t \in 0..now : ClaimLease(a, o, t)
  \/ \E g \in grants : RenewLease(g, now)
  \/ \E g \in grants : ReleaseLease(g)
  \/ \E a \in Attempts, t \in 0..now : ReclaimLease(a, t)
  \/ \E g \in grants, v \in Versions, o \in Outcomes : AcceptResult(g, v, o, now)
  \/ \E a \in Attempts : CompleteAuthorizedResult(a)
  \/ Tick

StoreSpec == StoreInit /\ [][StoreNext]_storeVars

-----------------------------------------------------------------------------
(* Properties.                                                             *)

\* Every table holds rows of its columns' types.
TypeOK ==
  /\ dependencies \in [Nodes -> SUBSET Nodes]
  /\ nodeState \in [Nodes -> NodeStates]
  /\ nodeVersion \in [Nodes -> Nat]
  /\ attemptState \in [Attempts -> AttemptStates]
  /\ leaseGeneration \in [Attempts -> Nat]
  /\ routing \in [Attempts -> Models \cup {NoModel}]
  /\ leases \in [Attempts -> Lease]
  /\ accepted \in [Attempts -> Result]
  /\ authorizations \in [Attempts -> Nat]
  /\ now \in Nat
  /\ tokens \in Nat
  /\ grants \subseteq Grant

\* A grant whose result acceptResult would take now.
Honoured(g) == LeaseValid(g, now)

\* Fencing: of all the leases of an attempt ever handed out, acceptResult
\* honours at most one, and only the one with the attempt's newest generation.
SingleHonouredGrant ==
  \A g, h \in grants :
    g.attempt = h.attempt /\ Honoured(g) =>
      /\ Honoured(h) => g = h
      /\ h.generation <= g.generation

\* The claim counter is never reused: two grants of one attempt with the same
\* generation are the same grant.
GenerationsUnique ==
  \A g, h \in grants :
    g.attempt = h.attempt /\ g.generation = h.generation => g = h

\* Revocation is final: a grant acceptResult would refuse, because the lease
\* expired, was reclaimed, was released or was taken over, is refused for ever
\* (no renewal or new claim revives it).
RevocationIsFinal ==
  [][\A g \in grants : ~Honoured(g) => ~Honoured(g)']_storeVars

\* acceptResult's duplicate and conflict branches: the result an attempt was
\* accepted with, and the verdict of its node, are never rewritten, whatever
\* is called later.
AcceptedResultImmutable ==
  [][\A a \in Attempts :
       accepted[a] # NoResult =>
         /\ accepted'[a] = accepted[a]
         /\ authorizations[a] = 0 => authorizations'[a] = 0]_storeVars

\* Exactly-once completion: a consumed authorization means the node carries
\* the accepted outcome, at the version right after the one the result was
\* accepted against.
CompletionAppliedOnce ==
  \A a \in Attempts :
    accepted[a] # NoResult /\ authorizations[a] = 0 =>
      /\ nodeState[NodeOf[a]] = accepted[a].outcome
      /\ nodeVersion[NodeOf[a]] = accepted[a].version + 1

\* Of all the attempts of a node, whose results may all have been accepted
\* against the same version, at most one decides it.
OneDecidingAttempt ==
  \A a, b \in Attempts :
    /\ NodeOf[a] = NodeOf[b]
    /\ accepted[a] # NoResult /\ authorizations[a] = 0
    /\ accepted[b] # NoResult /\ authorizations[b] = 0
    => a = b

\* A lease row is always the newest claim of its attempt, and no caller holds
\* a generation the attempt has not reached.
LeaseRowIsNewest ==
  /\ \A a \in Attempts :
       leases[a] # NoLease =>
         leases[a].generation # 0 /\ leases[a].generation = leaseGeneration[a]
  /\ \A g \in grants :
       g.generation # 0 /\ g.generation <= leaseGeneration[g.attempt]

\* An authorization is the shadow of an accepted result that waits for its
\* node, pinned to the version the result was accepted against.
AuthorizationShadowsResult ==
  \A a \in Attempts :
    /\ accepted[a].outcome = "none" => accepted[a] = NoResult
    /\ authorizations[a] # 0 =>
         accepted[a] # NoResult /\ authorizations[a] = accepted[a].version

\* The inductive strengthening of the safety properties above: together its
\* parts are preserved by every method, from any state that satisfies them.
StoreInv ==
  /\ LeaseRowIsNewest
  /\ GenerationsUnique
  /\ AuthorizationShadowsResult
  /\ CompletionAppliedOnce
  /\ OneDecidingAttempt

\* The store implements the abstract result ledger: with time, tokens and lease
\* rows hidden, an attempt is held exactly while its lease row is unexpired.
Ledger == INSTANCE ResultLedger WITH
  phase <- nodeState,
  epoch <- leaseGeneration,
  holder <- [a \in Attempts |->
               IF leases[a].expires > now THEN leases[a].generation ELSE 0],
  verdict <- [a \in Attempts |-> accepted[a].outcome],
  applied <- {a \in Attempts : accepted[a] # NoResult /\ authorizations[a] = 0}

\* Every behaviour of the store's methods is one of the ledger: a verdict is
\* decided only by the current holder, at most once, and applied at most once
\* to a node in progress, whatever leases expire, are reclaimed or are retaken.
ImplementsLedger == Ledger!Spec

=============================================================================
