---------------------- MODULE OrchestrationStoreProofs ----------------------
(***************************************************************************)
(* Proofs about the orchestration store, for any set of works, nodes and   *)
(* attempts, any lease duration and any number of claims.                  *)
(***************************************************************************)
EXTENDS OrchestrationStore, WellFoundedInduction, TLAPS

\* Every non-empty set of natural numbers, such as a set of node ids, has a
\* least member.
LEMMA LeastNat ==
  ASSUME NEW T \in SUBSET Nat, T # {}
  PROVE  \E x \in T : \A y \in T : x <= y
<1> DEFINE R == OpToRel(<, Nat)
<1>1. IsWellFoundedOn(R, Nat)
  BY NatLessThanWellFounded
<1>2. R = {ss \in Nat \X Nat : ss[1] < ss[2]}
  BY DEF OpToRel
<1> HIDE DEF R
<1>3. PICK x \in T : \A y \in T : ~(<<y, x>> \in R)
  BY <1>1, WFMin
<1>4. \A y \in T : ~(y < x)
  BY <1>2, <1>3
<1>5. \A y \in T : x <= y
  BY <1>4
<1> QED
  BY <1>5

USE StoreAssumption

-----------------------------------------------------------------------------
(* Type correctness.                                                       *)

\* The methods only write rows of their tables' types.
LEMMA TypeOKStep == TypeOK /\ [StoreNext]_storeVars => TypeOK'
<1> SUFFICES ASSUME TypeOK, [StoreNext]_storeVars PROVE TypeOK'
  OBVIOUS
<1> USE DEF TypeOK, nodeVars, leaseVars, resultVars
<1>1. ASSUME NEW w \in Works, NEW d \in Manifests, ImportApprovedWork(w, d)
      PROVE  TypeOK'
  <2>1. dependencies' \in [Nodes -> SUBSET Nodes]
    BY <1>1 DEF ImportApprovedWork
  <2>2. nodeState' \in [Nodes -> NodeStates] /\ nodeVersion' \in [Nodes -> Nat]
    BY <1>1 DEF ImportApprovedWork, NodeStates
  <2> QED
    BY <1>1, <2>1, <2>2 DEF ImportApprovedWork
<1>2. ASSUME NEW n \in Nodes, NEW v \in Versions, NEW s \in NodeStates,
             TransitionNode(n, v, s)
      PROVE  TypeOK'
  BY <1>2 DEF TransitionNode
<1>3. ASSUME NEW a \in Attempts, NEW m \in Models, CreateAttempt(a, m)
      PROVE  TypeOK'
  BY <1>3 DEF CreateAttempt, AttemptStates
<1>4. ASSUME NEW a \in Attempts, NEW o \in Owners, NEW t \in 0..now,
             ClaimLease(a, o, t)
      PROVE  TypeOK'
  <2>1. t + LeaseTTL \in Nat /\ leaseGeneration[a] + 1 \in Nat /\ tokens + 1 \in Nat
    OBVIOUS
  <2>2. leases' \in [Attempts -> Lease]
    BY <1>4, <2>1 DEF ClaimLease, Lease
  <2>3. grants' \subseteq Grant
    BY <1>4, <2>1 DEF ClaimLease, Grant
  <2>4. leaseGeneration' \in [Attempts -> Nat] /\ tokens' \in Nat
    BY <1>4, <2>1 DEF ClaimLease
  <2>5. attemptState' \in [Attempts -> AttemptStates]
    BY <1>4 DEF ClaimLease, AttemptStates
  <2> QED
    BY <1>4, <2>2, <2>3, <2>4, <2>5 DEF ClaimLease
<1>5. ASSUME NEW g \in grants, RenewLease(g, now)
      PROVE  TypeOK'
  <2>1. g.attempt \in Attempts /\ now + LeaseTTL \in Nat
    BY DEF Grant
  <2> DEFINE row == [leases[g.attempt] EXCEPT !.expires = now + LeaseTTL]
  <2>2. row \in Lease
    <3>1. leases[g.attempt] \in Lease
      BY <2>1
    <3>2. row = [generation |-> leases[g.attempt].generation,
                 owner |-> leases[g.attempt].owner,
                 token |-> leases[g.attempt].token,
                 expires |-> now + LeaseTTL]
      BY <3>1 DEF Lease
    <3> QED
      BY <2>1, <3>1, <3>2 DEF Lease
  <2>3. leases' = [leases EXCEPT ![g.attempt] = row]
    BY <1>5 DEF RenewLease
  <2>4. leases' \in [Attempts -> Lease]
    BY <2>1, <2>2, <2>3
  <2> QED
    BY <1>5, <2>4 DEF RenewLease
<1>6. ASSUME NEW a \in Attempts, DropLease(a)
      PROVE  TypeOK'
  BY <1>6 DEF DropLease, NoLease, Lease, AttemptStates
<1>7. ASSUME NEW g \in grants, ReleaseLease(g)
      PROVE  TypeOK'
  BY <1>6, <1>7 DEF ReleaseLease, Grant
<1>8. ASSUME NEW a \in Attempts, NEW t \in 0..now, ReclaimLease(a, t)
      PROVE  TypeOK'
  BY <1>6, <1>8 DEF ReclaimLease
<1>9. ASSUME NEW g \in grants, NEW v \in Versions, NEW o \in Outcomes,
             AcceptResult(g, v, o, now)
      PROVE  TypeOK'
  <2>1. g.attempt \in Attempts /\ g.generation \in Nat /\ v \in Nat
    BY DEF Grant, Versions
  <2>2. accepted' \in [Attempts -> Result]
    BY <1>9, <2>1 DEF AcceptResult, Result
  <2>3. authorizations' \in [Attempts -> Nat]
    BY <1>9, <2>1 DEF AcceptResult
  <2>4. attemptState' \in [Attempts -> AttemptStates]
    BY <1>9, <2>1 DEF AcceptResult, AttemptStates
  <2> QED
    BY <1>9, <2>2, <2>3, <2>4 DEF AcceptResult
<1>10. ASSUME NEW a \in Attempts, CompleteAuthorizedResult(a)
       PROVE  TypeOK'
  <2>1. accepted[a].outcome \in NodeStates
    BY <1>10 DEF CompleteAuthorizedResult, isValidTransition, TerminalStates, NodeStates
  <2>2. nodeState' \in [Nodes -> NodeStates] /\ nodeVersion' \in [Nodes -> Nat]
    BY <1>10, <2>1 DEF CompleteAuthorizedResult
  <2>3. /\ attemptState' \in [Attempts -> AttemptStates]
        /\ authorizations' \in [Attempts -> Nat]
    BY <1>10 DEF CompleteAuthorizedResult, AttemptStates
  <2> QED
    BY <1>10, <2>2, <2>3 DEF CompleteAuthorizedResult
<1>11. ASSUME Tick
       PROVE  TypeOK'
  BY <1>11 DEF Tick
<1>12. ASSUME UNCHANGED storeVars
       PROVE  TypeOK'
  BY <1>12 DEF storeVars
<1> QED
  BY <1>1, <1>2, <1>3, <1>4, <1>5, <1>7, <1>8, <1>9, <1>10, <1>11, <1>12 DEF StoreNext

\* The empty database is well typed.
LEMMA StoreInitTypeOK == StoreInit => TypeOK
BY DEF StoreInit, TypeOK, NodeStates, AttemptStates, Lease, NoLease, Result,
       NoResult, Outcomes, Grant

\* Every state the store's methods can reach holds rows of the tables' types.
THEOREM StoreTypeCorrect == StoreSpec => []TypeOK
BY StoreInitTypeOK, TypeOKStep, PTL DEF StoreSpec

-----------------------------------------------------------------------------
(* The inductive invariant.                                                *)

\* The lease half of the invariant: only claimLease adds a grant, and it takes
\* the next generation, which no caller holds yet.
LEMMA LeaseInvStep ==
  ASSUME TypeOK, LeaseRowIsNewest, GenerationsUnique, [StoreNext]_storeVars
  PROVE  LeaseRowIsNewest' /\ GenerationsUnique'
<1> USE DEF TypeOK, nodeVars, leaseVars, resultVars
<1>1. ASSUME UNCHANGED leaseVars
      PROVE  LeaseRowIsNewest' /\ GenerationsUnique'
  BY <1>1 DEF LeaseRowIsNewest, GenerationsUnique
<1>2. ASSUME NEW a \in Attempts, NEW o \in Owners, NEW t \in 0..now,
             ClaimLease(a, o, t)
      PROVE  LeaseRowIsNewest' /\ GenerationsUnique'
  <2> DEFINE new == [attempt |-> a, owner |-> o,
                     generation |-> leaseGeneration[a] + 1, token |-> tokens + 1]
  <2>1. /\ grants' = grants \cup {new}
        /\ leaseGeneration' = [leaseGeneration EXCEPT ![a] = leaseGeneration[a] + 1]
        /\ leases' = [leases EXCEPT ![a] = [generation |-> leaseGeneration[a] + 1,
                                            owner |-> o, token |-> tokens + 1,
                                            expires |-> t + LeaseTTL]]
    BY <1>2 DEF ClaimLease
  <2>2. \A g \in grants : g.attempt \in Attempts /\ g.generation \in Nat
    BY DEF Grant
  <2>3. \A g \in grants :
          g.generation # 0 /\ g.generation <= leaseGeneration[g.attempt]
    BY DEF LeaseRowIsNewest
  <2>4. leaseGeneration'[a] = leaseGeneration[a] + 1
    BY <2>1
  <2>5. \A g \in grants' :
          g.generation # 0 /\ g.generation <= leaseGeneration'[g.attempt]
    BY <2>1, <2>2, <2>3, <2>4
  <2>6. \A b \in Attempts :
          leases'[b] # NoLease =>
            leases'[b].generation # 0 /\ leases'[b].generation = leaseGeneration'[b]
    BY <2>1, <2>4 DEF LeaseRowIsNewest
  <2>7. \A g \in grants : g.attempt = a => g.generation # new.generation
    BY <2>2, <2>3
  <2>8. GenerationsUnique'
    BY <2>1, <2>7 DEF GenerationsUnique
  <2> QED
    BY <2>5, <2>6, <2>8 DEF LeaseRowIsNewest
<1>3. ASSUME NEW g \in grants, RenewLease(g, now)
      PROVE  LeaseRowIsNewest' /\ GenerationsUnique'
  <2>1. g.attempt \in Attempts /\ leases[g.attempt] \in Lease
    BY DEF Grant
  <2>2. /\ UNCHANGED <<leaseGeneration, grants>>
        /\ leases' = [leases EXCEPT ![g.attempt] =
                        [leases[g.attempt] EXCEPT !.expires = now + LeaseTTL]]
        /\ leases[g.attempt].generation # 0
    BY <1>3 DEF RenewLease, PresentsLease
  <2>3. leases'[g.attempt].generation = leases[g.attempt].generation
    BY <2>1, <2>2 DEF Lease
  <2>4. leases[g.attempt] # NoLease
    BY <2>2 DEF NoLease
  <2>5. \A b \in Attempts :
          leases'[b] # NoLease =>
            leases'[b].generation # 0 /\ leases'[b].generation = leaseGeneration'[b]
    BY <2>1, <2>2, <2>3, <2>4 DEF LeaseRowIsNewest
  <2> QED
    BY <2>2, <2>5 DEF LeaseRowIsNewest, GenerationsUnique
<1>4. ASSUME NEW a \in Attempts, DropLease(a)
      PROVE  LeaseRowIsNewest' /\ GenerationsUnique'
  BY <1>4 DEF DropLease, LeaseRowIsNewest, GenerationsUnique
<1>5. ASSUME NEW g \in grants, ReleaseLease(g)
      PROVE  LeaseRowIsNewest' /\ GenerationsUnique'
  BY <1>4, <1>5 DEF ReleaseLease, Grant
<1>6. ASSUME NEW a \in Attempts, NEW t \in 0..now, ReclaimLease(a, t)
      PROVE  LeaseRowIsNewest' /\ GenerationsUnique'
  BY <1>4, <1>6 DEF ReclaimLease
<1> QED
  BY <1>1, <1>2, <1>3, <1>5, <1>6
  DEF StoreNext, storeVars, ImportApprovedWork, TransitionNode, CreateAttempt,
      AcceptResult, CompleteAuthorizedResult, Tick

\* The result half of the invariant: a decided node is terminal, and no method
\* moves a terminal node or writes a second result or authorization.
LEMMA ResultInvStep ==
  ASSUME TypeOK, AuthorizationShadowsResult, CompletionAppliedOnce,
         OneDecidingAttempt, [StoreNext]_storeVars
  PROVE  AuthorizationShadowsResult' /\ CompletionAppliedOnce' /\ OneDecidingAttempt'
<1> USE DEF TypeOK, nodeVars, leaseVars, resultVars
<1> DEFINE Decided(a) == accepted[a] # NoResult /\ authorizations[a] = 0
<1>0. \A a \in Attempts : Decided(a) => nodeState[NodeOf[a]] \in TerminalStates
  BY DEF CompletionAppliedOnce, AuthorizationShadowsResult, Result, Outcomes, TerminalStates
<1>1. ASSUME UNCHANGED <<nodeVars, resultVars>>
      PROVE  AuthorizationShadowsResult' /\ CompletionAppliedOnce' /\ OneDecidingAttempt'
  BY <1>1 DEF AuthorizationShadowsResult, CompletionAppliedOnce, OneDecidingAttempt
<1>2. ASSUME UNCHANGED resultVars,
             \A a \in Attempts : Decided(a) =>
               /\ nodeState'[NodeOf[a]] = nodeState[NodeOf[a]]
               /\ nodeVersion'[NodeOf[a]] = nodeVersion[NodeOf[a]]
      PROVE  AuthorizationShadowsResult' /\ CompletionAppliedOnce' /\ OneDecidingAttempt'
  BY <1>2 DEF AuthorizationShadowsResult, CompletionAppliedOnce, OneDecidingAttempt
<1>3. ASSUME NEW w \in Works, NEW d \in Manifests, ImportApprovedWork(w, d)
      PROVE  AuthorizationShadowsResult' /\ CompletionAppliedOnce' /\ OneDecidingAttempt'
  <2>1. \A a \in Attempts : Decided(a) => WorkOf[NodeOf[a]] # w
    BY <1>0, <1>3 DEF ImportApprovedWork, TerminalStates
  <2> QED
    BY <1>2, <1>3, <2>1 DEF ImportApprovedWork
<1>4. ASSUME NEW n \in Nodes, NEW v \in Versions, NEW s \in NodeStates,
             TransitionNode(n, v, s)
      PROVE  AuthorizationShadowsResult' /\ CompletionAppliedOnce' /\ OneDecidingAttempt'
  <2>1. nodeState[n] \notin TerminalStates
    BY <1>4 DEF TransitionNode, isValidTransition, TerminalStates
  <2>2. \A a \in Attempts : Decided(a) => NodeOf[a] # n
    BY <1>0, <2>1
  <2> QED
    BY <1>2, <1>4, <2>2 DEF TransitionNode
<1>5. ASSUME NEW g \in grants, NEW v \in Versions, NEW o \in Outcomes,
             AcceptResult(g, v, o, now)
      PROVE  AuthorizationShadowsResult' /\ CompletionAppliedOnce' /\ OneDecidingAttempt'
  <2> DEFINE res == [outcome |-> o, generation |-> g.generation, version |-> v]
  <2>1. g.attempt \in Attempts /\ v \in Nat \ {0} /\ o # "none"
    BY DEF Grant, Versions, Outcomes
  <2>2. /\ accepted' = [accepted EXCEPT ![g.attempt] = res]
        /\ authorizations' = [authorizations EXCEPT ![g.attempt] = v]
        /\ UNCHANGED nodeVars
    BY <1>5 DEF AcceptResult
  <2>3. res # NoResult
    BY <2>1 DEF NoResult
  <2>4. AuthorizationShadowsResult'
    BY <2>1, <2>2, <2>3 DEF AuthorizationShadowsResult
  <2>5. \A a \in Attempts :
          accepted'[a] # NoResult /\ authorizations'[a] = 0 =>
            Decided(a) /\ a # g.attempt /\ accepted'[a] = accepted[a]
    BY <2>1, <2>2
  <2> QED
    BY <2>2, <2>4, <2>5 DEF CompletionAppliedOnce, OneDecidingAttempt
<1>6. ASSUME NEW a \in Attempts, CompleteAuthorizedResult(a)
      PROVE  AuthorizationShadowsResult' /\ CompletionAppliedOnce' /\ OneDecidingAttempt'
  <2>1. /\ authorizations' = [authorizations EXCEPT ![a] = 0]
        /\ UNCHANGED accepted
        /\ nodeState' = [nodeState EXCEPT ![NodeOf[a]] = accepted[a].outcome]
        /\ nodeVersion' = [nodeVersion EXCEPT ![NodeOf[a]] = nodeVersion[NodeOf[a]] + 1]
        /\ authorizations[a] # 0
        /\ nodeVersion[NodeOf[a]] = authorizations[a]
        /\ isValidTransition(nodeState[NodeOf[a]], accepted[a].outcome)
    BY <1>6 DEF CompleteAuthorizedResult
  <2>2. nodeState[NodeOf[a]] \notin TerminalStates
    BY <2>1 DEF isValidTransition, TerminalStates
  <2>3. \A b \in Attempts : Decided(b) => NodeOf[b] # NodeOf[a]
    BY <1>0, <2>2
  <2>4. AuthorizationShadowsResult'
    BY <2>1 DEF AuthorizationShadowsResult
  <2>5. \A b \in Attempts :
          accepted'[b] # NoResult /\ authorizations'[b] = 0 => b = a \/ Decided(b)
    BY <2>1
  <2>6. /\ nodeState'[NodeOf[a]] = accepted'[a].outcome
        /\ nodeVersion'[NodeOf[a]] = accepted'[a].version + 1
    BY <2>1 DEF AuthorizationShadowsResult
  <2>7. CompletionAppliedOnce'
    BY <2>1, <2>3, <2>5, <2>6 DEF CompletionAppliedOnce
  <2>8. OneDecidingAttempt'
    BY <2>3, <2>5, <2>1 DEF OneDecidingAttempt
  <2> QED
    BY <2>4, <2>7, <2>8
<1> QED
  BY <1>1, <1>3, <1>4, <1>5, <1>6
  DEF StoreNext, storeVars, CreateAttempt, ClaimLease, RenewLease, ReleaseLease,
      ReclaimLease, DropLease, Tick

\* The store's invariant holds in every reachable state, whatever the callers do.
THEOREM StoreInvariant == StoreSpec => [](TypeOK /\ StoreInv)
<1>1. StoreInit => TypeOK /\ StoreInv
  <2>1. StoreInit => StoreInv
    BY DEF StoreInit, StoreInv, LeaseRowIsNewest, GenerationsUnique,
           AuthorizationShadowsResult, CompletionAppliedOnce, OneDecidingAttempt,
           NoLease, NoResult
  <2> QED
    BY <2>1, StoreInitTypeOK
<1>2. TypeOK /\ StoreInv /\ [StoreNext]_storeVars => (TypeOK /\ StoreInv)'
  BY TypeOKStep, LeaseInvStep, ResultInvStep DEF StoreInv
<1> QED
  BY <1>1, <1>2, PTL DEF StoreSpec

\* completeAuthorizedResult applies an accepted result exactly once: a spent
\* authorization means the node carries the outcome, and of all the attempts
\* of a node only one has ever decided it.
THEOREM StoreExactlyOnce == StoreSpec => [](CompletionAppliedOnce /\ OneDecidingAttempt)
<1>1. StoreInv => CompletionAppliedOnce /\ OneDecidingAttempt
  BY DEF StoreInv
<1> QED
  BY <1>1, StoreInvariant, PTL

-----------------------------------------------------------------------------
(* Fencing.                                                                *)

\* Fencing: acceptResult honours at most one grant of an attempt, the newest.
THEOREM StoreFencing == StoreSpec => []SingleHonouredGrant
<1>1. TypeOK /\ StoreInv => SingleHonouredGrant
  <2> SUFFICES ASSUME TypeOK, StoreInv, NEW g \in grants, NEW h \in grants,
                      g.attempt = h.attempt, Honoured(g)
               PROVE  (Honoured(h) => g = h) /\ h.generation <= g.generation
    BY DEF SingleHonouredGrant
  <2>1. g.attempt \in Attempts
    BY DEF TypeOK, Grant
  <2>2. /\ leases[g.attempt].generation # 0
        /\ leases[g.attempt].generation = g.generation
    BY DEF Honoured, LeaseValid
  <2>3. g.generation = leaseGeneration[g.attempt]
    BY <2>1, <2>2 DEF StoreInv, LeaseRowIsNewest, NoLease
  <2>4. h.generation <= g.generation
    BY <2>3 DEF StoreInv, LeaseRowIsNewest
  <2>5. Honoured(h) => g = h
    BY <2>2 DEF Honoured, LeaseValid, StoreInv, GenerationsUnique
  <2> QED
    BY <2>4, <2>5
<1> QED
  BY <1>1, StoreInvariant, PTL

\* One step never revives a grant: a renewed lease was live, and a new claim's
\* generation is held by nobody.
LEMMA RevocationStep ==
  ASSUME TypeOK, StoreInv, [StoreNext]_storeVars, NEW g \in grants, ~Honoured(g)
  PROVE  ~Honoured(g)'
<1> USE DEF TypeOK, nodeVars, leaseVars, resultVars
<1>0. /\ g.attempt \in Attempts /\ g.generation \in Nat
      /\ leases[g.attempt] \in Lease /\ leases[g.attempt].expires \in Nat
  BY DEF Grant, Lease
<1>1. ASSUME leases'[g.attempt] = leases[g.attempt], now' \in Nat, now' >= now
      PROVE  ~Honoured(g)'
  BY <1>0, <1>1 DEF Honoured, LeaseValid
<1>2. ASSUME leases'[g.attempt] = NoLease
      PROVE  ~Honoured(g)'
  BY <1>2 DEF Honoured, LeaseValid, NoLease
<1>3. ASSUME NEW a \in Attempts, NEW o \in Owners, NEW t \in 0..now,
             ClaimLease(a, o, t)
      PROVE  ~Honoured(g)'
  <2>1. CASE a = g.attempt
    <3>1. leases'[g.attempt].generation = leaseGeneration[g.attempt] + 1
      BY <1>3, <2>1 DEF ClaimLease
    <3>2. g.generation <= leaseGeneration[g.attempt]
      BY DEF StoreInv, LeaseRowIsNewest
    <3> QED
      BY <1>0, <3>1, <3>2 DEF Honoured, LeaseValid
  <2>2. CASE a # g.attempt
    BY <1>0, <1>1, <1>3, <2>2 DEF ClaimLease
  <2> QED
    BY <2>1, <2>2
<1>4. ASSUME NEW h \in grants, RenewLease(h, now)
      PROVE  ~Honoured(g)'
  <2>0. h.attempt \in Attempts
    BY DEF Grant
  <2>1. CASE h.attempt = g.attempt
    <3>1. /\ leases[g.attempt].expires > now
          /\ leases[g.attempt].generation # 0
          /\ leases' = [leases EXCEPT ![g.attempt] =
                          [leases[g.attempt] EXCEPT !.expires = now + LeaseTTL]]
      BY <1>4, <2>1 DEF RenewLease, PresentsLease
    <3>2. /\ leases'[g.attempt].generation = leases[g.attempt].generation
          /\ leases'[g.attempt].token = leases[g.attempt].token
      BY <1>0, <3>1 DEF Lease
    <3> QED
      BY <3>1, <3>2 DEF Honoured, LeaseValid
  <2>2. CASE h.attempt # g.attempt
    BY <1>0, <1>1, <1>4, <2>0, <2>2 DEF RenewLease
  <2> QED
    BY <2>1, <2>2
<1>5. ASSUME NEW a \in Attempts, DropLease(a)
      PROVE  ~Honoured(g)'
  <2>1. CASE a = g.attempt
    BY <1>0, <1>2, <1>5, <2>1 DEF DropLease
  <2>2. CASE a # g.attempt
    BY <1>0, <1>1, <1>5, <2>2 DEF DropLease
  <2> QED
    BY <2>1, <2>2
<1>6. ASSUME NEW h \in grants, ReleaseLease(h)
      PROVE  ~Honoured(g)'
  BY <1>5, <1>6 DEF ReleaseLease, Grant
<1>7. ASSUME NEW a \in Attempts, NEW t \in 0..now, ReclaimLease(a, t)
      PROVE  ~Honoured(g)'
  BY <1>5, <1>7 DEF ReclaimLease
<1>8. ASSUME Tick
      PROVE  ~Honoured(g)'
  BY <1>1, <1>8 DEF Tick
<1>9. ASSUME UNCHANGED <<leases, now>>
      PROVE  ~Honoured(g)'
  BY <1>1, <1>9
<1> QED
  BY <1>3, <1>4, <1>6, <1>7, <1>8, <1>9
  DEF StoreNext, storeVars, ImportApprovedWork, TransitionNode, CreateAttempt,
      AcceptResult, CompleteAuthorizedResult

\* A grant that acceptResult refuses once is refused for ever.
THEOREM StoreRevocationFinal == StoreSpec => RevocationIsFinal
<1>1. TypeOK /\ StoreInv /\ [StoreNext]_storeVars =>
        [\A g \in grants : ~Honoured(g) => ~Honoured(g)']_storeVars
  BY RevocationStep
<1> QED
  BY <1>1, StoreInvariant, PTL DEF StoreSpec, RevocationIsFinal

-----------------------------------------------------------------------------
(* Results are write-once.                                                 *)

\* An accepted result, and the fact that it has been applied, are permanent.
THEOREM StoreResultsImmutable == StoreSpec => AcceptedResultImmutable
<1>1. TypeOK /\ [StoreNext]_storeVars =>
        [\A a \in Attempts :
           accepted[a] # NoResult =>
             /\ accepted'[a] = accepted[a]
             /\ authorizations[a] = 0 => authorizations'[a] = 0]_storeVars
  <2> SUFFICES ASSUME TypeOK, [StoreNext]_storeVars,
                      NEW a \in Attempts, accepted[a] # NoResult
               PROVE  /\ accepted'[a] = accepted[a]
                      /\ authorizations[a] = 0 => authorizations'[a] = 0
    OBVIOUS
  <2> USE DEF TypeOK, resultVars
  <2>1. ASSUME UNCHANGED resultVars
        PROVE  accepted'[a] = accepted[a] /\ authorizations'[a] = authorizations[a]
    BY <2>1
  <2>2. ASSUME NEW g \in grants, NEW v \in Versions, NEW o \in Outcomes,
               AcceptResult(g, v, o, now)
        PROVE  accepted'[a] = accepted[a] /\ authorizations'[a] = authorizations[a]
    BY <2>2 DEF AcceptResult, Grant
  <2>3. ASSUME NEW b \in Attempts, CompleteAuthorizedResult(b)
        PROVE  /\ accepted'[a] = accepted[a]
               /\ authorizations[a] = 0 => authorizations'[a] = 0
    BY <2>3 DEF CompleteAuthorizedResult
  <2> QED
    BY <2>1, <2>2, <2>3
    DEF StoreNext, storeVars, ImportApprovedWork, TransitionNode, CreateAttempt,
        ClaimLease, RenewLease, ReleaseLease, ReclaimLease, DropLease, Tick
<1> QED
  BY <1>1, StoreTypeCorrect, PTL DEF StoreSpec, AcceptedResultImmutable

-----------------------------------------------------------------------------
(* The store implements the result ledger.                                 *)

\* The refinement mapping, as state functions.
holderBar == [a \in Attempts |-> IF leases[a].expires > now THEN leases[a].generation ELSE 0]
verdictBar == [a \in Attempts |-> accepted[a].outcome]
appliedBar == {a \in Attempts : accepted[a] # NoResult /\ authorizations[a] = 0}

\* An empty database is an empty ledger.
LEMMA LedgerInit == StoreInit => Ledger!Init
BY DEF StoreInit, Ledger!Init, NoLease, NoResult

\* Every method call is a ledger step or invisible to the ledger.
LEMMA LedgerStep ==
  ASSUME TypeOK, StoreInv, [StoreNext]_storeVars
  PROVE  [Ledger!Next]_(Ledger!ledgerVars)
<1> USE DEF TypeOK, nodeVars, leaseVars, resultVars
<1> DEFINE LedgerVarsSame == /\ UNCHANGED <<nodeState, leaseGeneration>>
                             /\ holderBar' = holderBar
                             /\ verdictBar' = verdictBar
                             /\ appliedBar' = appliedBar
<1>0. LedgerVarsSame => UNCHANGED Ledger!ledgerVars
  BY DEF Ledger!ledgerVars, holderBar, verdictBar, appliedBar
<1>1. ASSUME NEW w \in Works, NEW d \in Manifests, ImportApprovedWork(w, d)
      PROVE  \E S \in SUBSET Nodes : Ledger!Open(S)
  <2> DEFINE own == {n \in Nodes : WorkOf[n] = w}
  <2>1. own \in SUBSET Nodes /\ \A n \in own : nodeState[n] = "absent"
    BY <1>1 DEF ImportApprovedWork
  <2>2. nodeState' = [n \in Nodes |-> IF n \in own THEN "pending" ELSE nodeState[n]]
    BY <1>1 DEF ImportApprovedWork
  <2>3. Ledger!Open(own)
    BY <1>1, <2>1, <2>2 DEF ImportApprovedWork, Ledger!Open
  <2> QED
    BY <2>1, <2>3
<1>2. ASSUME NEW n \in Nodes, NEW v \in Versions, NEW s \in NodeStates,
             TransitionNode(n, v, s)
      PROVE  Ledger!Advance(n)
  BY <1>2 DEF TransitionNode, isValidTransition, TerminalStates, Ledger!Advance
<1>3. ASSUME NEW a \in Attempts, NEW m \in Models, CreateAttempt(a, m)
      PROVE  UNCHANGED Ledger!ledgerVars
  BY <1>3 DEF CreateAttempt, Ledger!ledgerVars
<1>4. ASSUME NEW a \in Attempts, NEW o \in Owners, NEW t \in 0..now,
             ClaimLease(a, o, t)
      PROVE  Ledger!GrantEpoch(a)
  <2>1. /\ UNCHANGED <<nodeState, accepted, authorizations, now>>
        /\ leaseGeneration' = [leaseGeneration EXCEPT ![a] = leaseGeneration[a] + 1]
        /\ leases[a] = NoLease
        /\ leases' = [leases EXCEPT ![a] = [generation |-> leaseGeneration[a] + 1,
                                            owner |-> o, token |-> tokens + 1,
                                            expires |-> t + LeaseTTL]]
    BY <1>4 DEF ClaimLease
  <2>2. holderBar[a] = 0
    BY <2>1 DEF holderBar, NoLease
  <2>3. \/ holderBar' = [holderBar EXCEPT ![a] = leaseGeneration[a] + 1]
        \/ holderBar' = holderBar
    <3>1. CASE t + LeaseTTL > now
      BY <2>1, <3>1 DEF holderBar
    <3>2. CASE ~(t + LeaseTTL > now)
      BY <2>1, <2>2, <3>2 DEF holderBar
    <3> QED
      BY <3>1, <3>2
  <2> QED
    BY <2>1, <2>2, <2>3 DEF Ledger!GrantEpoch, holderBar
<1>5. ASSUME NEW g \in grants, RenewLease(g, now)
      PROVE  UNCHANGED Ledger!ledgerVars
  <2>1. g.attempt \in Attempts /\ leases[g.attempt] \in Lease /\ now + LeaseTTL > now
    BY DEF Grant
  <2>2. /\ UNCHANGED <<nodeState, leaseGeneration, accepted, authorizations, now>>
        /\ leases[g.attempt].expires > now
        /\ leases' = [leases EXCEPT ![g.attempt] =
                        [leases[g.attempt] EXCEPT !.expires = now + LeaseTTL]]
    BY <1>5 DEF RenewLease
  <2>3. /\ leases'[g.attempt].generation = leases[g.attempt].generation
        /\ leases'[g.attempt].expires = now + LeaseTTL
    BY <2>1, <2>2 DEF Lease
  <2>4. \A b \in Attempts : b # g.attempt => leases'[b] = leases[b]
    BY <2>2
  <2>5. \A b \in Attempts :
          (IF leases'[b].expires > now' THEN leases'[b].generation ELSE 0)
          = (IF leases[b].expires > now THEN leases[b].generation ELSE 0)
    BY <2>1, <2>2, <2>3, <2>4
  <2>6. holderBar' = holderBar
    BY <2>5 DEF holderBar
  <2> QED
    BY <1>0, <2>2, <2>6 DEF verdictBar, appliedBar
<1>6. ASSUME NEW a \in Attempts, DropLease(a)
      PROVE  \E S \in SUBSET Attempts : Ledger!Revoke(S)
  <2>1. /\ UNCHANGED <<nodeState, leaseGeneration, accepted, authorizations, now>>
        /\ leases' = [leases EXCEPT ![a] = NoLease]
    BY <1>6 DEF DropLease
  <2>2. holderBar' = [b \in Attempts |-> IF b \in {a} THEN 0 ELSE holderBar[b]]
    BY <2>1 DEF holderBar, NoLease
  <2>3. Ledger!Revoke({a})
    BY <2>1, <2>2 DEF Ledger!Revoke, holderBar
  <2> QED
    BY <2>3
<1>7. ASSUME NEW g \in grants, ReleaseLease(g)
      PROVE  \E S \in SUBSET Attempts : Ledger!Revoke(S)
  BY <1>6, <1>7 DEF ReleaseLease, Grant
<1>8. ASSUME NEW a \in Attempts, NEW t \in 0..now, ReclaimLease(a, t)
      PROVE  \E S \in SUBSET Attempts : Ledger!Revoke(S)
  BY <1>6, <1>8 DEF ReclaimLease
<1>9. ASSUME NEW g \in grants, NEW v \in Versions, NEW o \in Outcomes,
             AcceptResult(g, v, o, now)
      PROVE  \E a \in Attempts : Ledger!Decide(a)
  <2> DEFINE a == g.attempt
  <2> DEFINE res == [outcome |-> o, generation |-> g.generation, version |-> v]
  <2>1. a \in Attempts /\ v # 0 /\ o \in {"passed", "failed"}
    BY DEF Grant, Versions, Outcomes
  <2>2. /\ accepted[a] = NoResult
        /\ leases[a].generation # 0 /\ leases[a].expires > now
        /\ accepted' = [accepted EXCEPT ![a] = res]
        /\ authorizations' = [authorizations EXCEPT ![a] = v]
        /\ UNCHANGED <<nodeState, leaseGeneration, leases, now>>
    BY <1>9 DEF AcceptResult, LeaseValid
  <2>3. holderBar[a] # 0 /\ holderBar[a] = leaseGeneration[a] /\ holderBar' = holderBar
    BY <2>1, <2>2 DEF holderBar, StoreInv, LeaseRowIsNewest, NoLease
  <2>4. verdictBar[a] = "none" /\ verdictBar' = [verdictBar EXCEPT ![a] = o]
    <3>1. verdictBar[a] = "none"
      BY <2>1, <2>2 DEF verdictBar, NoResult
    <3>2. \A b \in Attempts : accepted'[b] = IF b = a THEN res ELSE accepted[b]
      BY <2>1, <2>2
    <3>3. \A b \in Attempts : accepted'[b].outcome = IF b = a THEN o ELSE accepted[b].outcome
      BY <3>2
    <3>4. verdictBar' = [verdictBar EXCEPT ![a] = o]
      BY <2>1, <3>3 DEF verdictBar
    <3> QED
      BY <3>1, <3>4
  <2>5. appliedBar' = appliedBar
    BY <2>1, <2>2 DEF appliedBar
  <2>6. Ledger!Decide(a)
    BY <2>1, <2>2, <2>3, <2>4, <2>5 DEF Ledger!Decide, holderBar, verdictBar, appliedBar
  <2> QED
    BY <2>1, <2>6
<1>10. ASSUME NEW a \in Attempts, CompleteAuthorizedResult(a)
       PROVE  Ledger!Apply(a)
  <2>1. /\ authorizations' = [authorizations EXCEPT ![a] = 0]
        /\ UNCHANGED <<accepted, leases, leaseGeneration, now>>
        /\ nodeState' = [nodeState EXCEPT ![NodeOf[a]] = accepted[a].outcome]
        /\ authorizations[a] # 0 /\ accepted[a] # NoResult
        /\ isValidTransition(nodeState[NodeOf[a]], accepted[a].outcome)
    BY <1>10 DEF CompleteAuthorizedResult
  <2>2. accepted[a].outcome # "none"
    BY <2>1 DEF StoreInv, AuthorizationShadowsResult
  <2>3. nodeState[NodeOf[a]] = "in_progress"
    BY <2>1, <2>2 DEF isValidTransition, TerminalStates, Result, Outcomes
  <2>4. a \notin appliedBar /\ appliedBar' = appliedBar \cup {a}
    BY <2>1 DEF appliedBar
  <2> QED
    BY <2>1, <2>2, <2>3, <2>4 DEF Ledger!Apply, holderBar, verdictBar, appliedBar
<1>11. ASSUME Tick
       PROVE  \E S \in SUBSET Attempts : Ledger!Revoke(S)
  <2>1. /\ UNCHANGED <<nodeState, leaseGeneration, leases, accepted, authorizations>>
        /\ now' = now + 1
    BY <1>11 DEF Tick
  <2>2. \A a \in Attempts : leases[a].expires \in Nat
    BY DEF Lease
  <2>3. PICK gone \in SUBSET Attempts :
               gone = {a \in Attempts : ~(leases[a].expires > now + 1)}
    OBVIOUS
  <2>4. holderBar' = [a \in Attempts |-> IF a \in gone THEN 0 ELSE holderBar[a]]
    BY <2>1, <2>2, <2>3 DEF holderBar
  <2>5. Ledger!Revoke(gone)
    BY <2>1, <2>4 DEF Ledger!Revoke, holderBar
  <2> QED
    BY <2>5
<1>12. ASSUME UNCHANGED storeVars
       PROVE  UNCHANGED Ledger!ledgerVars
  BY <1>12 DEF storeVars, Ledger!ledgerVars
<1> QED
  BY <1>1, <1>2, <1>3, <1>4, <1>5, <1>7, <1>8, <1>9, <1>10, <1>11, <1>12
  DEF StoreNext, Ledger!Next

\* The detailed store implements the abstract ledger: hiding time, tokens and
\* rows, it decides each verdict once, by its holder, and applies it once.
THEOREM StoreImplementsLedger == StoreSpec => ImplementsLedger
<1>1. TypeOK /\ StoreInv /\ [StoreNext]_storeVars => [Ledger!Next]_(Ledger!ledgerVars)
  BY LedgerStep
<1> QED
  BY <1>1, LedgerInit, StoreInvariant, PTL DEF StoreSpec, ImplementsLedger, Ledger!Spec
=============================================================================
