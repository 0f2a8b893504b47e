------------------------ MODULE PredictedTouchProofs ------------------------
(***************************************************************************)
(* Proofs about direct-task intake and predicted-touch evidence, for any   *)
(* callers, keys, payloads, works, nodes, evidence and policies.           *)
(***************************************************************************)
EXTENDS PredictedTouch, OrchestrationStoreProofs

-----------------------------------------------------------------------------
(* The inductive invariant of the intake.                                  *)

Row == [scope : Callers \X Keys, caller : Callers, payload : Payloads, work : Works]

\* The submission a row or an answer stands for: same work, caller and payload.
Recorded(r) ==
  \E i \in DOMAIN submissions : /\ submissions[i].work = r.work
                                /\ submissions[i].caller = r.caller
                                /\ submissions[i].payload = r.payload

\* The answer a row was written with, and the row an accepted answer rests on.
AnswerOf(q, r) ==
  /\ Accepted(r)
  /\ q.scope = idempotencyScopeKey(r.caller, r.key)
  /\ q.caller = r.caller /\ q.payload = r.payload /\ q.work = r.work

\* One row per scope, written for its caller with a submission and an answer.
RowsBacked ==
  /\ idempotency \subseteq Row
  /\ \A q, r \in idempotency : q.scope = r.scope => q = r
  /\ \A q \in idempotency : /\ q.scope[1] = q.caller
                            /\ Recorded(q)
                            /\ \E r \in answers : AnswerOf(q, r)

\* An accepted answer has a submission and, under a key, the key's row; a
\* refusal for conflict has an acceptance with another payload.
AnswersBacked ==
  /\ answers \subseteq Answer
  /\ \A r \in answers : Accepted(r) =>
       /\ Recorded(r)
       /\ r.key # NoKey => \E q \in idempotency : AnswerOf(q, r)
  /\ \A r \in answers : r.status = 409 =>
       \E s \in answers :
         Accepted(s) /\ s.caller = r.caller /\ s.key = r.key /\ s.payload # r.payload

IntakeInv ==
  /\ submissions \in Seq(Submission)
  /\ RowsBacked
  /\ AnswersBacked

-----------------------------------------------------------------------------
(* The inductive invariant of the decisions.                               *)

DecidedBy(w, e, p) ==
  [blockers |-> Blockers(w, e, p), evidence |-> e, minConfidence |-> p.minConfidence]

\* A work has no serialize rows, or those of evidence it is frozen with.
DecisionsDerived ==
  \A w \in Works :
    \/ decisions[w] = NoDecisions
    \/ \E e \in Evidence, p \in Policies :
         /\ w \notin DirectWorks
         /\ e.approved
         /\ frozen[w] = Provenance(e)
         /\ decisions[w] = DecidedBy(w, e, p)

TouchInv ==
  /\ frozen = [w \in Works |-> frozen[w]] /\ decisions = [w \in Works |-> decisions[w]]
  /\ DecisionsDerived

-----------------------------------------------------------------------------
(* Greatest natural numbers, and what classify returns.                    *)

LEMMA GreatestNat ==
  ASSUME NEW T \in SUBSET Nat, T # {}, NEW n \in Nat, \A x \in T : x < n
  PROVE  Max(T) \in T
<1> DEFINE D == {n - x : x \in T}
<1>1. D \in SUBSET Nat /\ D # {}
  <2>1. \A x \in T : x \in Nat /\ x < n
    OBVIOUS
  <2>2. \A x \in T : n - x \in Nat
    BY <2>1
  <2> QED
    BY <2>2
<1>2. PICK d \in D : \A y \in D : d <= y
  BY <1>1, LeastNat
<1>3. PICK x \in T : d = n - x
  OBVIOUS
<1>4. \A y \in T : x >= y
  <2> SUFFICES ASSUME NEW y \in T PROVE x >= y
    OBVIOUS
  <2>1. d <= n - y
    BY <1>2
  <2> QED
    BY <1>3, <2>1
<1> QED
  BY <1>4 DEF Max

\* A node waits for an earlier node, and does wait if some entry of an earlier
\* node overlaps with its first.
LEMMA ClassifyEarlier ==
  ASSUME NEW list, NEW n \in Nodes, NEW conf
  PROVE  LET c == classify(n, list, conf) IN
         /\ c # NoNode => c \in overlapsWith(n, list, conf) /\ c < n
         /\ (\E m \in overlapsWith(n, list, conf) : m < n) => c # NoNode
<1> DEFINE others == overlapsWith(n, list, conf)
           earlier == {m \in others : m < n}
           c == classify(n, list, conf)
<1>1. c = IF earlier = {} THEN NoNode ELSE Max(earlier)
  BY DEF classify
<1>2. others \subseteq Nodes
  BY DEF overlapsWith
<1> HIDE DEF others
<1>3. earlier \in SUBSET Nat /\ n \in Nat /\ NoNode \notin earlier /\ \A x \in earlier : x < n
  BY <1>2, TouchAssumption
<1>4. earlier # {} => Max(earlier) \in earlier
  <2> HIDE DEF earlier
  <2> QED
    BY <1>3, GreatestNat
<1>5. c # NoNode => c \in others /\ c < n
  BY <1>1, <1>4
<1>6. (\E m \in others : m < n) => c # NoNode
  BY <1>1, <1>3, <1>4
<1> QED
  BY <1>5, <1>6 DEF c, others

-----------------------------------------------------------------------------
(* Intake.                                                                 *)

LEMMA IntakeInitInv == IntakeInit => IntakeInv
<1> SUFFICES ASSUME IntakeInit PROVE IntakeInv
  OBVIOUS
<1>1. submissions = <<>> /\ idempotency = {} /\ answers = {}
  BY DEF IntakeInit
<1> QED
  BY <1>1 DEF IntakeInv, RowsBacked, AnswersBacked

\* The row a replay answers from stands for the request it repeats.
LEMMA ReplayKeepsInv ==
  ASSUME IntakeInv, NEW caller \in Callers, NEW key \in Keys \cup {NoKey},
         NEW payload \in Payloads, replayDirectTask(caller, key, payload)
  PROVE  IntakeInv'
<1>1. PICK q \in Existing(caller, key) :
        \/ /\ <<q.caller, q.payload>> # <<caller, payload>>
           /\ Reply(caller, key, payload, IF q.caller # caller THEN 400 ELSE 409, NoWork)
        \/ /\ <<q.caller, q.payload>> = <<caller, payload>>
           /\ Reply(caller, key, payload, 200, q.work)
  BY DEF replayDirectTask
<1>2. q \in idempotency /\ key # NoKey /\ q.scope = <<caller, key>> /\ key \in Keys
  BY <1>1 DEF Existing, idempotencyScopeKey
<1>3. UNCHANGED <<submissions, idempotency>>
  BY DEF replayDirectTask
<1>4. q.caller = caller /\ Recorded(q) /\ q \in Row
      /\ \E r \in answers : AnswerOf(q, r)
  BY <1>2 DEF IntakeInv, RowsBacked
<1>5. PICK r \in answers : AnswerOf(q, r)
  BY <1>4
<1>6. \E new : /\ answers' = answers \cup {new}
               /\ new.caller = caller /\ new.key = key /\ new.payload = payload
               /\ new \in Answer
               /\ \/ /\ new.status = 409 /\ q.payload # payload
                  \/ /\ new.status = 200 /\ q.payload = payload /\ new.work = q.work
  <2>1. CASE <<q.caller, q.payload>> # <<caller, payload>>
    <3> DEFINE new == [caller |-> caller, key |-> key, payload |-> payload,
                       status |-> 409, work |-> NoWork]
    <3>1. answers' = answers \cup {new} /\ q.payload # payload
      BY <1>1, <1>4, <2>1 DEF Reply
    <3>2. new \in Answer
      BY DEF Answer
    <3> QED
      BY <3>1, <3>2
  <2>2. CASE <<q.caller, q.payload>> = <<caller, payload>>
    <3> DEFINE new == [caller |-> caller, key |-> key, payload |-> payload,
                       status |-> 200, work |-> q.work]
    <3>1. answers' = answers \cup {new} /\ q.payload = payload
      BY <1>1, <2>2 DEF Reply
    <3>2. new \in Answer
      BY <1>4 DEF Answer, Row
    <3> QED
      BY <3>1, <3>2
  <2> QED
    BY <2>1, <2>2
<1>7. PICK new : /\ answers' = answers \cup {new}
                 /\ new.caller = caller /\ new.key = key /\ new.payload = payload
                 /\ new \in Answer
                 /\ \/ /\ new.status = 409 /\ q.payload # payload
                    \/ /\ new.status = 200 /\ q.payload = payload /\ new.work = q.work
  BY <1>6
<1>8. \A x : Recorded(x)' <=> Recorded(x)
  BY <1>3 DEF Recorded
<1>9. RowsBacked'
  BY <1>3, <1>7, <1>8 DEF IntakeInv, RowsBacked
<1>10. ASSUME NEW x \in answers', Accepted(x)
       PROVE  Recorded(x)' /\ (x.key # NoKey => \E y \in idempotency' : AnswerOf(y, x))
  <2>1. CASE x \in answers
    BY <1>3, <1>8, <1>10, <2>1 DEF IntakeInv, AnswersBacked
  <2>2. CASE x = new
    <3>1. q.payload = payload /\ x.work = q.work /\ x.caller = caller /\ x.key = key
          /\ x.payload = payload
      BY <1>7, <1>10, <2>2 DEF Accepted
    <3>2. AnswerOf(q, x)
      BY <1>2, <1>4, <1>10, <3>1 DEF AnswerOf, idempotencyScopeKey
    <3>3. Recorded(x)
      BY <1>4, <3>1 DEF Recorded
    <3> QED
      BY <1>2, <1>3, <1>8, <3>2, <3>3
  <2> QED
    BY <1>7, <2>1, <2>2
<1>11. ASSUME NEW x \in answers', x.status = 409
       PROVE  \E s \in answers' :
                Accepted(s) /\ s.caller = x.caller /\ s.key = x.key /\ s.payload # x.payload
  <2>1. CASE x \in answers
    BY <1>7, <1>11, <2>1 DEF IntakeInv, AnswersBacked
  <2>2. CASE x = new
    <3>1. q.payload # payload
      BY <1>7, <1>11, <2>2
    <3>2. r.caller = caller /\ r.key = key /\ r.payload = q.payload /\ Accepted(r)
      BY <1>2, <1>5 DEF AnswerOf, idempotencyScopeKey
    <3> QED
      BY <1>5, <1>7, <2>2, <3>1, <3>2
  <2> QED
    BY <1>7, <2>1, <2>2
<1>12. AnswersBacked'
  BY <1>7, <1>10, <1>11 DEF IntakeInv, AnswersBacked, Accepted, AnswerOf
<1> QED
  BY <1>3, <1>9, <1>12 DEF IntakeInv

\* A new submission takes its key's scope with it.
LEMMA ImportKeepsInv ==
  ASSUME IntakeInv, NEW caller \in Callers, NEW key \in Keys \cup {NoKey},
         NEW payload \in Payloads, NEW w \in DirectWorks,
         importDirectTask(caller, key, payload, w)
  PROVE  IntakeInv'
<1> DEFINE sub == [work |-> w, caller |-> caller, payload |-> payload]
           new == [caller |-> caller, key |-> key, payload |-> payload,
                   status |-> 202, work |-> w]
           row == [scope |-> <<caller, key>>, caller |-> caller, payload |-> payload,
                   work |-> w]
<1>1. w \in Works /\ sub \in Submission /\ new \in Answer /\ Accepted(new)
  BY DEF DirectWorks, Submission, Answer, Accepted
<1>2. /\ submissions' = Append(submissions, sub)
      /\ answers' = answers \cup {new}
      /\ idempotency' = IF key = NoKey THEN idempotency ELSE idempotency \cup {row}
      /\ Existing(caller, key) = {}
  BY DEF importDirectTask, Reply, idempotencyScopeKey
<1>3. submissions \in Seq(Submission)
  BY DEF IntakeInv
<1>4. /\ submissions' \in Seq(Submission)
      /\ \A i \in DOMAIN submissions : i \in DOMAIN submissions' /\ submissions'[i] = submissions[i]
      /\ \E i \in DOMAIN submissions' : submissions'[i] = sub
  <2>1. submissions' \in Seq(Submission)
    BY <1>1, <1>2, <1>3
  <2>2. \A i \in DOMAIN submissions : i \in DOMAIN submissions' /\ submissions'[i] = submissions[i]
    BY <1>1, <1>2, <1>3
  <2>3. Len(submissions) + 1 \in DOMAIN submissions' /\ submissions'[Len(submissions) + 1] = sub
    BY <1>1, <1>2, <1>3
  <2> QED
    BY <2>1, <2>2, <2>3
<1>5. /\ new.caller = caller /\ new.key = key /\ new.payload = payload /\ new.work = w
      /\ new.status = 202
      /\ row.scope = <<caller, key>> /\ row.caller = caller /\ row.payload = payload
      /\ row.work = w /\ row.scope[1] = caller
      /\ key # NoKey => row \in Row
  BY <1>1 DEF Row
<1>6. sub.work = w /\ sub.caller = caller /\ sub.payload = payload
  OBVIOUS
<1> HIDE DEF sub, new, row
<1>7. \A x : Recorded(x) => Recorded(x)'
  BY <1>4 DEF Recorded
<1>8. Recorded(new)' /\ Recorded(row)'
  BY <1>4, <1>5, <1>6 DEF Recorded
<1>9. AnswerOf(row, new)
  BY <1>1, <1>5 DEF AnswerOf, idempotencyScopeKey
<1>10. idempotency \subseteq idempotency' /\ answers \subseteq answers' /\ new \in answers'
       /\ (key # NoKey => row \in idempotency')
  BY <1>2
<1>11. ASSUME NEW q \in idempotency', q \notin idempotency
       PROVE  q = row /\ key # NoKey
  BY <1>2, <1>11
<1>12. \A q \in idempotency : key # NoKey => q.scope # row.scope
  BY <1>2, <1>5 DEF Existing, idempotencyScopeKey
<1>13. RowsBacked'
  <2>1. idempotency' \subseteq Row
    BY <1>5, <1>11 DEF IntakeInv, RowsBacked
  <2>2. \A q, r \in idempotency' : q.scope = r.scope => q = r
    BY <1>11, <1>12 DEF IntakeInv, RowsBacked
  <2>3. ASSUME NEW q \in idempotency'
        PROVE  /\ q.scope[1] = q.caller
               /\ Recorded(q)'
               /\ \E r \in answers' : AnswerOf(q, r)
    <3>1. CASE q \in idempotency
      BY <1>7, <1>10, <3>1 DEF IntakeInv, RowsBacked
    <3>2. CASE q \notin idempotency
      BY <1>5, <1>8, <1>9, <1>10, <1>11, <3>2
    <3> QED
      BY <3>1, <3>2
  <2> QED
    BY <2>1, <2>2, <2>3 DEF RowsBacked, AnswerOf, Accepted
<1>14. AnswersBacked'
  <2>1. answers' \subseteq Answer
    BY <1>1, <1>2 DEF IntakeInv, AnswersBacked
  <2>2. ASSUME NEW x \in answers', Accepted(x)
        PROVE  Recorded(x)' /\ (x.key # NoKey => \E y \in idempotency' : AnswerOf(y, x))
    <3>1. CASE x \in answers
      BY <1>7, <1>10, <2>2, <3>1 DEF IntakeInv, AnswersBacked
    <3>2. CASE x = new
      BY <1>5, <1>8, <1>9, <1>10, <3>2
    <3> QED
      BY <1>2, <3>1, <3>2
  <2>3. ASSUME NEW x \in answers', x.status = 409
        PROVE  \E s \in answers' :
                 Accepted(s) /\ s.caller = x.caller /\ s.key = x.key /\ s.payload # x.payload
    <3>1. x \in answers
      BY <1>2, <1>5, <2>3
    <3> QED
      BY <1>10, <2>3, <3>1 DEF IntakeInv, AnswersBacked
  <2> QED
    BY <2>1, <2>2, <2>3 DEF AnswersBacked, AnswerOf, Accepted
<1> QED
  BY <1>4, <1>13, <1>14 DEF IntakeInv

LEMMA IntakeUnchanged == IntakeInv /\ UNCHANGED intakeVars => IntakeInv'
BY DEF IntakeInv, RowsBacked, AnswersBacked, intakeVars, Recorded, AnswerOf, Accepted

\* Imports of other works and of evidence leave the intake alone.
LEMMA IntakeInvStep == IntakeInv /\ [Next]_vars => IntakeInv'
<1> SUFFICES ASSUME IntakeInv, [Next]_vars PROVE IntakeInv'
  OBVIOUS
<1>1. CASE IntakeNext
  <2>1. PICK caller \in Callers, key \in Keys \cup {NoKey}, payload \in Payloads :
          handlePost(caller, key, payload)
    BY <1>1 DEF IntakeNext
  <2> QED
    BY <2>1, ReplayKeepsInv, ImportKeepsInv DEF handlePost
<1>2. CASE UNCHANGED intakeVars
  BY <1>2, IntakeUnchanged
<1>3. IntakeNext \/ UNCHANGED intakeVars
  BY DEF Next, importPredictedTouch, ImportMatching, persistSchedulingDecision, vars, intakeVars
<1> QED
  BY <1>1, <1>2, <1>3

LEMMA IntakeInvariant == Spec => []IntakeInv
<1>1. Init => IntakeInv
  BY IntakeInitInv DEF Init
<1> QED
  BY <1>1, IntakeInvStep, PTL DEF Spec

\* Every accepted request of a caller under one key is answered with the same
\* work, however the requests of all callers interleave.
THEOREM KeysNameOneWork == Spec => []KeyNamesOneWork
<1>1. IntakeInv => KeyNamesOneWork
  <2> SUFFICES ASSUME IntakeInv, NEW r \in answers, NEW s \in answers,
                      Accepted(r), Accepted(s), r.key # NoKey, r.key = s.key,
                      r.caller = s.caller
               PROVE  r.work = s.work
    BY DEF KeyNamesOneWork
  <2>1. PICK x \in idempotency : AnswerOf(x, r)
    BY DEF IntakeInv, AnswersBacked
  <2>2. PICK y \in idempotency : AnswerOf(y, s)
    BY DEF IntakeInv, AnswersBacked
  <2>3. x.scope = y.scope
    BY <2>1, <2>2 DEF AnswerOf
  <2> QED
    BY <2>1, <2>2, <2>3 DEF IntakeInv, RowsBacked, AnswerOf
<1> QED
  BY <1>1, IntakeInvariant, PTL

\* Accepted answers name works imported from the request's own payload,
\* conflicts have a cause, and no caller meets another's key.
THEOREM AnswersAreOwnAlways == Spec => []AnswersAreOwn
<1>1. IntakeInv => AnswersAreOwn
  <2> SUFFICES ASSUME IntakeInv PROVE AnswersAreOwn
    OBVIOUS
  <2>1. ASSUME NEW r \in answers, Accepted(r)
        PROVE  \E i \in getDirectTaskSubmission(r.caller, r.work) :
                 submissions[i].payload = r.payload
    BY <2>1 DEF IntakeInv, AnswersBacked, Recorded, getDirectTaskSubmission
  <2>2. ASSUME NEW r \in answers, r.status = 409
        PROVE  \E s \in answers :
                 Accepted(s) /\ s.caller = r.caller /\ s.key = r.key /\ s.payload # r.payload
    BY <2>2 DEF IntakeInv, AnswersBacked
  <2>3. ASSUME NEW r \in answers, NEW q \in idempotency,
               q.scope = idempotencyScopeKey(r.caller, r.key)
        PROVE  q.caller = r.caller
    BY <2>3 DEF IntakeInv, RowsBacked, idempotencyScopeKey
  <2> QED
    BY <2>1, <2>2, <2>3 DEF AnswersAreOwn
<1> QED
  BY <1>1, IntakeInvariant, PTL

-----------------------------------------------------------------------------
(* Predicted touch.                                                        *)

LEMMA TouchInitInv == Init => TouchInv
BY DEF Init, TouchInv, DecisionsDerived

\* Evidence either replaces a work's decisions, under the provenance the work
\* is frozen with, or deletes them.
LEMMA TouchInvStep == TouchInv /\ [Next]_vars => TouchInv'
<1> SUFFICES ASSUME TouchInv, [Next]_vars PROVE TouchInv'
  OBVIOUS
<1>1. ASSUME NEW w \in Works, NEW e \in Evidence, NEW p \in Policies, ImportMatching(w, e, p)
      PROVE  TouchInv'
  <2>1. /\ frozen' = [frozen EXCEPT ![w] = IF @ = <<>> THEN Provenance(e) ELSE @]
        /\ decisions' = [decisions EXCEPT ![w] = DecidedBy(w, e, p)]
        /\ Matches(w, e, p)
    BY <1>1 DEF ImportMatching, DecidedBy
  <2>2. /\ frozen' = [x \in Works |-> frozen'[x]]
        /\ decisions' = [x \in Works |-> decisions'[x]]
        /\ \A x \in Works : x # w => frozen'[x] = frozen[x] /\ decisions'[x] = decisions[x]
        /\ frozen'[w] = IF frozen[w] = <<>> THEN Provenance(e) ELSE frozen[w]
        /\ decisions'[w] = DecidedBy(w, e, p)
    BY <2>1 DEF TouchInv
  <2>3. frozen'[w] = Provenance(e) /\ e.approved /\ w \notin DirectWorks
    BY <2>1, <2>2 DEF Matches
  <2> QED
    BY <2>2, <2>3 DEF TouchInv, DecisionsDerived
<1>2. ASSUME NEW w \in Works, NEW e \in Evidence, NEW p \in Policies,
             persistSchedulingDecision(w, e, p)
      PROVE  TouchInv'
  <2>1. frozen' = frozen /\ decisions' = [decisions EXCEPT ![w] = NoDecisions]
    BY <1>2 DEF persistSchedulingDecision
  <2>2. /\ decisions' = [x \in Works |-> decisions'[x]]
        /\ \A x \in Works : decisions'[x] = IF x = w THEN NoDecisions ELSE decisions[x]
    BY <2>1 DEF TouchInv
  <2> QED
    BY <2>1, <2>2 DEF TouchInv, DecisionsDerived
<1>3. CASE UNCHANGED touchVars
  BY <1>3 DEF touchVars, TouchInv, DecisionsDerived
<1>4. \/ UNCHANGED touchVars
      \/ \E w \in Works, e \in Evidence, p \in Policies : importPredictedTouch(w, e, p)
  BY DEF Next, vars
<1> QED
  BY <1>1, <1>2, <1>3, <1>4 DEF importPredictedTouch

LEMMA TouchInvariant == Spec => []TouchInv
BY TouchInitInv, TouchInvStep, PTL DEF Spec

\* Whatever evidence was imported, in whatever order, a work's nodes never wait
\* for each other in a circle, and a node whose first entry overlaps with an
\* entry of an earlier node waits.
THEOREM OverlapsAreSerialized == Spec => []OverlapsSerialized
<1>1. ASSUME TouchInv PROVE OverlapsSerialized
  <2> SUFFICES ASSUME NEW w \in Works
               PROVE  LET d == decisions[w]
                          list == d.evidence.overlaps IN
                 /\ \A S \in SUBSET Own(w) :
                      S # {} => \E n \in S : \A m \in S : <<n, m>> \notin d.blockers
                 /\ d.evidence # NoEvidence /\ (\A k \in DOMAIN list : list[k].node \in Own(w)) =>
                      \A i, j \in DOMAIN list :
                        /\ isSelf(i, list)
                        /\ list[j].node < list[i].node
                        /\ Overlap(i, j, list, d.minConfidence)
                        => \E m \in Own(w) : <<list[i].node, m>> \in d.blockers
    BY DEF OverlapsSerialized, getSchedulingBlockers
  <2>1. Own(w) \subseteq Nodes /\ Nodes \subseteq Nat /\ NoNode \notin Nodes
    BY TouchAssumption DEF Own
  <2>2. CASE decisions[w] = NoDecisions
    <3>1. decisions[w].blockers = {} /\ decisions[w].evidence = NoEvidence
      BY <2>2 DEF NoDecisions
    <3> QED
      BY <3>1
  <2>3. ASSUME NEW e \in Evidence, NEW p \in Policies, decisions[w] = DecidedBy(w, e, p)
        PROVE  /\ \A S \in SUBSET Own(w) :
                    S # {} => \E n \in S : \A m \in S : <<n, m>> \notin decisions[w].blockers
               /\ (\A k \in DOMAIN e.overlaps : e.overlaps[k].node \in Own(w)) =>
                    \A i, j \in DOMAIN e.overlaps :
                      /\ isSelf(i, e.overlaps)
                      /\ e.overlaps[j].node < e.overlaps[i].node
                      /\ Overlap(i, j, e.overlaps, p.minConfidence)
                      => \E m \in Own(w) : <<e.overlaps[i].node, m>> \in decisions[w].blockers
    <3> DEFINE list == e.overlaps
               conf == p.minConfidence
    <3>1. decisions[w].blockers =
            {r \in Own(w) \X Own(w) : r[2] = classify(r[1], list, conf)}
      BY <2>3 DEF DecidedBy, Blockers
    <3> HIDE DEF list, conf
    <3>2. ASSUME NEW n \in Own(w), NEW m \in Own(w), <<n, m>> \in decisions[w].blockers
          PROVE  m < n
      <4>1. m = classify(n, list, conf)
        BY <3>1, <3>2
      <4>2. m # NoNode /\ n \in Nodes
        BY <2>1
      <4> QED
        BY <4>1, <4>2, ClassifyEarlier
    <3>3. ASSUME NEW S \in SUBSET Own(w), S # {}
          PROVE  \E n \in S : \A m \in S : <<n, m>> \notin decisions[w].blockers
      <4>1. S \in SUBSET Nat
        BY <2>1
      <4>2. PICK n \in S : \A m \in S : n <= m
        BY <3>3, <4>1, LeastNat
      <4>3. \A m \in S : ~(m < n)
        BY <4>1, <4>2
      <4> QED
        BY <3>2, <4>3
    <3>4. ASSUME \A k \in DOMAIN list : list[k].node \in Own(w),
                 NEW i \in DOMAIN list, NEW j \in DOMAIN list, isSelf(i, list),
                 list[j].node < list[i].node, Overlap(i, j, list, conf)
          PROVE  \E m \in Own(w) : <<list[i].node, m>> \in decisions[w].blockers
      <4>1. PICK n, m : n = list[i].node /\ m = list[j].node
        OBVIOUS
      <4>2. n \in Own(w) /\ n \in Nodes /\ m \in Nodes /\ m < n
        BY <2>1, <3>4, <4>1
      <4>3. m # n
        BY <2>1, <4>2
      <4>4. m \in overlapsWith(n, list, conf)
        BY <3>4, <4>1, <4>2, <4>3 DEF overlapsWith
      <4>5. PICK c : c = classify(n, list, conf)
        OBVIOUS
      <4>6. c \in overlapsWith(n, list, conf)
        BY <4>2, <4>4, <4>5, ClassifyEarlier
      <4>7. c \in Own(w)
        BY <3>4, <4>6 DEF overlapsWith
      <4> QED
        BY <3>1, <4>1, <4>2, <4>5, <4>7
    <3> QED
      BY <3>3, <3>4 DEF list, conf
  <2>4. ASSUME NEW e \in Evidence, NEW p \in Policies, decisions[w] = DecidedBy(w, e, p)
        PROVE  decisions[w].evidence = e /\ decisions[w].minConfidence = p.minConfidence
    BY <2>4 DEF DecidedBy
  <2>5. CASE \E e \in Evidence, p \in Policies : decisions[w] = DecidedBy(w, e, p)
    <3>1. PICK e \in Evidence, p \in Policies : decisions[w] = DecidedBy(w, e, p)
      BY <2>5
    <3>2. decisions[w].evidence = e /\ decisions[w].minConfidence = p.minConfidence
      BY <2>4, <3>1
    <3> QED
      BY <2>3, <3>1, <3>2
  <2> QED
    BY <1>1, <2>2, <2>5 DEF TouchInv, DecisionsDerived
<1> QED
  BY <1>1, TouchInvariant, PTL

\* A node waits only on account of evidence with the approval, revision and
\* policy its work was frozen with.
THEOREM SerializedByFrozen == Spec => []SerializedByFrozenEvidence
<1>1. TouchInv => SerializedByFrozenEvidence
  BY DEF TouchInv, DecisionsDerived, SerializedByFrozenEvidence, getSchedulingBlockers,
         NoDecisions, DecidedBy
<1> QED
  BY <1>1, TouchInvariant, PTL
=============================================================================
