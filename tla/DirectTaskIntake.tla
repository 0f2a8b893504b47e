-------------------------- MODULE DirectTaskIntake --------------------------
(***************************************************************************)
(* POST /tasks of the composed service: handlePost validates the request,  *)
(* draws a submission id (the work id is derived from it) and calls the    *)
(* store's importDirectTask, one transaction that consults the idempotency *)
(* table and writes the work, its only node, the submission and the        *)
(* idempotency row.  A client may repeat a request any number of times,    *)
(* since the answer to an earlier one may have been lost.                  *)
(*                                                                         *)
(* Requests that fail authentication or validation never reach the store;  *)
(* Payloads are the bodies that pass, up to their payload hash.            *)
(***************************************************************************)
EXTENDS OrchestrationStore, Sequences

CONSTANTS
  Callers,    \* authenticated caller ids
  Keys,       \* idempotency keys
  NoKey,      \* a request without an Idempotency-Key header
  Payloads,   \* payload hashes of valid bodies
  NoWork      \* an answer that names no work

ASSUME IntakeAssumption ==
  /\ NoKey \notin Keys
  /\ NoWork \notin Works

VARIABLES
  submissions,   \* direct_task_submissions, in the order of created_at
  idempotency,   \* direct_task_idempotency joined with its submission
  answers        \* history: the answers given to requests

intakeVars == <<submissions, idempotency, answers>>

Submission == [work : Works, caller : Callers, payload : Payloads]
Answer == [caller : Callers, key : Keys \cup {NoKey}, payload : Payloads,
           status : {200, 202, 400, 409}, work : Works \cup {NoWork}]

-----------------------------------------------------------------------------
\* A direct task is a work with one node, and its id is drawn by handlePost;
\* the other works come from an approved decomposition.
DirectWorks == {w \in Works : Cardinality({n \in Nodes : WorkOf[n] = w}) = 1}

\* Every part is length-prefixed, so the scope determines caller and key.
idempotencyScopeKey(caller, key) == <<caller, key>>

\* The row the request's key was recorded under, if any.
Existing(caller, key) ==
  {r \in idempotency : key # NoKey /\ r.scope = idempotencyScopeKey(caller, key)}

Reply(caller, key, payload, status, work) ==
  answers' = answers \cup {[caller |-> caller, key |-> key, payload |-> payload,
                            status |-> status, work |-> work]}

\* Mutant: the stored payload hash is not compared.
replayDirectTask_AnyPayload(caller, key, payload) ==
  /\ \E r \in Existing(caller, key) : Reply(caller, key, payload, 200, r.work)
  /\ UNCHANGED <<storeVars, submissions, idempotency>>

\* A known key: the first acceptance is replayed, or the request refused.
replayDirectTask(caller, key, payload) ==
  /\ \E r \in Existing(caller, key) :
       \/ /\ <<r.caller, r.payload>> # <<caller, payload>>
          /\ Reply(caller, key, payload, IF r.caller # caller THEN 400 ELSE 409, NoWork)
       \/ /\ <<r.caller, r.payload>> = <<caller, payload>>
          /\ Reply(caller, key, payload, 200, r.work)
  /\ UNCHANGED <<storeVars, submissions, idempotency>>

NoDependencies == [n \in Nodes |-> {}]

\* Mutant: the idempotency row is not written with the submission.
importDirectTask_NoKeyRow(caller, key, payload, w) ==
  /\ Existing(caller, key) = {}
  /\ ImportApprovedWork(w, NoDependencies)
  /\ submissions' = Append(submissions, [work |-> w, caller |-> caller, payload |-> payload])
  /\ Reply(caller, key, payload, 202, w)
  /\ UNCHANGED idempotency

\* A new submission: the work, its node, the submission and, with a key, the
\* idempotency row are written together.
importDirectTask(caller, key, payload, w) ==
  /\ Existing(caller, key) = {}
  /\ ImportApprovedWork(w, NoDependencies)
  /\ submissions' = Append(submissions, [work |-> w, caller |-> caller, payload |-> payload])
  /\ idempotency' =
       IF key = NoKey THEN idempotency
       ELSE idempotency \cup {[scope |-> idempotencyScopeKey(caller, key),
                               caller |-> caller, payload |-> payload, work |-> w]}
  /\ Reply(caller, key, payload, 202, w)

\* A drawn submission id that is already taken is refused by the import, which
\* then writes nothing.
handlePost(caller, key, payload) ==
  \/ replayDirectTask(caller, key, payload)
  \/ \E w \in DirectWorks : importDirectTask(caller, key, payload, w)

\* GET /tasks/{id}: only the caller that submitted a work sees it.
getDirectTaskSubmission(caller, w) ==
  {i \in DOMAIN submissions : submissions[i].caller = caller /\ submissions[i].work = w}

-----------------------------------------------------------------------------
IntakeInit ==
  /\ StoreInit
  /\ submissions = <<>>
  /\ idempotency = {}
  /\ answers = {}

IntakeNext ==
  \E caller \in Callers, key \in Keys \cup {NoKey}, payload \in Payloads :
    handlePost(caller, key, payload)

IntakeSpec == IntakeInit /\ [][IntakeNext]_<<storeVars, intakeVars>>

-----------------------------------------------------------------------------
(* Properties.                                                             *)

Accepted(r) == r.status \in {200, 202}

\* The tables and the answers have their types, and every submission is the
\* only one of its work.
IntakeTypeOK ==
  /\ TypeOK
  /\ submissions \in Seq(Submission)
  /\ answers \subseteq Answer
  /\ \A i, j \in DOMAIN submissions : submissions[i].work = submissions[j].work => i = j

\* importDirectTask's replay branch: whatever was posted in between, every
\* accepted request of a caller under one key is answered with the same work.
KeyNamesOneWork ==
  \A r, s \in answers :
    /\ Accepted(r) /\ Accepted(s)
    /\ r.key # NoKey /\ r.key = s.key /\ r.caller = s.caller
    => r.work = s.work

\* A caller's answers are about its own requests, whatever others post under the
\* same key: an accepted request is answered with a work imported from exactly
\* its payload that its caller can read with GET /tasks/{id}; a conflict has an
\* earlier acceptance of the same caller and key with another payload; and no
\* stored key of another caller stands in its way.
AnswersAreOwn ==
  /\ \A r \in answers :
       /\ Accepted(r) =>
            \E i \in getDirectTaskSubmission(r.caller, r.work) :
              submissions[i].payload = r.payload
       /\ r.status = 409 =>
            \E s \in answers :
              Accepted(s) /\ s.caller = r.caller /\ s.key = r.key /\ s.payload # r.payload
  /\ \A r \in answers, q \in idempotency :
       q.scope = idempotencyScopeKey(r.caller, r.key) => q.caller = r.caller
=============================================================================
