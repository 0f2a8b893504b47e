---------------------------- MODULE Decomposition ----------------------------
(* runDecomposition (work-intake/decomposition-harness.ts) over the index     *)
(* cache: a job is validated, a model is chosen for it, the breadth of its    *)
(* index revision is retrieved, and the model is asked for a candidate, with  *)
(* at most one repair, all under one deadline.  The retriever and the model   *)
(* may answer, fail or hang; a cache build may run beside it at any time.     *)
EXTENDS IndexCache

CONSTANTS
  Revisions,    \* the index revisions jobs name
  Candidates,   \* the decomposition role's models in the policy: primary, fallbacks
  NoModel       \* no explicit model; no model

ASSUME RevisionsAssumption == Revisions \subseteq Keys

VARIABLES
  job,          \* the position and the local variables of runDecomposition
  retrieval,    \* the position and the local variables of the retriever's call
  calls,        \* how often the model was called
  inFlight,     \* a call of the model is running and has not been aborted
  emitted       \* the records given to onRecord

jobVars == <<job, retrieval, calls, inFlight, emitted>>
vars == <<cacheVars, jobVars>>

Models == Range(Candidates)
Calling == {"initial", "repair"}
NoRetrieval == [pc |-> "idle"]
Waiting(pc) == job.pc = pc
OnlyJob == UNCHANGED cacheVars

\* runDecomposition returns; a retriever that still runs is not listened to.
Return(value) == job' = value /\ retrieval' = NoRetrieval
Reject == Return([pc |-> "returned", outcome |-> "refused"])

-----------------------------------------------------------------------------
(* Routing: the explicit model if it is available, else the first candidate  *)
(* of the role that is.                                                      *)

selectForRole(availability, explicit) ==
  IF explicit # NoModel
    THEN IF explicit \in availability THEN explicit ELSE NoModel
    ELSE LET usable == SelectSeq(Candidates, LAMBDA m : m \in availability) IN
         IF usable = <<>> THEN NoModel ELSE Head(usable)

\* validateJob: the job's head must be the head of its index revision (what the
\* other fields and their sizes must satisfy is refused the same way).
RefuseJob ==
  /\ Waiting("idle")
  /\ Reject
  /\ UNCHANGED <<calls, inFlight, emitted>> /\ OnlyJob

\* The deadline is set and the retriever is called.  The revision is well formed;
\* whether a build has ever published it is the retriever's concern.
StartJob(revision, head, availability, explicit) ==
  /\ Waiting("idle")
  /\ head = revision.head
  /\ selectForRole(availability, explicit) # NoModel
  /\ job' = [pc |-> "retrieve", revision |-> revision]
  /\ retrieval' = [pc |-> "record"]
  /\ UNCHANGED <<calls, inFlight, emitted>> /\ OnlyJob

-----------------------------------------------------------------------------
(* The retriever: breadthRetrieval for the job's revision or, since the      *)
(* harness does not trust it, for any other one.  What it still reads after  *)
(* the deadline, nobody takes.                                               *)

\* readCache reads the record, which must be of the key and not too old (any
\* record may be: time is not modelled).
readRecord(k) ==
  /\ retrieval.pc = "record"
  /\ \/ \E r \in recordPath(k) : retrieval' = [pc |-> "verify", record |-> r]
     \/ retrieval' = [pc |-> "failed"]
  /\ UNCHANGED <<job, calls, inFlight, emitted>> /\ OnlyJob

\* readCache reads the blob and compares its digest.
verifyBlob ==
  /\ retrieval.pc = "verify"
  /\ retrieval' = IF blobs[retrieval.record.key] = retrieval.record.digest
                    THEN [retrieval EXCEPT !.pc = "load"]
                    ELSE [pc |-> "failed"]
  /\ UNCHANGED <<job, calls, inFlight, emitted>> /\ OnlyJob

\* breadthRetrieval reads the blob once more for its graph.
loadGraph ==
  /\ retrieval.pc = "load"
  /\ retrieval' =
       IF blobs[retrieval.record.key] = NoBlob THEN [pc |-> "failed"]
       ELSE [pc |-> "answered", revision |-> retrieval.record.key,
             graph |-> blobs[retrieval.record.key]]
  /\ UNCHANGED <<job, calls, inFlight, emitted>> /\ OnlyJob

-----------------------------------------------------------------------------
(* The job.                                                                  *)

Emit(kind) == emitted' = Append(emitted, kind)

\* invokeWithDeadline: the model is called, unless the deadline has passed by
\* then; the call that was not made is recorded like one that failed.
Invoke(phase, record) ==
  \/ /\ job' = [job EXCEPT !.pc = phase]
     /\ UNCHANGED retrieval
     /\ calls' = calls + 1
     /\ inFlight' = TRUE
     /\ emitted' = record
  \/ /\ Reject
     /\ inFlight' = FALSE
     /\ emitted' = Append(record, phase)
     /\ UNCHANGED calls

RefuseBreadth ==
  /\ Reject
  /\ UNCHANGED <<calls, inFlight, emitted>>

\* The breadth must be of the job's revision; breadth or prompt may be too long.
TakeBreadth ==
  /\ Waiting("retrieve") /\ retrieval.pc = "answered"
  /\ \/ retrieval.revision = job.revision /\ Invoke("initial", emitted)
     \/ RefuseBreadth
  /\ OnlyJob

RetrievalFailed ==
  /\ Waiting("retrieve") /\ retrieval.pc = "failed"
  /\ RefuseBreadth
  /\ OnlyJob

\* Mutant: only the model's calls have a timer.
TimeOut_OnlyCalls ==
  /\ job.pc \in Calling
  /\ Reject
  /\ emitted' = Append(emitted, job.pc)
  /\ inFlight' = FALSE
  /\ UNCHANGED calls /\ OnlyJob

\* withDeadline's timer: what was awaited is aborted and its answer dropped.
TimeOut ==
  /\ job.pc \in {"retrieve"} \cup Calling
  /\ Reject
  /\ emitted' = IF job.pc = "retrieve" THEN emitted ELSE Append(emitted, job.pc)
  /\ inFlight' = FALSE
  /\ UNCHANGED calls /\ OnlyJob

\* A response that validateCandidate accepts.
Accept ==
  /\ job.pc \in Calling
  /\ Return([pc |-> "returned", outcome |-> "candidate", revision |-> job.revision,
             graph |-> retrieval.graph])
  /\ Emit(job.pc) /\ inFlight' = FALSE
  /\ UNCHANGED calls /\ OnlyJob

\* An error of the provider, a response too long or with too many nodes and, in
\* the repair, any response that is not a candidate.
CallFailed ==
  /\ job.pc \in Calling
  /\ Reject
  /\ Emit(job.pc) /\ inFlight' = FALSE
  /\ UNCHANGED calls /\ OnlyJob

\* Mutant: the repair is asked for before the first call is recorded.
Repair_Unrecorded ==
  /\ Waiting("initial")
  /\ Invoke("repair", emitted)
  /\ OnlyJob

\* A first response that is not JSON, or not a candidate: the call is recorded,
\* and the one repair is asked for.
Repair ==
  /\ Waiting("initial")
  /\ Invoke("repair", Append(emitted, "initial"))
  /\ OnlyJob

\* Its prompt or its diagnostics are too long: the first call is recorded again.
RepairTooLong ==
  /\ Waiting("initial")
  /\ Reject
  /\ emitted' = Append(Append(emitted, "initial"), "initial")
  /\ inFlight' = FALSE
  /\ UNCHANGED calls /\ OnlyJob

-----------------------------------------------------------------------------
Init ==
  /\ CacheInit
  /\ job = [pc |-> "idle"]
  /\ retrieval = NoRetrieval
  /\ calls = 0
  /\ inFlight = FALSE
  /\ emitted = <<>>

JobStep ==
  \/ RefuseJob
  \/ \E revision \in Revisions, head \in Heads, availability \in SUBSET Models,
        explicit \in Models \cup {NoModel} : StartJob(revision, head, availability, explicit)
  \/ \E k \in Keys : readRecord(k)
  \/ verifyBlob \/ loadGraph
  \/ TakeBreadth \/ RetrievalFailed \/ TimeOut
  \/ Accept \/ CallFailed \/ Repair \/ RepairTooLong

\* Nothing a job does once the retriever has read the cache depends on it, and
\* it writes nothing there: the steps the cache takes from then on are left out.
CacheMatters == job.pc = "idle" \/ retrieval.pc \in {"record", "verify", "load"}

Next ==
  \/ CacheMatters /\ CacheNext /\ UNCHANGED jobVars
  \/ JobStep

\* Timers fire; neither the retriever, nor the model, nor a build ever needs to
\* take another step.
Fairness == WF_vars(TimeOut)

Spec == Init /\ [][Next]_vars /\ Fairness

-----------------------------------------------------------------------------
(* Properties.                                                               *)

\* A candidate was made with a graph of exactly the files its job's revision
\* names, although the repository may change in the middle of a build, builds
\* overwrite and evict each other's files, and breadthRetrieval reads the blob
\* again after its digest was checked.
CandidateFromOwnIndex ==
  job.pc = "returned" /\ job.outcome = "candidate" => job.graph.tree = job.revision.tree

\* When a job has returned, however it did, the model was called twice at most,
\* each call that was made has its record, and each has answered or been aborted
\* (a provider that ignores the signal of an abort may still compute).
CallsAccountedFor ==
  job.pc = "returned" =>
    /\ calls <= 2
    /\ calls >= 1 => emitted # <<>> /\ Head(emitted) = "initial"
    /\ calls = 2 => Last(emitted) = "repair"
    /\ ~inFlight

\* A job that was started returns, though the retriever or the model hang.
JobReturns == job.pc # "idle" ~> job.pc = "returned"
=============================================================================
