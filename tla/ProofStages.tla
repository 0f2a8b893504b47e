---------------------------- MODULE ProofStages -----------------------------
(***************************************************************************)
(* The two proof commands.  Stage 1 (run-stage-1.ts) sends one job through *)
(* the pool and writes a report; Stage 2 (run-stage-2.ts) is gated on the  *)
(* retained Stage 1 report, runs three jobs in two slots, kills one of the *)
(* workers, and writes a report only if exactly that one failed and every  *)
(* resource was removed.  Either command may die at any point.             *)
(*                                                                         *)
(* An attempt is what MinimalPoolRuntime and PiLauncher make of a job,     *)
(* reduced to the outcomes the stages tell apart.  External: Git, the      *)
(* sandbox, the fixture and the preflight's programs; each may fail.       *)
(***************************************************************************)
EXTENDS RetainedReports, Sequences

CONSTANTS
  JobOrder,    \* the attempts of Stage 2 in the order of their submission
  SlotCount,
  MaxStage1,   \* runs of each stage
  MaxStage2

ASSUME StagesAssumption ==
  /\ JobOrder \in Seq(Workers) /\ Len(JobOrder) = 3
  /\ \A a \in Workers : \E k \in 1..3 : JobOrder[k] = a
  /\ SlotCount \in Nat \ {0} /\ MaxStage1 \in Nat /\ MaxStage2 \in Nat

VARIABLES
  s1Pc,        \* where the Stage 1 command is
  s1Run,       \* its number
  s1Report,    \* the report it has built
  s2Pc,        \* where the Stage 2 command is
  s2Run,
  gate,        \* the Stage 1 report runStage2 is bound to
  att,         \* Stage 2 attempt -> "queued", "running", or how its submission ended
  dirty,       \* did the release of an attempt report an error?
  roots        \* do the runtime root and the clones exist?

s1Vars == <<s1Pc, s1Run, s1Report>>
s2Vars == <<s2Pc, s2Run, gate, att, dirty, roots>>
vars == <<reportVars, s1Vars, s2Vars>>

Write(s, report) == candidate' = [candidate EXCEPT ![s] = report]

-----------------------------------------------------------------------------
(* Stage 1                                                                 *)

\* The report of the exception handler, and of an invalid base.
FailedReport == Stage1Report(s1Run, "failed", FALSE)

\* Preflight has passed (a failed one writes a file of its own and exits).
Stage1Start ==
  /\ s1Pc = "idle" /\ s1Run < MaxStage1
  /\ s1Run' = s1Run + 1
  /\ s1Pc' = "baseRed"
  /\ UNCHANGED <<s1Report, s2Vars, reportVars>>

\* The fixture's test has to fail on the base, within its time.
Stage1BaseRed ==
  /\ s1Pc = "baseRed"
  /\ \/ s1Pc' = "submit" /\ UNCHANGED candidate
     \/ s1Pc' = "idle" /\ Write("stage1", FailedReport)
  /\ UNCHANGED <<s1Run, s1Report, s2Vars, retained, manifest, pub, torn>>

\* The reports that can come of a submission: the status the pool answered with,
\* an error being failed, and whether it says that the attempt's workspace and
\* session were removed.
Stage1Results ==
  {Stage1Report(s1Run, status, cleaned) : status \in {"passed", "failed"}, cleaned \in BOOLEAN}

\* The job goes through the pool; the runtime root is removed before anything is
\* written.
Stage1Submit ==
  /\ s1Pc = "submit"
  /\ s1Report' \in Stage1Results
  /\ s1Pc' = "write"
  /\ UNCHANGED <<s1Run, s2Vars, reportVars>>

\* writeValidatedReport; a report that is not valid ends in the handler below.
Stage1Write ==
  /\ s1Pc = "write" /\ validateReport(s1Report)
  /\ Write("stage1", s1Report)
  /\ s1Pc' \in IF s1Report.status = "passed" THEN {"idle", "publish"} ELSE {"idle"}
  /\ UNCHANGED <<s1Run, s1Report, s2Vars, retained, manifest, pub, torn>>

\* The publication goes on as pub["stage1"]; what happens when it fails is there.
Stage1Publish ==
  /\ s1Pc = "publish"
  /\ PublishCheck("stage1", TRUE)
  /\ s1Pc' = "idle"
  /\ UNCHANGED <<s1Run, s1Report, s2Vars>>

\* The handler of exceptions writes a failed report where the candidate is, also
\* when the exception is a refused publication of that candidate (the failure of
\* one that was not refused is part of PublishFails).
Stage1Exception ==
  /\ s1Pc \in {"baseRed", "submit", "write", "publish"}
  /\ s1Pc' = "idle"
  /\ Write("stage1", FailedReport)
  /\ UNCHANGED <<s1Run, s1Report, s2Vars, retained, manifest, pub, torn>>

Stage1Crash ==
  /\ s1Pc # "idle"
  /\ s1Pc' = "idle"
  /\ UNCHANGED <<s1Run, s1Report, s2Vars, reportVars>>

-----------------------------------------------------------------------------
(* Stage 2                                                                 *)

\* Mutant: any valid report opens the gate.
loadAndValidateStage1Report_AnyStatus(report) == validateReport(report)

\* The gate: the report is valid, has passed, and its cleanup was complete.
loadAndValidateStage1Report(report) ==
  /\ validateReport(report)
  /\ report.status = "passed"
  /\ report.cleaned

\* main: the gate comes before preflight and every other effect.
Stage2Start ==
  /\ s2Pc = "idle" /\ s2Run < MaxStage2
  /\ loadAndValidateStage1Report(retained["stage1"])
  /\ s2Run' = s2Run + 1
  /\ s2Pc' = "preflight"
  /\ UNCHANGED <<gate, att, dirty, roots, s1Vars, reportVars>>

\* runStage2 reads the report again, which may have been replaced meanwhile, and
\* binds itself to what it reads.  Then it creates its roots.
Stage2Gate ==
  /\ s2Pc = "preflight"
  /\ loadAndValidateStage1Report(retained["stage1"])
  /\ gate' = retained["stage1"]
  /\ roots' = TRUE
  /\ dirty' = FALSE
  /\ s2Pc' = "setup"
  /\ UNCHANGED <<s2Run, att, s1Vars, reportVars>>

\* Preflight fails, or the gate is closed now.
Stage2Refused ==
  /\ s2Pc = "preflight"
  /\ s2Pc' = "idle"
  /\ UNCHANGED <<s2Run, gate, att, dirty, roots, s1Vars, reportVars>>

\* Clones, store, red base and import are in place: the jobs are submitted.
Stage2Submit ==
  /\ s2Pc = "setup"
  /\ att' = [a \in Workers |-> "queued"]
  /\ s2Pc' = "running"
  /\ UNCHANGED <<s2Run, gate, dirty, roots, s1Vars, reportVars>>

\* cleanup, memoized: store, runtime root and clones.
CleanupStage2(ok) == roots' = ~ok

\* The base is not red, the import is refused, or an exception: all end after
\* cleanup, which keeps its errors to itself.
Stage2Fails ==
  /\ s2Pc = "setup"
  /\ \E ok \in BOOLEAN : CleanupStage2(ok)
  /\ s2Pc' = "idle"
  /\ UNCHANGED <<s2Run, gate, att, dirty, s1Vars, reportVars>>

Ended == {"passed", "failed", "injected", "error"}

\* A free slot takes the oldest job.
StartAttempt ==
  /\ s2Pc = "running"
  /\ Cardinality({a \in Workers : att[a] = "running"}) < SlotCount
  /\ \E k \in DOMAIN JobOrder :
       /\ att[JobOrder[k]] = "queued"
       /\ \A i \in 1..(k - 1) : att[JobOrder[i]] # "queued"
       /\ att' = [att EXCEPT ![JobOrder[k]] = "running"]
  /\ UNCHANGED <<s2Pc, s2Run, gate, dirty, roots, s1Vars, reportVars>>

\* Mutant: every worker that ends by the signal was killed on purpose.
InjectedFailureCode_AnySignal(a, end) == end = "SIGTERM"

\* deriveInjectedFailureCode: the launcher had a directive for this attempt,
\* which it used when the process had just been spawned, and the process ended by that
\* signal.  (The timeout of a launch sends the same one.)
InjectedFailureCode(a, end) == a = Injected /\ end = "SIGTERM"

\* The launched process ends, is verified, and the verdict is stored; or one of
\* these throws and the submission ends with an error.
EndAttempt(a) ==
  /\ s2Pc = "running" /\ att[a] = "running"
  /\ \E end \in {"exit0", "exit1", "SIGTERM", "exception"}, checks \in BOOLEAN :
       att' = [att EXCEPT ![a] =
                 IF end = "exception" THEN "error"
                 ELSE IF end = "exit0" /\ checks THEN "passed"
                 ELSE IF InjectedFailureCode(a, end) THEN "injected" ELSE "failed"]
  /\ \E errors \in BOOLEAN : dirty' = (dirty \/ errors)
  /\ UNCHANGED <<s2Pc, s2Run, gate, roots, s1Vars, reportVars>>

Passed == {a \in Workers : att[a] = "passed"}
Failed == Workers \ Passed

\* Two passed, one failed, by injection, and the verifier's verdicts are the
\* stored ones (validateRawObservations), which an error's are not.
OutcomeProven ==
  /\ Cardinality(Passed) = 2 /\ Cardinality(Failed) = 1
  /\ \A a \in Failed : att[a] = "injected"

\* Once every submission has ended: cleanup, and a report if the outcome is the
\* one wanted and nothing could not be removed.
Stage2Finish ==
  /\ s2Pc = "running"
  /\ \A a \in Workers : att[a] \in Ended
  /\ \E ok \in BOOLEAN :
       /\ CleanupStage2(ok)
       /\ IF OutcomeProven /\ ok /\ ~dirty
          THEN Write("stage2", Stage2Report(s2Run, gate, Failed, TRUE))
          ELSE UNCHANGED candidate
  /\ s2Pc' = "idle"
  /\ UNCHANGED <<s2Run, gate, att, dirty, s1Vars, retained, manifest, pub, torn>>

Stage2Crash ==
  /\ s2Pc # "idle"
  /\ s2Pc' = "idle"
  /\ UNCHANGED <<s2Run, gate, att, dirty, roots, s1Vars, reportVars>>

-----------------------------------------------------------------------------
\* The repository holds a passed Stage 1 report and a Stage 2 report about it.
InitialReports ==
  LET stage1 == Stage1Report(0, "passed", TRUE)
  IN [stage1 |-> stage1, stage2 |-> Stage2Report(0, stage1, {Injected}, TRUE)]

Init ==
  /\ retained = InitialReports
  /\ manifest = InitialReports
  /\ candidate = [s \in Selectors |-> NoReport]
  /\ pub = [s \in Selectors |-> Idle]
  /\ torn = {}
  /\ s1Pc = "idle" /\ s1Run = 0 /\ s1Report = NoReport
  /\ s2Pc = "idle" /\ s2Run = 0 /\ gate = NoReport
  /\ att = [a \in Workers |-> "queued"]
  /\ dirty = FALSE
  /\ roots = FALSE

Stage1Step ==
  \/ Stage1Start \/ Stage1BaseRed \/ Stage1Submit \/ Stage1Write \/ Stage1Publish
  \/ Stage1Exception \/ Stage1Crash
Stage2Step ==
  \/ Stage2Start \/ Stage2Gate \/ Stage2Refused \/ Stage2Submit \/ Stage2Fails \/ StartAttempt
  \/ \E a \in Workers : EndAttempt(a)
  \/ Stage2Finish \/ Stage2Crash

Next == Stage1Step \/ Stage2Step \/ (PublishStep /\ UNCHANGED <<s1Vars, s2Vars>>)

Spec == Init /\ [][Next]_vars

-----------------------------------------------------------------------------
(* Properties.                                                             *)

Stage1Reports ==
  {NoReport, Partial} \cup
    {Stage1Report(n, s, c) : n \in 0..MaxStage1, s \in {"passed", "failed"}, c \in BOOLEAN}

\* The commands and the files have their types; a candidate is always a report
\* that its validator accepts by itself.
ProofTypeOK ==
  /\ {retained["stage1"], manifest["stage1"], candidate["stage1"], s1Report, gate}
       \subseteq Stage1Reports
  /\ candidate["stage1"] # NoReport => validateReport(candidate["stage1"])
  /\ candidate["stage2"] # NoReport => validateStage2Report(candidate["stage2"])
  /\ DOMAIN pub = Selectors /\ torn \subseteq Selectors
  /\ s1Pc \in {"idle", "baseRed", "submit", "write", "publish"}
  /\ s2Pc \in {"idle", "preflight", "setup", "running"}
  /\ s1Run \in 0..MaxStage1 /\ s2Run \in 0..MaxStage2
  /\ att \in [Workers -> Ended \cup {"queued", "running"}]
  /\ {dirty, roots} \subseteq BOOLEAN

\* Retained reports that verify prove both stages: whatever was published, in
\* whichever order, by a command for each file at once and with deaths on the way,
\* the Stage 1 report that the verification accepts has passed.  verifyRetainedReports itself accepts a
\* failed Stage 1 report: what excludes it is that the Stage 2 report beside it
\* names its hash, and that the gate was closed to it.
VerifiedIsProven ==
  verifyRetainedReports =>
    /\ retained["stage1"].status = "passed" /\ retained["stage1"].cleaned
    /\ retained["stage2"].failed = {Injected}

\* A Stage 2 candidate tells the truth: the attempt that failed is the one whose
\* worker was killed on purpose (the report's checks only look at its failure
\* code), and at the end of its run no root, store or attempt was left behind.
Stage2ReportIsTrue ==
  /\ candidate["stage2"] # NoReport => candidate["stage2"].failed = {Injected}
  /\ s2Pc = "idle" /\ candidate["stage2"] # NoReport /\ candidate["stage2"].run = s2Run =>
       ~roots /\ ~dirty

\* Between publications every file has its pinned hash, unless the last one of
\* that file died on the way or overlapped another (two publications each write
\* the whole manifest); the next publication of the file repairs it.
PinsMatch ==
  (\A s \in Selectors : pub[s] = Idle) =>
    \A s \in Selectors \ torn : retained[s] = manifest[s]
=============================================================================
