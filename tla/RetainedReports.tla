--------------------------- MODULE RetainedReports --------------------------
(***************************************************************************)
(* The retained proof reports: two files and a manifest that pins the hash *)
(* of each (publish-retained-report.ts, verify-retained-reports.ts).  A    *)
(* hash stands for the content it is of.  Commands of several operators    *)
(* may run at once: a publication takes three steps, and may die between   *)
(* two of them.  Publications of the two files overlap; two of one file do *)
(* not, though no lock keeps them apart.  The third retained report, on    *)
(* the sandbox's lifecycle, depends on nothing and is left out.            *)
(***************************************************************************)
EXTENDS Naturals, FiniteSets

CONSTANTS
  Workers,     \* the three attempts of Stage 2
  Injected     \* the one whose worker is killed on purpose

ASSUME ReportsAssumption == Cardinality(Workers) = 3 /\ Injected \in Workers

VARIABLES
  retained,    \* selector -> the report in its file
  manifest,    \* selector -> the report whose hash is pinned
  candidate,   \* selector -> the last candidate written, or NoReport
  pub,         \* selector -> its publication in progress
  torn         \* history: selectors whose last publication died or overlapped another

reportVars == <<retained, manifest, candidate, pub, torn>>

Selectors == {"stage1", "stage2"}

NoReport == [kind |-> "none"]
Partial == [kind |-> "partial"]    \* a file that was being copied
Stage1Report(run, status, cleaned) ==
  [kind |-> "stage1", run |-> run, status |-> status, cleaned |-> cleaned]
\* report_sha256 is the hash of the Stage 1 report the run was gated on.
Stage2Report(run, stage1, failed, cleaned) ==
  [kind |-> "stage2", run |-> run, report_sha256 |-> stage1, failed |-> failed,
   cleaned |-> cleaned]

-----------------------------------------------------------------------------
(* Validation                                                              *)

\* validateReport: a passed report needs complete cleanup (and a commit, green
\* evidence and passed checks, which Stage 1 gives every passed result); a
\* failed report may be valid too.
validateReport(report) ==
  /\ report.kind = "stage1"
  /\ report.status = "passed" => report.cleaned

\* validateStage2Report: one attempt failed, by injection, two passed, and
\* cleanup is complete.
validateStage2Report(report) ==
  /\ report.kind = "stage2"
  /\ Cardinality(report.failed) = 1
  /\ report.cleaned

validateRetainedCandidate(selector, report) ==
  IF selector = "stage1" THEN validateReport(report)
  ELSE /\ validateStage2Report(report)
       /\ report.report_sha256 = retained["stage1"]

\* Every file has its pinned hash and is a valid report.
verifyRetainedReports ==
  \A s \in Selectors :
    /\ retained[s] = manifest[s]
    /\ validateRetainedCandidate(s, retained[s])

-----------------------------------------------------------------------------
(* Publication                                                             *)

Idle == [pc |-> "idle"]
Other(s) == CHOOSE t \in Selectors : t # s

\* The candidate is validated and the manifest read, by the publishing command
\* or by the Stage 1 command itself (inStage1).
PublishCheck(s, inStage1) ==
  /\ pub[s] = Idle
  /\ validateRetainedCandidate(s, candidate[s])
  /\ LET o == Other(s) IN
     /\ pub' = [t \in Selectors |->
                  IF t = s
                  THEN [pc |-> "copy", report |-> candidate[s], manifest |-> manifest,
                        alone |-> pub[o] = Idle, inStage1 |-> inStage1]
                  ELSE IF pub[o] = Idle THEN Idle ELSE [pub[o] EXCEPT !.alone = FALSE]]
     /\ torn' = IF pub[o] = Idle THEN torn ELSE Selectors
  /\ UNCHANGED <<retained, manifest, candidate>>

PublishCopy(s) ==
  /\ pub[s].pc = "copy"
  /\ retained' = [retained EXCEPT ![s] = pub[s].report]
  /\ pub' = [pub EXCEPT ![s].pc = "pin"]
  /\ UNCHANGED <<manifest, candidate, torn>>

\* Mutant: the manifest is written back as it was read.
PublishPin_OldHash(s) ==
  /\ pub[s].pc = "pin"
  /\ manifest' = pub[s].manifest
  /\ torn' = IF pub[s].alone THEN torn \ {s} ELSE torn
  /\ pub' = [pub EXCEPT ![s] = Idle]
  /\ UNCHANGED <<retained, candidate>>

\* The manifest that was read is written with the new hash of this file.
PublishPin(s) ==
  /\ pub[s].pc = "pin"
  /\ manifest' = [pub[s].manifest EXCEPT ![s] = retained[s]]
  /\ torn' = IF pub[s].alone THEN torn \ {s} ELSE torn
  /\ pub' = [pub EXCEPT ![s] = Idle]
  /\ UNCHANGED <<retained, candidate>>

\* The process dies, or a file cannot be written, part of the way.  In the second
\* case the Stage 1 command's handler of exceptions replaces the candidate by a
\* failed report.
PublishFails(s) ==
  /\ pub[s] # Idle
  /\ \/ UNCHANGED retained
     \/ pub[s].pc = "copy" /\ retained' = [retained EXCEPT ![s] = Partial]
  /\ \/ UNCHANGED candidate
     \/ /\ pub[s].inStage1
        /\ candidate' = [candidate EXCEPT ![s] =
                           Stage1Report(pub[s].report.run, "failed", FALSE)]
  /\ torn' = torn \cup {s}
  /\ pub' = [pub EXCEPT ![s] = Idle]
  /\ UNCHANGED manifest

PublishStep ==
  \E s \in Selectors : PublishCheck(s, FALSE) \/ PublishCopy(s) \/ PublishPin(s) \/ PublishFails(s)
=============================================================================
