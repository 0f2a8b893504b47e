------------------------- MODULE ProofStagesProofs --------------------------
(***************************************************************************)
(* The retained reports under both proof commands, for any number of runs, *)
(* slots and interleaved publications: what verifies is proven, a Stage 2  *)
(* candidate is true, and the pinned hashes match.                         *)
(***************************************************************************)
EXTENDS ProofStages, FiniteSetTheorems, TLAPS

-----------------------------------------------------------------------------
(* The inductive invariant.                                                *)

Stage2Reports ==
  [kind : {"stage2"}, run : 0..MaxStage2, report_sha256 : Stage1Reports,
   failed : SUBSET Workers, cleaned : BOOLEAN]

\* What the file of a selector may hold.
FileOf(s) == IF s = "stage1" THEN Stage1Reports ELSE {NoReport, Partial} \cup Stage2Reports

AnyFile == FileOf("stage1") \cup FileOf("stage2")
Files == {f \in [Selectors -> AnyFile] : \A s \in Selectors : f[s] \in FileOf(s)}

\* A publication is of a whole report; only the Stage 1 command publishes by itself.
Publication(s) ==
  [pc : {"copy", "pin"}, report : FileOf(s) \ {NoReport, Partial}, manifest : Files,
   alone : BOOLEAN, inStage1 : IF s = "stage1" THEN BOOLEAN ELSE {FALSE}]

FilesOK ==
  /\ retained \in Files /\ manifest \in Files /\ candidate \in Files
  /\ DOMAIN pub = Selectors /\ torn \subseteq Selectors
  /\ \A s \in Selectors : pub[s] = Idle \/ pub[s] \in Publication(s)

CommandsOK ==
  /\ s1Pc \in {"idle", "baseRed", "submit", "write", "publish"}
  /\ s2Pc \in {"idle", "preflight", "setup", "running"}
  /\ s1Run \in 0..MaxStage1 /\ s2Run \in 0..MaxStage2
  /\ s1Report \in Stage1Reports /\ gate \in Stage1Reports
  /\ att \in [Workers -> Ended \cup {"queued", "running"}]
  /\ dirty \in BOOLEAN /\ roots \in BOOLEAN

\* What is written as a candidate was validated or is valid by how it is built.
CandidatesValid ==
  /\ candidate["stage1"] # NoReport => validateReport(candidate["stage1"])
  /\ candidate["stage2"] # NoReport => validateStage2Report(candidate["stage2"])

\* A Stage 2 report, wherever it is, names a Stage 1 report that opened the gate,
\* and the attempt that was to fail.
Earned(report) ==
  report.kind = "stage2" =>
    report.failed = {Injected} /\ loadAndValidateStage1Report(report.report_sha256)

ReportsEarned ==
  /\ Earned(candidate["stage2"]) /\ Earned(retained["stage2"])
  /\ pub["stage2"] # Idle => Earned(pub["stage2"].report)

\* A Stage 2 run beyond its gate is bound to such a report, and only the worker
\* it kills counts as killed.
RunGated ==
  /\ s2Pc \in {"setup", "running"} => loadAndValidateStage1Report(gate)
  /\ \A a \in Workers : att[a] = "injected" => a = Injected

\* The candidate of the present run is its last act.
CandidateOfRun ==
  candidate["stage2"] # NoReport =>
    /\ candidate["stage2"].run <= s2Run
    /\ candidate["stage2"].run = s2Run => s2Pc = "idle" /\ ~roots /\ ~dirty

\* A publication that is alone works on the manifest as it is; one that is not
\* has torn both files.  A whole file that is not being pinned has its hash.
PublicationsOK ==
  /\ \A s \in Selectors : pub[s] # Idle =>
       IF pub[s].alone THEN pub[Other(s)] = Idle /\ pub[s].manifest = manifest
                       ELSE torn = Selectors
  /\ \A s \in Selectors \ torn : pub[s].pc # "pin" => retained[s] = manifest[s]

StagesInv ==
  /\ FilesOK
  /\ CommandsOK
  /\ CandidatesValid
  /\ ReportsEarned
  /\ RunGated
  /\ CandidateOfRun
  /\ PublicationsOK

-----------------------------------------------------------------------------
(* Files and reports.                                                      *)

LEMMA OtherSelector ==
  /\ Other("stage1") = "stage2" /\ Other("stage2") = "stage1"
  /\ \A s \in Selectors : Other(s) \in Selectors /\ Other(s) # s /\ Other(Other(s)) = s
  /\ \A s, t \in Selectors : t # s => t = Other(s)
<1>1. Other("stage1") = "stage2"
  BY DEF Other, Selectors
<1>2. Other("stage2") = "stage1"
  BY DEF Other, Selectors
<1> QED
  BY <1>1, <1>2 DEF Selectors

LEMMA FileRead ==
  ASSUME NEW f \in Files
  PROVE  /\ f["stage1"] \in Stage1Reports
         /\ f["stage2"] \in {NoReport, Partial} \cup Stage2Reports
         /\ f \in [Selectors -> AnyFile]
         /\ \A s \in Selectors : f[s] \in FileOf(s)
BY DEF Files, FileOf, Selectors

LEMMA FileOfAny == \A s \in Selectors : FileOf(s) \subseteq AnyFile
BY DEF AnyFile, Selectors

\* The fields of the reports.
LEMMA ReportFields ==
  /\ NoReport.kind = "none" /\ Partial.kind = "partial"
  /\ \A n, st, c : LET r == Stage1Report(n, st, c) IN
       r.kind = "stage1" /\ r.run = n /\ r.status = st /\ r.cleaned = c
  /\ \A n, g, f, c : LET r == Stage2Report(n, g, f, c) IN
       r.kind = "stage2" /\ r.run = n /\ r.report_sha256 = g /\ r.failed = f /\ r.cleaned = c
BY DEF NoReport, Partial, Stage1Report, Stage2Report

\* Which reports are valid, which open the gate, and which are earned.
LEMMA Stage1Valid ==
  ASSUME NEW n, NEW st, NEW c \in BOOLEAN
  PROVE  /\ (st = "passed" => c = TRUE) => validateReport(Stage1Report(n, st, c))
         /\ (st = "passed" /\ c = TRUE) => loadAndValidateStage1Report(Stage1Report(n, st, c))
BY DEF Stage1Report, validateReport, loadAndValidateStage1Report

LEMMA Stage2Earned ==
  ASSUME NEW n, NEW g, loadAndValidateStage1Report(g)
  PROVE  Earned(Stage2Report(n, g, {Injected}, TRUE))
<1> DEFINE r == Stage2Report(n, g, {Injected}, TRUE)
<1>1. r.failed = {Injected} /\ r.report_sha256 = g
  BY DEF Stage2Report
<1> HIDE DEF r
<1>2. Earned(r)
  BY <1>1 DEF Earned
<1> QED
  BY <1>2 DEF r

LEMMA Stage2Valid ==
  ASSUME NEW n, NEW g
  PROVE  validateStage2Report(Stage2Report(n, g, {Injected}, TRUE))
<1>1. Cardinality({Injected}) = 1
  BY FS_Singleton
<1> QED
  BY <1>1 DEF Stage2Report, validateStage2Report

LEMMA Stage1ReportType ==
  ASSUME NEW n \in 0..MaxStage1, NEW st \in {"passed", "failed"}, NEW c \in BOOLEAN
  PROVE  /\ Stage1Report(n, st, c) \in Stage1Reports
         /\ Stage1Report(n, st, c) # NoReport
BY ReportFields DEF Stage1Reports

LEMMA Stage2ReportType ==
  ASSUME NEW n \in 0..MaxStage2, NEW g \in Stage1Reports, NEW f \in SUBSET Workers,
         NEW c \in BOOLEAN
  PROVE  /\ Stage2Report(n, g, f, c) \in Stage2Reports
         /\ Stage2Report(n, g, f, c) # NoReport
<1>1. Stage2Report(n, g, f, c) \in Stage2Reports
  BY DEF Stage2Report, Stage2Reports
<1> QED
  BY <1>1, ReportFields

\* The publications' memory.
LEMMA PublicationFields ==
  ASSUME NEW s \in Selectors, NEW p \in Publication(s)
  PROVE  /\ p # Idle /\ p.pc \in {"copy", "pin"} /\ p.report \in FileOf(s)
         /\ p.report \notin {NoReport, Partial} /\ (p.inStage1 => s = "stage1")
         /\ p.manifest \in Files /\ p.alone \in BOOLEAN
         /\ [p EXCEPT !.pc = "pin"] \in Publication(s)
         /\ [p EXCEPT !.pc = "pin"].pc = "pin"
         /\ [p EXCEPT !.pc = "pin"].report = p.report
         /\ [p EXCEPT !.pc = "pin"].manifest = p.manifest
         /\ [p EXCEPT !.pc = "pin"].alone = p.alone
         /\ [p EXCEPT !.alone = FALSE] \in Publication(s)
         /\ [p EXCEPT !.alone = FALSE].pc = p.pc
         /\ [p EXCEPT !.alone = FALSE].report = p.report
         /\ [p EXCEPT !.alone = FALSE].alone = FALSE
<1>1. p.pc \in {"copy", "pin"} /\ p.report \in FileOf(s) /\ p.manifest \in Files
      /\ p.alone \in BOOLEAN /\ p.report \notin {NoReport, Partial}
      /\ p.inStage1 \in IF s = "stage1" THEN BOOLEAN ELSE {FALSE}
  BY DEF Publication
<1>2. p # Idle
  BY <1>1 DEF Idle
<1>3. /\ [p EXCEPT !.pc = "pin"] \in Publication(s)
      /\ [p EXCEPT !.pc = "pin"].pc = "pin"
      /\ [p EXCEPT !.pc = "pin"].report = p.report
      /\ [p EXCEPT !.pc = "pin"].manifest = p.manifest
      /\ [p EXCEPT !.pc = "pin"].alone = p.alone
  BY DEF Publication
<1>4. /\ [p EXCEPT !.alone = FALSE] \in Publication(s)
      /\ [p EXCEPT !.alone = FALSE].pc = p.pc
      /\ [p EXCEPT !.alone = FALSE].report = p.report
      /\ [p EXCEPT !.alone = FALSE].alone = FALSE
  BY DEF Publication
<1> QED
  BY <1>1, <1>2, <1>3, <1>4

LEMMA PublicationRead ==
  ASSUME FilesOK, NEW s \in Selectors
  PROVE  /\ pub[s] # Idle => pub[s] \in Publication(s)
         /\ pub[s].pc \in {"copy", "pin"} => pub[s] # Idle
         /\ pub[s] = Idle => pub[s].pc = "idle"
BY DEF FilesOK, Idle

-----------------------------------------------------------------------------
(* The initial state.                                                      *)

LEMMA StagesInit == Init => StagesInv
<1> SUFFICES ASSUME Init PROVE StagesInv
  OBVIOUS
<1> DEFINE stage1 == Stage1Report(0, "passed", TRUE)
<1> DEFINE stage2 == Stage2Report(0, stage1, {Injected}, TRUE)
<1>1. stage1 \in Stage1Reports /\ loadAndValidateStage1Report(stage1)
  <2>1. 0 \in 0..MaxStage1
    BY StagesAssumption
  <2> QED
    BY <2>1, Stage1ReportType, Stage1Valid
<1>2. stage2 \in Stage2Reports /\ Earned(stage2)
  <2>1. 0 \in 0..MaxStage2 /\ {Injected} \in SUBSET Workers
    BY StagesAssumption, ReportsAssumption
  <2> HIDE DEF stage1
  <2> QED
    BY <1>1, <2>1, Stage2ReportType, Stage2Earned
<1>3. /\ InitialReports \in [Selectors -> AnyFile]
      /\ InitialReports["stage1"] = stage1 /\ InitialReports["stage2"] = stage2
  <2>1. stage1 \in FileOf("stage1") /\ stage2 \in FileOf("stage2")
    BY <1>1, <1>2 DEF FileOf
  <2> HIDE DEF stage1, stage2
  <2>2. InitialReports = [stage1 |-> stage1, stage2 |-> stage2]
    BY DEF InitialReports, stage1, stage2
  <2> QED
    BY <2>1, <2>2 DEF Selectors, AnyFile
<1>4. InitialReports \in Files
  BY <1>1, <1>2, <1>3 DEF Files, FileOf, Selectors
<1>5. [s \in Selectors |-> NoReport] \in Files
  <2>1. NoReport \in FileOf("stage1") /\ NoReport \in FileOf("stage2")
    BY DEF FileOf, Stage1Reports
  <2> QED
    BY <2>1 DEF Files, AnyFile, Selectors
<1> HIDE DEF stage1, stage2
<1>6. /\ retained = InitialReports /\ manifest = InitialReports
      /\ \A s \in Selectors : candidate[s] = NoReport /\ pub[s] = Idle
  BY DEF Init
<1>7. FilesOK
  BY <1>4, <1>5 DEF Init, FilesOK
<1>8. CommandsOK
  <2>1. NoReport \in Stage1Reports
    BY DEF Stage1Reports
  <2>2. 0 \in 0..MaxStage1 /\ 0 \in 0..MaxStage2
    BY StagesAssumption
  <2>3. att \in [Workers -> Ended \cup {"queued", "running"}]
    BY DEF Init
  <2> QED
    BY <2>1, <2>2, <2>3 DEF Init, CommandsOK
<1>9. CandidatesValid /\ CandidateOfRun
  BY <1>6 DEF CandidatesValid, CandidateOfRun, Selectors
<1>10. ReportsEarned
  BY <1>2, <1>3, <1>6, ReportFields DEF ReportsEarned, Earned, Selectors
<1>11. RunGated
  BY DEF Init, RunGated
<1>12. PublicationsOK
  BY <1>6 DEF PublicationsOK
<1> QED
  BY <1>7, <1>8, <1>9, <1>10, <1>11, <1>12 DEF StagesInv

-----------------------------------------------------------------------------
(* Stage 1 touches its own candidate only, and publishes it.               *)

\* The conjuncts that are about publications survive what leaves files,
\* publications and the Stage 2 candidate alone.
LEMMA PublicationsKept ==
  ASSUME StagesInv, UNCHANGED <<retained, manifest, pub, torn>>,
         candidate' \in Files, candidate'["stage2"] = candidate["stage2"]
  PROVE  FilesOK' /\ ReportsEarned' /\ PublicationsOK'
<1>1. FilesOK'
  BY DEF StagesInv, FilesOK
<1>2. ReportsEarned'
  BY DEF StagesInv, ReportsEarned
<1>3. PublicationsOK'
  BY DEF StagesInv, PublicationsOK
<1> QED
  BY <1>1, <1>2, <1>3

\* A step of Stage 1 other than its publication writes at most a valid candidate.
LEMMA Stage1Writes ==
  ASSUME StagesInv, Stage1Step, ~Stage1Publish
  PROVE  /\ UNCHANGED <<retained, manifest, pub, torn, s2Vars>>
         /\ candidate' \in Files /\ candidate'["stage2"] = candidate["stage2"]
         /\ candidate'["stage1"] # NoReport => validateReport(candidate'["stage1"])
         /\ s1Pc' \in {"idle", "baseRed", "submit", "write", "publish"}
         /\ s1Run' \in 0..MaxStage1 /\ s1Report' \in Stage1Reports
<1> DEFINE Valid == candidate["stage1"] # NoReport => validateReport(candidate["stage1"])
<1>1. /\ candidate \in Files /\ Valid /\ s1Run \in 0..MaxStage1 /\ s1Report \in Stage1Reports
      /\ s1Pc \in {"idle", "baseRed", "submit", "write", "publish"}
  BY DEF StagesInv, FilesOK, CandidatesValid, CommandsOK
<1>2. MaxStage1 \in Nat
  BY StagesAssumption
<1>3. ASSUME NEW r \in Stage1Reports, validateReport(r), Write("stage1", r)
      PROVE  /\ candidate' \in Files /\ candidate'["stage2"] = candidate["stage2"]
             /\ Valid'
  <2>1. r \in FileOf("stage1")
    BY DEF FileOf
  <2>2. candidate' = [candidate EXCEPT !["stage1"] = r]
    BY <1>3 DEF Write
  <2>3. /\ candidate' \in Files
        /\ \A t \in Selectors : candidate'[t] = IF t = "stage1" THEN r ELSE candidate[t]
    <3>1. candidate \in [Selectors -> AnyFile] /\ r \in AnyFile
          /\ \A t \in Selectors : candidate[t] \in FileOf(t)
      BY <1>1, <2>1, FileRead, FileOfAny DEF Selectors
    <3>2. \A t \in Selectors : candidate'[t] = IF t = "stage1" THEN r ELSE candidate[t]
      BY <2>2, <3>1
    <3>3. candidate' \in [Selectors -> AnyFile]
      BY <2>2, <3>1
    <3> QED
      BY <2>1, <3>1, <3>2, <3>3 DEF Files
  <2>4. candidate'["stage1"] = r /\ candidate'["stage2"] = candidate["stage2"]
    BY <2>3 DEF Selectors
  <2> QED
    BY <1>3, <2>3, <2>4
<1>4. FailedReport \in Stage1Reports /\ validateReport(FailedReport)
  BY <1>1, Stage1ReportType, Stage1Valid DEF FailedReport
<1>5. CASE Stage1Start
  BY <1>1, <1>2, <1>5 DEF Stage1Start, reportVars
<1>6. CASE Stage1BaseRed
  BY <1>1, <1>3, <1>4, <1>6 DEF Stage1BaseRed
<1>7. CASE Stage1Submit
  <2>1. Stage1Results \subseteq Stage1Reports
    BY <1>1, Stage1ReportType DEF Stage1Results
  <2> QED
    BY <1>1, <1>7, <2>1 DEF Stage1Submit, reportVars
<1>8. CASE Stage1Write
  BY <1>1, <1>3, <1>8 DEF Stage1Write
<1>9. CASE Stage1Exception
  BY <1>1, <1>3, <1>4, <1>9 DEF Stage1Exception
<1>10. CASE Stage1Crash
  BY <1>1, <1>10 DEF Stage1Crash, reportVars
<1> QED
  BY <1>5, <1>6, <1>7, <1>8, <1>9, <1>10 DEF Stage1Step

LEMMA Stage1Keeps ==
  ASSUME StagesInv, Stage1Step, ~Stage1Publish
  PROVE  StagesInv'
<1>1. FilesOK' /\ ReportsEarned' /\ PublicationsOK'
  BY Stage1Writes, PublicationsKept
<1>2. UNCHANGED <<s2Pc, s2Run, gate, att, dirty, roots>>
  BY Stage1Writes DEF s2Vars
<1>3. CommandsOK'
  BY <1>2, Stage1Writes DEF StagesInv, CommandsOK
<1>4. CandidatesValid' /\ CandidateOfRun'
  BY <1>2, Stage1Writes DEF StagesInv, CandidatesValid, CandidateOfRun
<1>5. RunGated'
  BY <1>2 DEF StagesInv, RunGated
<1> QED
  BY <1>1, <1>3, <1>4, <1>5 DEF StagesInv

-----------------------------------------------------------------------------
(* Publications.                                                           *)

PubKept == FilesOK /\ ReportsEarned /\ PublicationsOK

\* A publication begins: alone, or tearing both files.
LEMMA CheckKeeps ==
  ASSUME StagesInv, NEW s \in Selectors, NEW i \in IF s = "stage1" THEN BOOLEAN ELSE {FALSE},
         PublishCheck(s, i)
  PROVE  PubKept'
<1> DEFINE o == Other(s)
           new == [pc |-> "copy", report |-> candidate[s], manifest |-> manifest,
                   alone |-> pub[o] = Idle, inStage1 |-> i]
<1>1. o \in Selectors /\ o # s /\ (\A t \in Selectors : t # s => t = o)
      /\ Other(s) = o /\ Other(o) = s
  BY OtherSelector
<1>2. FilesOK /\ PublicationsOK /\ ReportsEarned
  BY DEF StagesInv
<1>3. new \in Publication(s) /\ new.pc = "copy" /\ new.report = candidate[s]
      /\ new.manifest = manifest /\ new.alone = (pub[o] = Idle) /\ new # Idle
  <2>1. candidate[s] \in FileOf(s) \ {NoReport, Partial} /\ manifest \in Files
    <3>1. validateReport(candidate[s]) \/ validateStage2Report(candidate[s])
      BY DEF PublishCheck, validateRetainedCandidate
    <3>2. candidate[s] \notin {NoReport, Partial}
      BY <3>1, ReportFields DEF validateReport, validateStage2Report
    <3> QED
      BY <1>2, <3>2, FileRead DEF FilesOK
  <2>2. new.pc = "copy" /\ new.report = candidate[s] /\ new.manifest = manifest
        /\ new.alone = (pub[o] = Idle)
    OBVIOUS
  <2>3. new \in Publication(s)
    BY <2>1 DEF Publication
  <2> HIDE DEF new
  <2> QED
    BY <2>2, <2>3, PublicationFields
<1>4. /\ DOMAIN pub' = Selectors
      /\ pub'[s] = new
      /\ pub[o] = Idle => pub'[o] = Idle
      /\ pub[o] # Idle => pub'[o] = [pub[o] EXCEPT !.alone = FALSE]
  <2> HIDE DEF o
  <2> USE DEF o
  <2>1. pub' = [t \in Selectors |->
                  IF t = s THEN new
                  ELSE IF pub[o] = Idle THEN Idle ELSE [pub[o] EXCEPT !.alone = FALSE]]
    BY DEF PublishCheck
  <2> HIDE DEF new, o
  <2> QED
    BY <1>1, <2>1
<1>5. /\ retained' = retained /\ manifest' = manifest /\ candidate' = candidate
      /\ pub[s] = Idle /\ torn' = IF pub[o] = Idle THEN torn ELSE Selectors
  BY DEF PublishCheck
<1> HIDE DEF new, o
<1>6. /\ pub[o] # Idle => /\ pub'[o] \in Publication(o) /\ pub'[o].report = pub[o].report
                          /\ pub'[o].alone = FALSE
  <2> SUFFICES ASSUME pub[o] # Idle
               PROVE  /\ pub'[o] \in Publication(o) /\ pub'[o].report = pub[o].report
                      /\ pub'[o].alone = FALSE
    OBVIOUS
  <2>1. pub[o] \in Publication(o)
    BY <1>1, <1>2, PublicationRead
  <2> DEFINE q == [pub[o] EXCEPT !.alone = FALSE]
  <2>2. q \in Publication(o) /\ q.report = pub[o].report /\ q.alone = FALSE
    BY <2>1 DEF Publication
  <2>3. pub'[o] = q
    BY <1>4
  <2> HIDE DEF q
  <2> QED
    BY <2>2, <2>3
<1>7. FilesOK'
  <2>1. \A t \in Selectors : pub'[t] = Idle \/ pub'[t] \in Publication(t)
    BY <1>1, <1>3, <1>4, <1>6
  <2> QED
    BY <1>2, <1>4, <1>5, <2>1 DEF FilesOK
<1>8. ReportsEarned'
  <2>1. pub'["stage2"] # Idle => Earned(pub'["stage2"].report)
    <3>1. CASE s = "stage2"
      BY <1>2, <1>3, <1>4, <3>1 DEF ReportsEarned
    <3>2. CASE s # "stage2"
      <4>1. o = "stage2"
        BY <1>1, <3>2 DEF Selectors
      <4> QED
        BY <1>2, <1>4, <1>6, <4>1 DEF ReportsEarned
    <3> QED
      BY <3>1, <3>2
  <2> QED
    BY <1>2, <1>5, <2>1 DEF ReportsEarned
<1>9. PublicationsOK'
  <2>1. \A t \in Selectors : pub'[t] # Idle =>
          IF pub'[t].alone THEN pub'[Other(t)] = Idle /\ pub'[t].manifest = manifest'
                           ELSE torn' = Selectors
    <3>1. pub'[s] # Idle =>
            IF pub'[s].alone THEN pub'[o] = Idle /\ pub'[s].manifest = manifest'
                             ELSE torn' = Selectors
      BY <1>3, <1>4, <1>5
    <3>2. pub'[o] # Idle => pub'[o].alone = FALSE /\ torn' = Selectors
      BY <1>4, <1>5, <1>6
    <3> QED
      BY <1>1, <3>1, <3>2
  <2>2. \A t \in Selectors \ torn' : pub'[t].pc # "pin" => retained'[t] = manifest'[t]
    <3> SUFFICES ASSUME NEW t \in Selectors \ torn' PROVE retained[t] = manifest[t]
      BY <1>5
    <3>1. pub[o] = Idle /\ t \in Selectors \ torn
      BY <1>5
    <3>2. pub[t].pc # "pin"
      BY <1>1, <1>5, <3>1 DEF Idle
    <3> QED
      BY <1>2, <3>1, <3>2 DEF PublicationsOK
  <2> QED
    BY <2>1, <2>2 DEF PublicationsOK
<1> QED
  BY <1>7, <1>8, <1>9 DEF PubKept

\* The file is replaced; its hash is still the old one.
LEMMA CopyKeeps ==
  ASSUME StagesInv, NEW s \in Selectors, PublishCopy(s)
  PROVE  PubKept'
<1> DEFINE p == pub[s]
           q == [pub[s] EXCEPT !.pc = "pin"]
<1>1. FilesOK /\ PublicationsOK /\ ReportsEarned
  BY DEF StagesInv
<1>2. p \in Publication(s)
  BY <1>1, PublicationRead DEF PublishCopy
<1>3. /\ p # Idle /\ p.report \in FileOf(s) /\ q \in Publication(s) /\ q # Idle /\ q.pc = "pin"
      /\ q.report = p.report /\ q.manifest = p.manifest /\ q.alone = p.alone
  <2> HIDE DEF p
  <2>1. q = [p EXCEPT !.pc = "pin"]
    BY DEF p
  <2> HIDE DEF q
  <2>2. p # Idle /\ p.report \in FileOf(s)
    BY <1>2, PublicationFields
  <2>3. /\ q \in Publication(s) /\ q.pc = "pin"
        /\ q.report = p.report /\ q.manifest = p.manifest /\ q.alone = p.alone
    BY <1>2, <2>1, PublicationFields, Zenon
  <2> QED
    BY <2>2, <2>3, PublicationFields
<1>4. pub' = [pub EXCEPT ![s] = q]
  BY DEF PublishCopy
<1>5. /\ DOMAIN pub' = Selectors /\ \A t \in Selectors : pub'[t] = IF t = s THEN q ELSE pub[t]
  BY <1>1, <1>4 DEF FilesOK
<1>6. retained' = [retained EXCEPT ![s] = p.report]
      /\ UNCHANGED <<manifest, candidate, torn>>
  BY DEF PublishCopy
<1> HIDE DEF q, p
<1>7. retained' \in Files /\ \A t \in Selectors : retained'[t] = IF t = s THEN p.report ELSE retained[t]
  <2> DEFINE r == p.report
  <2>1. retained \in Files /\ r \in FileOf(s) /\ retained' = [retained EXCEPT ![s] = r]
    BY <1>1, <1>3, <1>6 DEF FilesOK
  <2> HIDE DEF r
  <2>2. retained' \in Files /\ \A t \in Selectors : retained'[t] = IF t = s THEN r ELSE retained[t]
    <3>1. retained \in [Selectors -> AnyFile] /\ r \in AnyFile
          /\ \A t \in Selectors : retained[t] \in FileOf(t)
      BY <2>1, FileRead, FileOfAny
    <3>2. \A t \in Selectors : retained'[t] = IF t = s THEN r ELSE retained[t]
      BY <2>1, <3>1
    <3>3. retained' \in [Selectors -> AnyFile]
      BY <2>1, <3>1
    <3> QED
      BY <2>1, <3>1, <3>2, <3>3 DEF Files
  <2> QED
    BY <2>2 DEF r
<1>8. FilesOK'
  BY <1>1, <1>3, <1>5, <1>6, <1>7 DEF FilesOK
<1>9. ReportsEarned'
  BY <1>1, <1>3, <1>5, <1>6, <1>7 DEF ReportsEarned, Selectors, p
<1>10. PublicationsOK'
  <2>1. \A t \in Selectors : pub'[t] # Idle =>
          IF pub'[t].alone THEN pub'[Other(t)] = Idle /\ pub'[t].manifest = manifest'
                           ELSE torn' = Selectors
    <3> SUFFICES ASSUME NEW t \in Selectors, pub'[t] # Idle
                 PROVE  IF pub'[t].alone
                        THEN pub'[Other(t)] = Idle /\ pub'[t].manifest = manifest'
                        ELSE torn' = Selectors
      OBVIOUS
    <3>1. pub[t] # Idle /\ pub'[t].alone = pub[t].alone /\ pub'[t].manifest = pub[t].manifest
      BY <1>3, <1>5 DEF p
    <3>2. IF pub[t].alone THEN pub[Other(t)] = Idle /\ pub[t].manifest = manifest
                          ELSE torn = Selectors
      BY <1>1, <3>1 DEF PublicationsOK
    <3>3. pub[Other(t)] = Idle => pub'[Other(t)] = Idle
      BY <1>3, <1>5, OtherSelector DEF p
    <3> QED
      BY <1>6, <3>1, <3>2, <3>3
  <2>2. \A t \in Selectors \ torn' : pub'[t].pc # "pin" => retained'[t] = manifest'[t]
    BY <1>1, <1>3, <1>5, <1>6, <1>7 DEF PublicationsOK
  <2> QED
    BY <2>1, <2>2 DEF PublicationsOK
<1> QED
  BY <1>8, <1>9, <1>10 DEF PubKept

\* The manifest that was read is written: right if nobody else has published.
LEMMA PinKeeps ==
  ASSUME StagesInv, NEW s \in Selectors, PublishPin(s)
  PROVE  PubKept'
<1> DEFINE o == Other(s)
           m == pub[s].manifest
           r == retained[s]
<1>1. FilesOK /\ PublicationsOK /\ ReportsEarned
  BY DEF StagesInv
<1>2. pub[s] \in Publication(s) /\ pub[s] # Idle
  BY <1>1, PublicationRead DEF PublishPin
<1>3. m \in Files /\ pub[s].alone \in BOOLEAN
  BY <1>2, PublicationFields
<1>4. o \in Selectors /\ o # s /\ (\A t \in Selectors : t # s => t = o)
      /\ Other(s) = o /\ Other(o) = s
  BY OtherSelector
<1>5. /\ UNCHANGED <<retained, candidate>>
      /\ manifest' = [m EXCEPT ![s] = r]
      /\ torn' = IF pub[s].alone THEN torn \ {s} ELSE torn
  BY DEF PublishPin
<1>6. DOMAIN pub' = Selectors /\ \A t \in Selectors : pub'[t] = IF t = s THEN Idle ELSE pub[t]
  BY <1>1 DEF PublishPin, FilesOK
<1> HIDE DEF o, m, r
<1>7. manifest' \in Files /\ \A t \in Selectors : manifest'[t] = IF t = s THEN r ELSE m[t]
  <2>1. m \in [Selectors -> AnyFile] /\ \A t \in Selectors : m[t] \in FileOf(t)
    BY <1>3, FileRead
  <2>2. r \in FileOf(s) /\ r \in AnyFile
    BY <1>1, FileRead, FileOfAny DEF FilesOK, r
  <2>3. \A t \in Selectors : manifest'[t] = IF t = s THEN r ELSE m[t]
    BY <1>5, <2>1
  <2>4. manifest' \in [Selectors -> AnyFile]
    BY <1>5, <2>1, <2>2
  <2> QED
    BY <2>1, <2>2, <2>3, <2>4 DEF Files
<1>8. FilesOK'
  BY <1>1, <1>5, <1>6, <1>7 DEF FilesOK
<1>9. ReportsEarned'
  BY <1>1, <1>5, <1>6 DEF ReportsEarned, Selectors
<1>10. PublicationsOK'
  <2>1. CASE pub[s].alone
    <3>1. pub[o] = Idle /\ m = manifest
      BY <1>1, <1>2, <1>4, <2>1 DEF PublicationsOK, m
    <3>2. \A t \in Selectors : pub'[t] = Idle
      BY <1>4, <1>6, <3>1
    <3>3. o \notin torn => retained[o] = manifest[o]
      BY <1>1, <1>4, <3>1 DEF PublicationsOK, Idle
    <3>4. \A t \in Selectors \ torn' : retained'[t] = manifest'[t]
      BY <1>4, <1>5, <1>7, <2>1, <3>1, <3>3 DEF r
    <3> QED
      BY <3>2, <3>4 DEF PublicationsOK
  <2>2. CASE ~pub[s].alone
    <3>1. torn' = Selectors
      BY <1>1, <1>2, <1>5, <2>2 DEF PublicationsOK
    <3>2. pub[o] # Idle => ~pub[o].alone
      BY <1>1, <1>2, <1>4 DEF PublicationsOK
    <3>3. \A t \in Selectors : pub'[t] # Idle => ~pub'[t].alone
      BY <1>4, <1>6, <3>2
    <3> QED
      BY <3>1, <3>3 DEF PublicationsOK
  <2> QED
    BY <2>1, <2>2
<1> QED
  BY <1>8, <1>9, <1>10 DEF PubKept

\* What the handler of exceptions leaves as the candidate when the publication of
\* the Stage 1 command fails.
LEMMA FailedCandidate ==
  ASSUME StagesInv, NEW s \in Selectors, PublishFails(s)
  PROVE  /\ candidate' \in Files /\ candidate'["stage2"] = candidate["stage2"]
         /\ candidate'["stage1"] # NoReport => validateReport(candidate'["stage1"])
<1> DEFINE n == pub[s].report.run
           r == Stage1Report(n, "failed", FALSE)
<1>1. candidate \in Files /\ (candidate["stage1"] # NoReport => validateReport(candidate["stage1"]))
  BY DEF StagesInv, FilesOK, CandidatesValid
<1>2. CASE UNCHANGED candidate
  BY <1>1, <1>2
<1>3. CASE pub[s].inStage1 /\ candidate' = [candidate EXCEPT ![s] = r]
  <2>1. pub[s] \in Publication(s)
    BY PublicationRead DEF StagesInv, PublishFails
  <2>2. s = "stage1" /\ pub[s].report \in Stage1Reports \ {NoReport, Partial}
    BY <1>3, <2>1, PublicationFields DEF FileOf
  <2>3. n \in 0..MaxStage1
    BY <2>2, ReportFields DEF Stage1Reports
  <2> HIDE DEF n
  <2>4. r \in Stage1Reports /\ validateReport(r)
    BY <2>3, Stage1ReportType, Stage1Valid
  <2> HIDE DEF r
  <2>5. /\ candidate \in [Selectors -> AnyFile] /\ r \in AnyFile /\ r \in FileOf(s)
        /\ \A t \in Selectors : candidate[t] \in FileOf(t)
    BY <1>1, <2>2, <2>4, FileRead, FileOfAny DEF FileOf
  <2>6. \A t \in Selectors : candidate'[t] = IF t = s THEN r ELSE candidate[t]
    BY <1>3, <2>5
  <2>7. candidate' \in [Selectors -> AnyFile]
    BY <1>3, <2>5
  <2>8. candidate' \in Files
    BY <2>5, <2>6, <2>7 DEF Files
  <2> QED
    BY <2>2, <2>4, <2>6, <2>8 DEF Selectors
<1> QED
  BY <1>2, <1>3 DEF PublishFails

\* The publication dies: its file is torn.
LEMMA FailsKeeps ==
  ASSUME StagesInv, NEW s \in Selectors, PublishFails(s)
  PROVE  PubKept'
<1> DEFINE o == Other(s)
<1>1. FilesOK /\ PublicationsOK /\ ReportsEarned
  BY DEF StagesInv
<1>2. pub[s] # Idle
  BY DEF PublishFails
<1>3. o \in Selectors /\ o # s /\ (\A t \in Selectors : t # s => t = o)
      /\ Other(s) = o /\ Other(o) = s
  BY OtherSelector
<1>4. /\ UNCHANGED manifest /\ torn' = torn \cup {s}
      /\ candidate' \in Files /\ candidate'["stage2"] = candidate["stage2"]
  BY FailedCandidate DEF PublishFails
<1>5. DOMAIN pub' = Selectors /\ \A t \in Selectors : pub'[t] = IF t = s THEN Idle ELSE pub[t]
  BY <1>1 DEF PublishFails, FilesOK
<1>6. /\ retained' \in Files
      /\ \A t \in Selectors : t # s => retained'[t] = retained[t]
      /\ retained'[s] \in {retained[s], Partial}
  <2>1. CASE UNCHANGED retained
    BY <1>1, <2>1 DEF FilesOK
  <2>2. CASE retained' = [retained EXCEPT ![s] = Partial]
    <3>1. retained \in [Selectors -> AnyFile] /\ \A t \in Selectors : retained[t] \in FileOf(t)
      BY <1>1, FileRead DEF FilesOK
    <3>2. Partial \in FileOf(s) /\ Partial \in AnyFile
      BY FileOfAny DEF FileOf, Stage1Reports
    <3>3. \A t \in Selectors : retained'[t] = IF t = s THEN Partial ELSE retained[t]
      BY <2>2, <3>1
    <3>4. retained' \in [Selectors -> AnyFile]
      BY <2>2, <3>1, <3>2
    <3> QED
      BY <3>1, <3>2, <3>3, <3>4 DEF Files
  <2> QED
    BY <2>1, <2>2 DEF PublishFails
<1> HIDE DEF o
<1>7. FilesOK'
  BY <1>1, <1>4, <1>5, <1>6 DEF FilesOK
<1>8. ReportsEarned'
  <2>1. Earned(Partial)
    BY ReportFields DEF Earned
  <2>2. Earned(retained'["stage2"])
    BY <1>1, <1>6, <2>1 DEF ReportsEarned, Selectors
  <2> QED
    BY <1>1, <1>4, <1>5, <2>2 DEF ReportsEarned, Selectors
<1>9. PublicationsOK'
  <2>1. pub[o] # Idle => ~pub[o].alone /\ torn = Selectors
    BY <1>1, <1>2, <1>3 DEF PublicationsOK
  <2>2. \A t \in Selectors : pub'[t] # Idle => ~pub'[t].alone /\ torn' = Selectors
    BY <1>3, <1>4, <1>5, <2>1
  <2>3. \A t \in Selectors \ torn' : pub'[t].pc # "pin" => retained'[t] = manifest'[t]
    BY <1>1, <1>3, <1>4, <1>5, <1>6 DEF PublicationsOK
  <2> QED
    BY <2>2, <2>3 DEF PublicationsOK
<1> QED
  BY <1>7, <1>8, <1>9 DEF PubKept

LEMMA PublishKeeps ==
  ASSUME StagesInv, PublishStep \/ PublishCheck("stage1", TRUE),
         UNCHANGED <<s1Run, s1Report, s2Vars>>,
         s1Pc' \in {"idle", "baseRed", "submit", "write", "publish"}
  PROVE  StagesInv'
<1> DEFINE Written == /\ candidate'["stage2"] = candidate["stage2"]
                      /\ candidate'["stage1"] # NoReport => validateReport(candidate'["stage1"])
<1>1. PubKept' /\ Written
  <2>1. candidate["stage1"] # NoReport => validateReport(candidate["stage1"])
    BY DEF StagesInv, CandidatesValid
  <2>2. ASSUME NEW s \in Selectors, NEW i \in IF s = "stage1" THEN BOOLEAN ELSE {FALSE},
               PublishCheck(s, i)
        PROVE  PubKept' /\ Written
    BY <2>1, <2>2, CheckKeeps DEF PublishCheck
  <2>3. ASSUME NEW s \in Selectors, PublishCopy(s) \/ PublishPin(s)
        PROVE  PubKept' /\ Written
    BY <2>1, <2>3, CopyKeeps, PinKeeps DEF PublishCopy, PublishPin
  <2>4. ASSUME NEW s \in Selectors, PublishFails(s)
        PROVE  PubKept' /\ Written
    BY <2>4, FailsKeeps, FailedCandidate
  <2>5. \A s \in Selectors : FALSE \in IF s = "stage1" THEN BOOLEAN ELSE {FALSE}
    OBVIOUS
  <2>6. CASE PublishStep
    BY <2>2, <2>3, <2>4, <2>5, <2>6 DEF PublishStep
  <2>7. CASE PublishCheck("stage1", TRUE)
    BY <2>2, <2>7 DEF Selectors
  <2> QED
    BY <2>6, <2>7
<1>2. UNCHANGED <<s2Pc, s2Run, gate, att, dirty, roots>>
  BY DEF s2Vars
<1>3. CommandsOK' /\ RunGated'
  BY <1>2 DEF StagesInv, CommandsOK, RunGated
<1>4. CandidatesValid' /\ CandidateOfRun'
  BY <1>1, <1>2 DEF StagesInv, CandidatesValid, CandidateOfRun
<1> QED
  BY <1>1, <1>3, <1>4 DEF StagesInv, PubKept

-----------------------------------------------------------------------------
(* Stage 2.                                                                *)

\* If two have passed and the one that has not was killed on purpose, then it is
\* the injected one.
LEMMA ProvenMeansInjected ==
  ASSUME StagesInv, OutcomeProven
  PROVE  Failed = {Injected}
<1>1. Cardinality(Failed) = 1 /\ \A a \in Failed : att[a] = "injected"
  BY DEF OutcomeProven
<1>2. IsFiniteSet(Workers)
  <2> DEFINE jobs == (({} \cup {JobOrder[1]}) \cup {JobOrder[2]}) \cup {JobOrder[3]}
  <2>1. IsFiniteSet(jobs)
    BY FS_EmptySet, FS_AddElement
  <2>2. Workers \subseteq jobs
    BY StagesAssumption
  <2> QED
    BY <2>1, <2>2, FS_Subset
<1>3. IsFiniteSet(Failed)
  BY <1>2, FS_Subset DEF Failed
<1>4. PICK x : Failed = {x}
  BY <1>1, <1>3, FS_Singleton
<1>5. x = Injected
  BY <1>1, <1>4 DEF StagesInv, RunGated, Failed
<1> QED
  BY <1>4, <1>5

\* What Stage 2 leaves alone but for its last step.
LEMMA Stage2Keeps ==
  ASSUME StagesInv, Stage2Step, ~Stage2Finish
  PROVE  StagesInv'
<1>1. UNCHANGED <<retained, manifest, candidate, pub, torn>> /\ UNCHANGED <<s1Pc, s1Run, s1Report>>
  BY DEF Stage2Step, Stage2Start, Stage2Gate, Stage2Refused, Stage2Submit, Stage2Fails,
         StartAttempt, EndAttempt, Stage2Crash, reportVars, s1Vars
<1>2. FilesOK' /\ ReportsEarned' /\ PublicationsOK'
  BY <1>1, PublicationsKept DEF StagesInv, FilesOK
<1>3. CandidatesValid'
  BY <1>1 DEF StagesInv, CandidatesValid
<1>4. /\ CommandsOK /\ RunGated /\ CandidateOfRun /\ retained \in Files
      /\ s2Run \in Nat /\ (candidate["stage2"] # NoReport => candidate["stage2"].run \in Nat)
  <2>1. candidate["stage2"] \in {NoReport, Partial} \cup Stage2Reports
    BY FileRead DEF StagesInv, FilesOK
  <2>2. candidate["stage2"] # NoReport => candidate["stage2"].kind = "stage2"
    BY DEF StagesInv, CandidatesValid, validateStage2Report
  <2>3. candidate["stage2"] # NoReport => candidate["stage2"] \in Stage2Reports
    BY <2>1, <2>2, ReportFields
  <2> QED
    BY <2>3, StagesAssumption DEF StagesInv, FilesOK, CommandsOK, Stage2Reports
<1> SUFFICES CommandsOK' /\ RunGated' /\ CandidateOfRun'
  BY <1>2, <1>3 DEF StagesInv
<1>5. CASE Stage2Start
  <2>1. s2Run' = s2Run + 1 /\ s2Run' \in 0..MaxStage2 /\ s2Pc' = "preflight"
        /\ UNCHANGED <<gate, att, dirty, roots>>
    BY <1>4, <1>5, StagesAssumption DEF Stage2Start
  <2>2. CommandsOK'
    BY <1>1, <1>4, <2>1 DEF CommandsOK
  <2>3. RunGated'
    BY <1>4, <2>1 DEF RunGated
  <2>4. CandidateOfRun'
    BY <1>1, <1>4, <2>1 DEF CandidateOfRun
  <2> QED
    BY <2>2, <2>3, <2>4
<1>6. CASE Stage2Gate
  <2>1. retained["stage1"] \in Stage1Reports
    BY <1>4, FileRead
  <2>2. CommandsOK' /\ RunGated'
    BY <1>1, <1>4, <1>6, <2>1 DEF Stage2Gate, CommandsOK, RunGated
  <2>3. CandidateOfRun'
    BY <1>1, <1>4, <1>6 DEF Stage2Gate, CandidateOfRun
  <2> QED
    BY <2>2, <2>3
<1>7. CASE Stage2Refused
  <2>1. s2Pc = "preflight" /\ s2Pc' = "idle" /\ UNCHANGED <<s2Run, gate, att, dirty, roots>>
    BY <1>7 DEF Stage2Refused
  <2> QED
    BY <1>1, <1>4, <2>1 DEF CommandsOK, RunGated, CandidateOfRun
<1>8. CASE Stage2Submit
  <2>1. s2Pc = "setup" /\ s2Pc' = "running" /\ UNCHANGED <<s2Run, gate, dirty, roots>>
        /\ att' = [a \in Workers |-> "queued"]
    BY <1>8 DEF Stage2Submit
  <2> QED
    BY <1>1, <1>4, <2>1 DEF CommandsOK, RunGated, CandidateOfRun
<1>9. CASE Stage2Fails
  <2>1. s2Pc = "setup" /\ s2Pc' = "idle" /\ UNCHANGED <<s2Run, gate, att, dirty>>
        /\ roots' \in BOOLEAN
    BY <1>9 DEF Stage2Fails, CleanupStage2
  <2> QED
    BY <1>1, <1>4, <2>1 DEF CommandsOK, RunGated, CandidateOfRun
<1>10. CASE StartAttempt
  <2>1. s2Pc = "running" /\ UNCHANGED <<s2Pc, s2Run, gate, dirty, roots>>
    BY <1>10 DEF StartAttempt
  <2>2. PICK k \in DOMAIN JobOrder : att' = [att EXCEPT ![JobOrder[k]] = "running"]
    BY <1>10 DEF StartAttempt
  <2>3. att' \in [Workers -> Ended \cup {"queued", "running"}]
        /\ \A a \in Workers : att'[a] \in {att[a], "running"}
    BY <1>4, <2>2 DEF CommandsOK
  <2> QED
    BY <1>1, <1>4, <2>1, <2>3 DEF CommandsOK, RunGated, CandidateOfRun
<1>11. CASE \E a \in Workers : EndAttempt(a)
  <2>1. PICK a \in Workers : EndAttempt(a)
    BY <1>11
  <2>2. s2Pc = "running" /\ UNCHANGED <<s2Pc, s2Run, gate, roots>> /\ dirty' \in BOOLEAN
    BY <1>4, <2>1 DEF EndAttempt, CommandsOK
  <2>3. PICK how \in Ended : att' = [att EXCEPT ![a] = how]
                             /\ (how = "injected" => a = Injected)
    BY <2>1 DEF EndAttempt, Ended, InjectedFailureCode
  <2>4. att' \in [Workers -> Ended \cup {"queued", "running"}]
        /\ \A b \in Workers : att'[b] = IF b = a THEN how ELSE att[b]
    BY <1>4, <2>3 DEF CommandsOK
  <2> QED
    BY <1>1, <1>4, <2>2, <2>3, <2>4 DEF CommandsOK, RunGated, CandidateOfRun
<1>12. CASE Stage2Crash
  <2>1. s2Pc # "idle" /\ s2Pc' = "idle" /\ UNCHANGED <<s2Run, gate, att, dirty, roots>>
    BY <1>12 DEF Stage2Crash
  <2> QED
    BY <1>1, <1>4, <2>1 DEF CommandsOK, RunGated, CandidateOfRun
<1> QED
  BY <1>5, <1>6, <1>7, <1>8, <1>9, <1>10, <1>11, <1>12 DEF Stage2Step

\* The last step of Stage 2 writes a report only of the outcome that was wanted.
LEMMA FinishKeeps ==
  ASSUME StagesInv, Stage2Finish
  PROVE  StagesInv'
<1> DEFINE r == Stage2Report(s2Run, gate, Failed, TRUE)
<1>1. /\ UNCHANGED <<retained, manifest, pub, torn>> /\ UNCHANGED <<s1Pc, s1Run, s1Report>>
      /\ UNCHANGED <<s2Run, gate, att, dirty>>
      /\ s2Pc = "running" /\ s2Pc' = "idle" /\ roots' \in BOOLEAN
  BY DEF Stage2Finish, CleanupStage2, s1Vars
<1>2. FilesOK /\ CommandsOK /\ RunGated /\ CandidatesValid /\ ReportsEarned /\ CandidateOfRun
      /\ PublicationsOK
  BY DEF StagesInv
<1>3. CommandsOK' /\ RunGated'
  BY <1>1, <1>2 DEF CommandsOK, RunGated
<1>4. CASE candidate' = candidate
  BY <1>1, <1>2, <1>3, <1>4, PublicationsKept
     DEF StagesInv, FilesOK, CandidatesValid, CandidateOfRun
<1>5. CASE OutcomeProven /\ roots' = FALSE /\ ~dirty /\ Write("stage2", r)
  <2>1. Failed = {Injected}
    BY <1>5, ProvenMeansInjected
  <2>2. r \in Stage2Reports /\ r # NoReport /\ r.run = s2Run
    <3>1. s2Run \in 0..MaxStage2 /\ gate \in Stage1Reports /\ Failed \in SUBSET Workers
      BY <1>2 DEF CommandsOK, Failed
    <3>2. r.run = s2Run
      BY DEF Stage2Report
    <3> QED
      BY <3>1, <3>2, Stage2ReportType
  <2>3. Earned(r) /\ validateStage2Report(r)
    BY <1>1, <1>2, <2>1, Stage2Earned, Stage2Valid DEF RunGated
  <2> HIDE DEF r
  <2>4. /\ candidate' \in Files
        /\ candidate'["stage1"] = candidate["stage1"] /\ candidate'["stage2"] = r
    <3>1. candidate \in [Selectors -> AnyFile] /\ \A t \in Selectors : candidate[t] \in FileOf(t)
      BY <1>2, FileRead DEF FilesOK
    <3>2. r \in FileOf("stage2") /\ r \in AnyFile
      BY <2>2 DEF FileOf, AnyFile
    <3>3. candidate' = [candidate EXCEPT !["stage2"] = r]
      BY <1>5 DEF Write
    <3>4. \A t \in Selectors : candidate'[t] = IF t = "stage2" THEN r ELSE candidate[t]
      BY <3>1, <3>3
    <3>5. candidate' \in [Selectors -> AnyFile]
      BY <3>1, <3>2, <3>3
    <3>6. candidate' \in Files
      BY <3>1, <3>2, <3>4, <3>5 DEF Files
    <3> QED
      BY <3>4, <3>6 DEF Selectors
  <2>5. FilesOK'
    BY <1>1, <1>2, <2>4 DEF FilesOK
  <2>6. ReportsEarned'
    BY <1>1, <1>2, <2>3, <2>4 DEF ReportsEarned
  <2>7. PublicationsOK'
    BY <1>1, <1>2 DEF PublicationsOK
  <2>8. CandidatesValid'
    BY <1>2, <2>3, <2>4 DEF CandidatesValid
  <2>9. CandidateOfRun'
    <3>1. s2Run \in Nat
      BY <1>2, StagesAssumption DEF CommandsOK
    <3> QED
      BY <1>1, <1>5, <2>2, <2>4, <3>1 DEF CandidateOfRun
  <2> QED
    BY <1>3, <2>5, <2>6, <2>7, <2>8, <2>9 DEF StagesInv
<1> QED
  BY <1>4, <1>5 DEF Stage2Finish, CleanupStage2

-----------------------------------------------------------------------------
(* The theorems.                                                           *)

LEMMA StagesStep == StagesInv /\ [Next]_vars => StagesInv'
<1> SUFFICES ASSUME StagesInv, [Next]_vars PROVE StagesInv'
  OBVIOUS
<1>1. CASE UNCHANGED vars
  BY <1>1 DEF vars, reportVars, s1Vars, s2Vars, StagesInv, FilesOK, CommandsOK, CandidatesValid,
              ReportsEarned, RunGated, CandidateOfRun, PublicationsOK
<1>2. CASE Stage1Publish
  <2>1. PublishCheck("stage1", TRUE) /\ UNCHANGED <<s1Run, s1Report, s2Vars>> /\ s1Pc' = "idle"
    BY <1>2 DEF Stage1Publish
  <2> QED
    BY <2>1, PublishKeeps
<1>3. CASE PublishStep /\ UNCHANGED <<s1Vars, s2Vars>>
  <2>1. UNCHANGED <<s1Pc, s1Run, s1Report, s2Vars>>
    BY <1>3 DEF s1Vars
  <2> QED
    BY <1>3, <2>1, PublishKeeps DEF StagesInv, CommandsOK
<1> QED
  BY <1>1, <1>2, <1>3, Stage1Keeps, Stage2Keeps, FinishKeeps DEF Next

LEMMA StagesInvariant == Spec => []StagesInv
BY StagesInit, StagesStep, PTL DEF Spec

\* Retained reports that verifyRetainedReports accepts prove both stages, whatever
\* was published, in whichever order, by a command for each file at once and with
\* deaths on the way.
THEOREM VerifiedReportsProven == Spec => []VerifiedIsProven
<1>1. StagesInv => VerifiedIsProven
  <2> SUFFICES ASSUME StagesInv, verifyRetainedReports
               PROVE  /\ retained["stage1"].status = "passed" /\ retained["stage1"].cleaned
                      /\ retained["stage2"].failed = {Injected}
    BY DEF VerifiedIsProven
  <2>1. retained["stage2"].kind = "stage2" /\ retained["stage2"].report_sha256 = retained["stage1"]
    BY DEF verifyRetainedReports, validateRetainedCandidate, validateStage2Report, Selectors
  <2>2. Earned(retained["stage2"])
    BY DEF StagesInv, ReportsEarned
  <2> QED
    BY <2>1, <2>2 DEF Earned, loadAndValidateStage1Report
<1> QED
  BY <1>1, StagesInvariant, PTL

\* A Stage 2 candidate names the attempt that was killed on purpose, and its run
\* has left nothing behind.
THEOREM Stage2CandidatesTrue == Spec => []Stage2ReportIsTrue
<1>1. StagesInv => Stage2ReportIsTrue
  BY DEF StagesInv, CandidatesValid, validateStage2Report, ReportsEarned, Earned, CandidateOfRun,
         Stage2ReportIsTrue
<1> QED
  BY <1>1, StagesInvariant, PTL

\* Between publications, every file that is not torn has its pinned hash.
THEOREM PinnedHashesMatch == Spec => []PinsMatch
<1>1. StagesInv => PinsMatch
  BY DEF StagesInv, PublicationsOK, PinsMatch, Idle
<1> QED
  BY <1>1, StagesInvariant, PTL

\* Commands and files keep their types, and a candidate is always a report that
\* its validator accepts by itself.
THEOREM StagesTypeCorrect == Spec => []ProofTypeOK
<1>1. StagesInv => ProofTypeOK
  <2> SUFFICES ASSUME StagesInv PROVE ProofTypeOK
    OBVIOUS
  <2>1. retained["stage1"] \in Stage1Reports /\ manifest["stage1"] \in Stage1Reports
        /\ candidate["stage1"] \in Stage1Reports
    BY FileRead DEF StagesInv, FilesOK
  <2> QED
    BY <2>1 DEF StagesInv, FilesOK, CommandsOK, CandidatesValid, ProofTypeOK
<1> QED
  BY <1>1, StagesInvariant, PTL
=============================================================================
