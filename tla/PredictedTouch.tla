--------------------------- MODULE PredictedTouch ---------------------------
(***************************************************************************)
(* Predicted-touch evidence beside the intake: a decomposed work that was  *)
(* imported may be given evidence on which of its nodes are likely to      *)
(* touch the same units.  The injected policy serializes confident         *)
(* overlaps; evidence of another approval, graph revision or policy than   *)
(* the work's falls back to no serialization.  Evidence may be imported    *)
(* any number of times, and each import replaces the work's decisions.     *)
(*                                                                         *)
(* Units and shared surfaces are two disjoint kinds of things touched.     *)
(* Node ids are numbers, because only their order matters.  The entries of *)
(* an evidence are a list, in which nothing stops a node from being listed *)
(* several times.                                                          *)
(***************************************************************************)
EXTENDS DirectTaskIntake, FiniteSetsExt

CONSTANTS
  Evidence,     \* evidence that passes validatePredictedTouchEvidence
  Touchable,    \* the units and the shared surfaces
  Policies,     \* scheduling policies: their version and minConfidence
  NoEvidence,
  NoNode        \* no blocker

\* An evidence lists the nodes it classifies (overlaps: classified_overlaps), with
\* a confidence and what each is likely to touch; approved: it names the work's
\* approval, head and repository.
ASSUME TouchAssumption ==
  /\ Nodes \subseteq Nat /\ NoNode \notin Nodes
  /\ \A p \in Policies : p.minConfidence \in Nat
  /\ \A e \in Evidence :
       /\ e.approved \in BOOLEAN
       /\ e.overlaps \in Seq([node : Nodes, confidence : Nat, touches : SUBSET Touchable])

VARIABLES
  frozen,       \* works.frozen_*: the provenance of the first evidence that matched
  decisions     \* scheduling_decisions of a work: the serialize rows, and what they
                \* were derived from

touchVars == <<frozen, decisions>>
vars == <<storeVars, intakeVars, touchVars>>

Own(w) == {n \in Nodes : WorkOf[n] = w}
Imported(w) == \A n \in Own(w) : nodeState[n] # "absent"
Provenance(e) == <<e.revision, e.policy>>
NoDecisions == [blockers |-> {}, evidence |-> NoEvidence, minConfidence |-> 0]

-----------------------------------------------------------------------------
\* Entry i of the list is the one find returns for its node: the first.
isSelf(i, overlaps) == \A j \in 1..(i - 1) : overlaps[j].node # overlaps[i].node

\* Entries i and j are both confident and touch the same thing.
Overlap(i, j, overlaps, minConfidence) ==
  /\ overlaps[i].confidence >= minConfidence
  /\ overlaps[j].confidence >= minConfidence
  /\ overlaps[i].touches \cap overlaps[j].touches # {}

\* The nodes other than n with an entry that overlaps with the first of n.
overlapsWith(n, overlaps, minConfidence) ==
  {m \in Nodes \ {n} :
     \E i, j \in DOMAIN overlaps : /\ overlaps[i].node = n /\ isSelf(i, overlaps)
                                  /\ overlaps[j].node = m
                                  /\ Overlap(i, j, overlaps, minConfidence)}

\* Mutant: the ids are not sorted, a node waits for any node it overlaps with.
classify_Unsorted(n, overlaps, minConfidence) ==
  LET others == overlapsWith(n, overlaps, minConfidence) IN
  IF others = {} THEN NoNode ELSE Min(others)

\* Among overlapping nodes the first id wins, and every other one waits for the
\* id before its own.
classify(n, overlaps, minConfidence) ==
  LET earlier == {m \in overlapsWith(n, overlaps, minConfidence) : m < n} IN
  IF earlier = {} THEN NoNode ELSE Max(earlier)

\* The serialize decisions of an import; one whose blocker is not a node of the
\* work is dropped.
Blockers(w, e, p) ==
  {r \in Own(w) \X Own(w) : r[2] = classify(r[1], e.overlaps, p.minConfidence)}

\* Mutant: the frozen provenance is not compared.
Matches_AnyRevision(w, e, p) ==
  /\ p.version = e.policy
  /\ w \notin DirectWorks
  /\ e.approved

Matches(w, e, p) ==
  /\ p.version = e.policy
  /\ w \notin DirectWorks
  /\ e.approved
  /\ frozen[w] \in {<<>>, Provenance(e)}

\* Evidence that matches replaces the work's decisions, and is frozen if it is
\* the first.
ImportMatching(w, e, p) ==
  /\ Imported(w) /\ Matches(w, e, p)
  /\ decisions' = [decisions EXCEPT ![w] =
       [blockers |-> Blockers(w, e, p), evidence |-> e, minConfidence |-> p.minConfidence]]
  /\ frozen' = [frozen EXCEPT ![w] = IF @ = <<>> THEN Provenance(e) ELSE @]
  /\ UNCHANGED <<storeVars, intakeVars>>

\* Any other evidence is recorded as a fallback: earlier decisions are deleted.
persistSchedulingDecision(w, e, p) ==
  /\ Imported(w) /\ ~Matches(w, e, p)
  /\ decisions' = [decisions EXCEPT ![w] = NoDecisions]
  /\ UNCHANGED <<storeVars, intakeVars, frozen>>

importPredictedTouch(w, e, p) == ImportMatching(w, e, p) \/ persistSchedulingDecision(w, e, p)

\* The blockers a dispatch pass reads.
getSchedulingBlockers(w) == decisions[w].blockers

-----------------------------------------------------------------------------
Init ==
  /\ IntakeInit
  /\ frozen = [w \in Works |-> <<>>]
  /\ decisions = [w \in Works |-> NoDecisions]

Next ==
  \/ IntakeNext /\ UNCHANGED touchVars
  \/ /\ \E w \in Works \ DirectWorks, d \in Manifests : ImportApprovedWork(w, d)
     /\ UNCHANGED <<intakeVars, touchVars>>
  \/ \E w \in Works, e \in Evidence, p \in Policies : importPredictedTouch(w, e, p)

Spec == Init /\ [][Next]_vars

-----------------------------------------------------------------------------
(* Properties.                                                             *)

\* Confident overlaps are serialized, in one direction.  Whatever was imported
\* before, the nodes of a work never wait for each other in a circle; and if the
\* evidence names no node of another work, then a node has a blocker when any
\* entry of an earlier node overlaps with the first entry of its own.  (A further
\* entry of a node listed twice makes later nodes wait, but not the node itself:
\* two nodes that overlap only through it may run at the same time.)
OverlapsSerialized ==
  \A w \in Works :
    LET d == decisions[w]
        list == d.evidence.overlaps IN
    /\ \A S \in SUBSET Own(w) :
         S # {} => \E n \in S : \A m \in S : <<n, m>> \notin getSchedulingBlockers(w)
    /\ d.evidence # NoEvidence /\ (\A k \in DOMAIN list : list[k].node \in Own(w)) =>
         \A i, j \in DOMAIN list :
           /\ isSelf(i, list)
           /\ list[j].node < list[i].node
           /\ Overlap(i, j, list, d.minConfidence)
           => \E m \in Own(w) : <<list[i].node, m>> \in getSchedulingBlockers(w)

\* A node waits only on account of the evidence its work was frozen with: same
\* approval, revision and policy.  Later evidence that differs, or evidence about
\* a direct task, makes no node wait.
SerializedByFrozenEvidence ==
  \A w \in Works :
    getSchedulingBlockers(w) # {} =>
      /\ w \notin DirectWorks
      /\ decisions[w].evidence.approved
      /\ frozen[w] = Provenance(decisions[w].evidence)
=============================================================================
