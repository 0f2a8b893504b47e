-------------------------- MODULE MCPredictedTouch --------------------------
(* Two callers that may use the same key, two payloads, two direct tasks,  *)
(* and one decomposed work whose nodes 1, 3 and 4 surround the node of a   *)
(* direct task.                                                            *)
EXTENDS PredictedTouch, TLC

CONSTANTS c1, c2, w1, w2, w3

MCNodes == 1..5
MCWorkOf == <<w3, w1, w3, w3, w2>>
MCNodeOf == [a \in {} |-> 1]
MCManifests == {[n \in MCNodes |-> {}]}

Entry(n, confidence, touches) == [node |-> n, confidence |-> confidence, touches |-> touches]

\* What the three nodes share, one of them with either confidence, and after
\* them perhaps an entry for the node of the direct task or a second one for 3.
MCTouchable == {"unit", "surface"}
Lists ==
  {<<Entry(1, 2, {"unit"}), Entry(3, confidence, s), Entry(4, 2, t)>> \o more :
     confidence \in {1, 2}, s \in {{}, {"unit"}, MCTouchable}, t \in {{"unit"}, {"surface"}},
     more \in {<<>>, <<Entry(2, 2, {"unit"})>>, <<Entry(3, 2, {"unit"})>>}}
AllShare == <<Entry(1, 2, {"unit"}), Entry(3, 2, {"unit"}), Entry(4, 2, {"unit"})>>

\* The work's approval, or another; two revisions of the graph; two policies.
MCEvidence ==
  [overlaps : Lists, approved : {TRUE}, revision : {"r1"}, policy : {"p1"}]
    \cup [overlaps : {AllShare}, approved : BOOLEAN, revision : {"r1", "r2"},
          policy : {"p1", "p2"}]

MCPolicies == {[version |-> "p1", minConfidence |-> 2], [version |-> "p2", minConfidence |-> 1]}

\* Callers are interchangeable.
IntakeSymmetry == Permutations({c1, c2})
=============================================================================
