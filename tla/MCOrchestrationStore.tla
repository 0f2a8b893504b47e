------------------------ MODULE MCOrchestrationStore ------------------------
(* Two attempts of one node, so that results of both race for it.          *)
EXTENDS OrchestrationStore, TLC

CONSTANTS n1, w1, a1, a2

MCNodes == {n1}
MCWorks == {w1}
MCAttempts == {a1, a2}
MCWorkOf == [n \in MCNodes |-> w1]
MCNodeOf == [a \in MCAttempts |-> n1]
MCManifests == {[n \in MCNodes |-> {}]}

\* The attempts are interchangeable: nothing orders them.
AttemptSymmetry == Permutations(MCAttempts)
=============================================================================
