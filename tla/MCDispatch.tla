----------------------------- MODULE MCDispatch -----------------------------
(* Two nodes with one attempt each.                                        *)
EXTENDS Dispatch, TLC

CONSTANTS w1, a1, a2, d1, d2, k1, k2

MCNodes == {1, 2}
MCWorkOf == [n \in MCNodes |-> w1]
MCNodeOf == (a1 :> 1) @@ (a2 :> 2)

\* Every graph on the two nodes, cycles included, for the import to judge.
AllGraphs == [MCNodes -> SUBSET MCNodes]
\* Node 2 depends on node 1.
Chain == {[n \in MCNodes |-> IF n = 2 THEN {1} ELSE {}]}
NoEdges == {[n \in MCNodes |-> {}]}

NoBlockers == {[n \in MCNodes |-> 0]}
\* Node 2 is serialized behind node 1.
SerializeSecond == {[n \in MCNodes |-> IF n = 2 THEN 1 ELSE 0]}

\* Concurrent passes, and workers, are interchangeable.
ProcessSymmetry == Permutations({d1, d2}) \cup Permutations({k1, k2})
=============================================================================
