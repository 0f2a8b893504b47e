--------------------------- MODULE MCDecomposition ---------------------------
(* Two commits, two overlapping builds in a cache of one entry, and a job for *)
(* either commit, published or not.                                           *)
EXTENDS Decomposition

MCHeads == {"h1", "h2"}
MCTreeOf == [h \in MCHeads |-> IF h = "h1" THEN "t1" ELSE "t2"]
MCRevisions == {[head |-> h, tree |-> MCTreeOf[h]] : h \in MCHeads}
MCCandidates == <<"m1", "m2">>
=============================================================================
