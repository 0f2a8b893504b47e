---------------------------- MODULE MCProofStages ---------------------------
(* The three attempts of Stage 2; the second one is the injected one.      *)
EXTENDS ProofStages

MCJobOrder == <<"a", "b", "c">>
=============================================================================
