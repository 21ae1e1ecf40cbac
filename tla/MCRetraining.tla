--------------------------- MODULE MCRetraining ----------------------------
(* Symmetry for checking Retraining with TLC.                              *)
EXTENDS Retraining, TLC

Symmetry == Permutations(Runs)
=============================================================================
