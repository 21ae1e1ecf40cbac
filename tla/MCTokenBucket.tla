--------------------------- MODULE MCTokenBucket ---------------------------
(* Symmetry for checking TokenBucket with TLC.                             *)
EXTENDS TokenBucket, TLC

Symmetry == Permutations(Calls)
=============================================================================
