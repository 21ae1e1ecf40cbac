---------------------------- MODULE MCBatchJobs ----------------------------
(* Model values and symmetry for checking BatchJobs with TLC.              *)
EXTENDS BatchJobs, TLC

Symmetry == Permutations(Jobs) \cup Permutations(Workers)
=============================================================================
