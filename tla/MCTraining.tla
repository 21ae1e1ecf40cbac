----------------------------- MODULE MCTraining -----------------------------
(* Checking Training with TLC.                                             *)
EXTENDS Training
=============================================================================
