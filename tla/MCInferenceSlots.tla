------------------------- MODULE MCInferenceSlots --------------------------
(* Symmetry for checking InferenceSlots with TLC.                          *)
EXTENDS InferenceSlots, TLC

Symmetry == Permutations(Requests)
=============================================================================
