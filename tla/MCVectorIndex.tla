--------------------------- MODULE MCVectorIndex ---------------------------
(* Both backends of the similarity index.  settings.similarity_backend     *)
(* picks one of them, and so does a behaviour.                             *)
EXTENDS VectorIndex, TLC

CONSTANTS Images, MaxAsked

VARIABLES disk, built, current, place, ask, use, told, asked, raced

Memory == INSTANCE MemoryIndex WITH Items <- Images, Default <- Configured, pc <- place
ASSUME MemoryAssumption == Memory!MemoryAssumption

memoryVars == <<disk, built, current, place, ask, use, told, asked, raced>>

MCInit == Init /\ Memory!Init

(* The other one has not been touched.                                     *)
TableAtRest == Init
MemoryAtRest == Memory!Init /\ disk = Memory!NoFile

MCNext ==
  \/ MemoryAtRest /\ Next /\ UNCHANGED memoryVars
  \/ TableAtRest /\ Memory!Next /\ UNCHANGED vars

MCSpec == MCInit /\ [][MCNext]_<<vars, memoryVars>>

(* Who searches in memory gets back every acknowledged image, each by its  *)
(* own vector (similarity_index.py).                                       *)
HitsAreTheirOwn == Memory!HitsAreTheirOwn

Symmetry ==
  Permutations(Replicas) \cup Permutations(Requests) \cup Permutations(Items)
    \cup Permutations(Images)
=============================================================================
