--------------------------- MODULE MCSharedMemory ---------------------------
(* A small instance of SharedMemory for TLC.  The objects, and the owners,   *)
(* are interchangeable.                                                      *)
EXTENDS SharedMemory, TLC

Symmetry == Permutations(Objects) \union Permutations(Owners)
=============================================================================
