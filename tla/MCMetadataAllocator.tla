------------------------ MODULE MCMetadataAllocator ------------------------
(* Instances of MetadataAllocator for TLC. *)
EXTENDS MetadataAllocator, TLC

CONSTANTS t1, t2, t3, p1, p2, p3

Symmetry == Permutations(Threads) \cup Permutations(Pages)
=============================================================================
