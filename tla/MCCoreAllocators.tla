-------------------------- MODULE MCCoreAllocators --------------------------
(* Instance of CoreAllocators for model checking. *)
EXTENDS CoreAllocators, TLC

CONSTANTS p1, p2, p3, p4

Symmetry == Permutations(Pages)
=============================================================================
