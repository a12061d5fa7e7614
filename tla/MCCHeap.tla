------------------------------ MODULE MCCHeap ------------------------------
(* Instance of CHeap for model checking. *)
EXTENDS CHeap, TLC

CONSTANTS p1, p2, p3, t1

Symmetry == Permutations(Pages)
=============================================================================
