--------------------------- MODULE MCSimpleCache ---------------------------
(* Instances of SimpleCache for model checking. *)
EXTENDS SimpleCache, TLC

CONSTANTS t1, t2, p1, p2, p3, p4, p5, s1, s2

Symmetry == Permutations(Pages) \cup Permutations(Sizes)
=============================================================================
