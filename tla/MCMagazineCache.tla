-------------------------- MODULE MCMagazineCache --------------------------
(* Instances of MagazineCache for TLC. *)
EXTENDS MagazineCache, TLC

CONSTANTS t1, t2, p1, p2, n1, n2

\* Class 0 is carved from pages into three blocks, one more than a magazine
\* and a caller take; a block of class 1 has a region of its own.
TwoClasses == {0, 1}
TwoSizes == {16, 4096}
TwoClassOf == [s \in TwoSizes |-> IF s = 16 THEN 0 ELSE 1]
TwoPerPage == [c \in TwoClasses |-> IF c = 0 THEN 3 ELSE 0]

Symmetry == Permutations(Threads) \cup Permutations(Pages) \cup Permutations(Nodes)
=============================================================================
