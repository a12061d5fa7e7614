----------------------------- MODULE MCMetrics -----------------------------
(* Instance of Metrics for model checking. *)
EXTENDS Metrics, TLC

CONSTANTS t1, t2

Symmetry == Permutations(Threads)
=============================================================================
