---------------------------- MODULE MCRingBuffer ----------------------------
(* Instances of RingBuffer for TLC. *)
EXTENDS RingBuffer, TLC

CONSTANTS e1, e2, e3

\* The code asserts it at compile time.
ASSUME PowerOfTwo == \E k \in 0 .. 10 : Capacity = 2 ^ k
=============================================================================
