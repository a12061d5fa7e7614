------------------------------ MODULE MCBuddy ------------------------------
(* Instances of Buddy for model checking. *)
EXTENDS Buddy

\* Program data that happens to read as the header of a free block.
FreeLookalikes == {[order |-> k, free |-> TRUE] : k \in 0 .. 1}
=============================================================================
