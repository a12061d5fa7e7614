---------------------------- MODULE BoundedFifo ----------------------------
(***************************************************************************)
(* What the ring buffer promises: a queue of at most Bound entries.  Put   *)
(* appends an entry, Get returns the oldest one, every entry comes out     *)
(* once, unchanged and in order.                                           *)
(***************************************************************************)
EXTENDS Naturals, Sequences

CONSTANTS Entries, Bound, None

VARIABLES queue, out

Init == queue = << >> /\ out = None

Put(e) == Len(queue) < Bound /\ queue' = Append(queue, e) /\ out' = out

Get == queue # << >> /\ out' = Head(queue) /\ queue' = Tail(queue)

Next == Get \/ \E e \in Entries : Put(e)

Spec == Init /\ [][Next]_<<queue, out>>
=============================================================================
