----------------------------- MODULE BlockHeap -----------------------------
(***************************************************************************)
(* What the cached path of GlobalAlloc promises its callers: a heap is a   *)
(* map from the blocks the program holds to the sizes it asked for.        *)
(* Allocating adds one block that nobody holds; freeing removes one block; *)
(* no step touches the block of anyone else.                               *)
(***************************************************************************)
CONSTANTS Blocks, Sizes

VARIABLE heap

Init == heap = [b \in {} |-> 0]

\* alloc(layout) returned b for a request of s bytes.
Alloc(b, s) ==
  /\ b \in Blocks \ DOMAIN heap
  /\ heap' = [x \in DOMAIN heap \cup {b} |-> IF x = b THEN s ELSE heap[x]]

\* dealloc(b) was called by whoever holds b.
Free(b) ==
  /\ b \in DOMAIN heap
  /\ heap' = [x \in DOMAIN heap \ {b} |-> heap[x]]

Next ==
  \/ \E b \in DOMAIN heap' \ DOMAIN heap, s \in Sizes : Alloc(b, s)
  \/ \E b \in DOMAIN heap \ DOMAIN heap' : Free(b)

Spec == Init /\ [][Next]_heap
=============================================================================
