---------------------------- MODULE ProgramHeap ----------------------------
(***************************************************************************)
(* What malloc, calloc, realloc, aligned_alloc, posix_memalign and free    *)
(* promise a C program: the heap maps the pointers the program holds to    *)
(* the size it asked for and to the contents it finds there.  Contents are *)
(* sampled at the offsets Marks.  A call never changes a block that is not *)
(* its argument; realloc moves a block and its contents in one step.       *)
(***************************************************************************)
EXTENDS Integers

CONSTANTS Pages, Marks

VARIABLE heap

Init == heap = [p \in {} |-> 0]

\* The pointers a step gives to the program and takes from it; it leaves every
\* other block alone.
Given == DOMAIN heap' \ DOMAIN heap
Taken == DOMAIN heap \ DOMAIN heap'
OthersKept == \A p \in DOMAIN heap \ Taken : heap'[p] = heap[p]

Malloc == \E q \in Given : Given = {q} /\ Taken = {} /\ OthersKept

Free == \E p \in Taken : Taken = {p} /\ Given = {} /\ OthersKept

\* What both sizes hold stays.
Realloc ==
  \E p \in Taken, q \in Given :
    /\ Taken = {p} /\ Given = {q} /\ OthersKept
    /\ \A m \in Marks : m < heap[p].size /\ m < heap'[q].size
                           => heap'[q].cells[m] = heap[p].cells[m]

\* The program stores into a block it holds.
Store(p) ==
  /\ DOMAIN heap' = DOMAIN heap
  /\ heap'[p].size = heap[p].size
  /\ \A q \in DOMAIN heap \ {p} : heap'[q] = heap[q]

\* A relocation failed to map the region r again.
Lose(r) ==
  /\ Taken = {p \in DOMAIN heap : p[1] = r}
  /\ Given = {}
  /\ OthersKept

Next ==
  \/ Malloc \/ Free \/ Realloc
  \/ \E p \in DOMAIN heap : Store(p)
  \/ \E r \in Pages : Lose(r)

Spec == Init /\ [][Next]_heap
=============================================================================
