--------------------------- MODULE PageAllocator ---------------------------
(***************************************************************************)
(* PageAllocator of aethalloc-core/src/page.rs and the memory its clients  *)
(* share.  A region is named by its address; only the words at which a     *)
(* client links free blocks, the first of each slot, are kept.             *)
(***************************************************************************)
EXTENDS Integers

CONSTANTS
  Pages,     \* addresses mmap may return
  MaxSlots   \* words kept of a region

ASSUME PagesAssumption == MaxSlots \in Nat \ {0}

Words == Pages \X (0 .. MaxSlots - 1)

\* What a word holds: the address of another, nothing (zeroes), or program data.
Nil == <<"nil">>
Data == <<"data">>

VARIABLES
  mapped,    \* how many pages of the region at each address are mapped
  memory     \* the words of the regions

ZeroFilled == [w \in Words |-> Nil]

\* alloc(n): mmap picks a free address, and the region reads as zeroes.
Map(p, n) ==
  /\ mapped[p] = 0
  /\ mapped' = [mapped EXCEPT ![p] = n]

Fresh(p, mem) == [w \in Words |-> IF w[1] = p THEN Nil ELSE mem[w]]

\* dealloc(p, n): munmap of n pages at p.
Unmapped(map, p, n) == [map EXCEPT ![p] = @ - n]
=============================================================================
