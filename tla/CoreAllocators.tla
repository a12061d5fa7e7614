--------------------------- MODULE CoreAllocators ---------------------------
(***************************************************************************)
(* A Slab and a ThreadLocalCache over one PageAllocator.  They share the   *)
(* address space: a region one of them unmaps may be the next region the   *)
(* other maps, so a link or a length that outlives its region, or a region *)
(* kept by both, would show.                                               *)
(***************************************************************************)
EXTENDS Slab, ThreadLocalCache

vars == <<mapped, memory, slabVars, cacheVars>>

Init ==
  /\ mapped = [p \in Pages |-> 0]
  /\ memory = ZeroFilled
  /\ SlabInit
  /\ CacheInit

Next ==
  \/ SlabNext /\ UNCHANGED cacheVars
  \/ CacheNext /\ UNCHANGED slabVars

Spec == Init /\ [][Next]_vars

-----------------------------------------------------------------------------
(* Properties *)

InSlab(p) == \E i \in DOMAIN pages : pages[i] = p
HeldBy(p) == {s \in Sizes : <<p, s>> \in held}
Lists(p) == {i \in Slots : p \in Cached(i)}

\* Every region has exactly one owner, the pages of the slab, one list of the
\* cache or the program, and is mapped with the length its owner will unmap; a
\* region without an owner is not mapped.  So nothing leaks, nothing is
\* unmapped twice or by the wrong length, whichever client had it before.
RegionsOwned ==
  \A p \in Pages :
    \/ mapped[p] = 0 /\ ~InSlab(p) /\ HeldBy(p) = {} /\ Lists(p) = {}
    \/ mapped[p] = 1 /\ InSlab(p) /\ HeldBy(p) = {} /\ Lists(p) = {}
    \/ \E s \in Sizes : /\ mapped[p] = PagesForSize(s)
                        /\ ~InSlab(p) /\ HeldBy(p) = {s} /\ Lists(p) = {}
    \/ \E i \in Slots : /\ mapped[p] = PagesForSlot(i)
                        /\ ~InSlab(p) /\ HeldBy(p) = {} /\ Lists(p) = {i}

\* The slots bumped so far.
Bumped ==
  {<<pages[i], j>> : i \in 1 .. Len(pages) - 1, j \in 0 .. SlotsPerPage - 1}
    \cup {<<pages[Len(pages)], j>> : j \in IF pages = << >> THEN {} ELSE 0 .. nextSlot - 1}

\* The slots on the free list, found through the words of the free slots.
FreeFrom[n \in Nat, w \in Words \cup {Nil, Data}] ==
  IF n = 0 \/ w \notin Words THEN << >> ELSE <<w>> \o FreeFrom[n - 1, memory[w]]

FreeSlots == FreeFrom[MaxSlabPages * SlotsPerPage + 1, freeHead]

\* Following the links from free_head meets every slot handed out and returned,
\* each once, and no slot in use: the list inside the slots survives program
\* data, reuse of pages and any order of frees; allocated counts those in use.
SlabListExact ==
  /\ {FreeSlots[i] : i \in DOMAIN FreeSlots} = Bumped \ slabLive
  /\ Len(FreeSlots) = Cardinality(Bumped \ slabLive)
  /\ slabLive \subseteq Bumped
  /\ allocated = Cardinality(slabLive)

\* Each list of the cache has as many blocks as its count says, at most
\* CACHE_SIZE, and ends.
CacheListsExact ==
  \A i \in Slots : Cardinality(Cached(i)) = count[i] /\ count[i] <= CACHE_SIZE
=============================================================================
