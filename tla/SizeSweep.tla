----------------------------- MODULE SizeSweep -----------------------------
(***************************************************************************)
(* Properties of the arithmetic of module SizeClasses, checked by letting  *)
(* the size of a request take every value up to a bound.                   *)
(***************************************************************************)
EXTENDS SizeClasses

CONSTANT MaxSize   \* bound on the sizes tried

ASSUME MaxSizeAssumption == MaxSize \in 0 .. 2 ^ Bits - 1

VARIABLE size

Init == size = 0

Next == size < MaxSize /\ size' = size + 1

Spec == Init /\ [][Next]_size

-----------------------------------------------------------------------------
(* Properties *)

\* round_up_pow2 returns the least power of two that holds the size, for every
\* size that some power of two of the machine word holds.
RoundsUpLeast ==
  size <= 2 ^ (Bits - 1) =>
    /\ IsPowerOfTwo(RoundUpPow2(size))
    /\ RoundUpPow2(size) >= size
    /\ \A k \in Exponents : 2 ^ k >= size => 2 ^ k >= RoundUpPow2(size)

\* Every cacheable size has a class, the class indexes one of the 13 pools of
\* magazine.rs although global.rs sizes its own arrays for 14, a block of the
\* class holds the size, and a block of the class below does not.  The class
\* dealloc finds again from the size word determines the block: every size of
\* the class was carved alike.
ClassFits ==
  size \in 1 .. MAX_CACHE_SIZE =>
    LET c == SizeToClass(CacheSize(size))
        m == 2 ^ (c + 4) IN
    /\ c \in 0 .. MAGAZINE_CLASSES - 1
    /\ m >= size
    /\ c > 0 => 2 ^ (c + 3) < size
    /\ BlockSize(m) = BlockSize(size) /\ SizeToClass(CacheSize(m)) = c

\* The blocks carved from a page lie inside it, one behind the other, and a
\* block too large for that gets enough pages of its own.
CarvedBlocksFit ==
  size \in 1 .. MAX_CACHE_SIZE =>
    IF BlocksPerPage(size) > 1
      THEN /\ BlocksPerPage(size) * BlockSize(size) <= PAGE_SIZE
           /\ \A i \in 0 .. BlocksPerPage(size) - 1 :
                /\ (i * BlockSize(size) + CACHE_HEADER_SIZE) % 16 = 0
                /\ i * BlockSize(size) + CACHE_HEADER_SIZE + size <= (i + 1) * BlockSize(size)
      ELSE CACHE_HEADER_SIZE + size <= SinglePages(size) * PAGE_SIZE

Aligns == {2 ^ k : k \in 0 .. 13}
Bases == {PAGE_SIZE, 3 * PAGE_SIZE, 4 * PAGE_SIZE}

\* A large block is aligned, lies inside the mapped region, and its header
\* lies between the page header and the block.
LargeBlockFits ==
  size > 0 =>
    \A align \in Aligns, base \in Bases :
      LET u == UserAddr(base, align) IN
      /\ u % align = 0
      /\ u + size <= base + LargePages(size, align) * PAGE_SIZE
      /\ u - LARGE_HEADER_SIZE >= base + PAGE_HEADER_SIZE

\* classify, alloc_size, slab_index and the slots of the thread-local cache
\* agree: the rounded size keeps its class and holds the request, and a slot
\* holds blocks of exactly that size.
SlotsAgree ==
  LET class == Classify(size)
      a == AllocSize(class, size) IN
  /\ a >= size /\ (size <= 2 ^ 18 => Classify(a) = class)
  /\ GetSlot(size) # None <=> class \in {"Tiny", "Small"}
  /\ GetSlot(size) # None => SizeForIndex(GetSlot(size)) = a
  /\ SlabIndex(size) # None => SlabIndex(size) = GetSlot(size)
  /\ size \in 9 .. 8192 => SlabIndex(size) # None
=============================================================================
