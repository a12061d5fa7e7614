---------------------------- MODULE SizeClasses ----------------------------
(***************************************************************************)
(* The arithmetic every allocation path rests on: rounding and classes of  *)
(* aethalloc-core/src/size_class.rs, size_to_class, the carving of a page  *)
(* and the placement of a large block of aethalloc-abi/src/global.rs, and  *)
(* the slot index of aethalloc-core/src/thread_local.rs.                   *)
(***************************************************************************)
EXTENDS Integers

CONSTANT Bits   \* usize::BITS

ASSUME BitsAssumption == Bits \in Nat \ {0}

PAGE_SIZE == 4096
MAX_CACHE_SIZE == 65536
CACHE_HEADER_SIZE == 16
PAGE_HEADER_SIZE == 16
LARGE_HEADER_SIZE == 16
MAGAZINE_CLASSES == 13
TINY_CLASSES == 4
SMALL_CLASSES == 6
None == -1

Larger(a, b) == IF a > b THEN a ELSE b
DivCeil(a, b) == (a + b - 1) \div b

-----------------------------------------------------------------------------
(* size_class.rs *)

Exponents == 0 .. Bits - 1

IsPowerOfTwo(s) == \E k \in Exponents : s = 2 ^ k

\* usize::BITS - leading_zeros
BitLength(s) == CHOOSE k \in 1 .. Bits : 2 ^ (k - 1) <= s /\ s < 2 ^ k

TrailingZeros(s) == CHOOSE k \in Exponents : s % 2 ^ (k + 1) = 2 ^ k

\* Mutant: a power of two is rounded up to the next one.
RoundUpPow2Above(s) == IF s = 0 THEN 1 ELSE 2 ^ (BitLength(s) % Bits)

\* The shift by Bits, for sizes above the largest power, wraps to a shift by 0.
RoundUpPow2(s) ==
  IF s = 0 THEN 1 ELSE IF IsPowerOfTwo(s) THEN s ELSE 2 ^ (BitLength(s) % Bits)

\* Mutant: 128 bytes are not tiny.
ClassifyBelow(s) ==
  CASE s < 128 -> "Tiny"
    [] s >= 128 /\ s <= 8 * 1024 -> "Small"
    [] s > 8 * 1024 /\ s <= 256 * 1024 -> "Medium"
    [] OTHER -> "Large"

Classify(s) ==
  CASE s <= 128 -> "Tiny"
    [] s > 128 /\ s <= 8 * 1024 -> "Small"
    [] s > 8 * 1024 /\ s <= 256 * 1024 -> "Medium"
    [] OTHER -> "Large"

AllocSize(class, s) ==
  CASE class = "Tiny" -> IF s = 0 THEN 16 ELSE Larger(RoundUpPow2(s), 16)
    [] class = "Large" -> DivCeil(s, PAGE_SIZE) * PAGE_SIZE
    [] OTHER -> RoundUpPow2(s)

SlabIndex(s) ==
  IF s = 0 \/ s > 8 * 1024 \/ RoundUpPow2(s) < 16
    THEN None
    ELSE LET idx == TrailingZeros(RoundUpPow2(s)) IN
         IF idx \in 4 .. 13 THEN idx - 4 ELSE None

-----------------------------------------------------------------------------
(* global.rs *)

\* Mutant: the last class is missing from the table.
SizeToClassShort(s) ==
  LET rounded == Larger(RoundUpPow2(s), 16) IN
  IF \E c \in 0 .. 11 : rounded = 2 ^ (c + 4)
    THEN CHOOSE c \in 0 .. 11 : rounded = 2 ^ (c + 4)
    ELSE None

SizeToClass(s) ==
  LET rounded == Larger(RoundUpPow2(s), 16) IN
  IF \E c \in 0 .. 12 : rounded = 2 ^ (c + 4)
    THEN CHOOSE c \in 0 .. 12 : rounded = 2 ^ (c + 4)
    ELSE None

\* Mutants: pages divided without the header, no room for the alignment.
BlocksPerPageBare(s) == PAGE_SIZE \div Larger(RoundUpPow2(s), 16)
LargePagesTight(s, align) ==
  Larger(DivCeil(PAGE_HEADER_SIZE + LARGE_HEADER_SIZE + s, PAGE_SIZE), 1)

\* What alloc computes on a miss.
CacheSize(s) == Larger(RoundUpPow2(s), 16)
BlockSize(s) == CacheSize(s) + CACHE_HEADER_SIZE
BlocksPerPage(s) == PAGE_SIZE \div BlockSize(s)
SinglePages(s) == Larger(DivCeil(BlockSize(s), PAGE_SIZE), 1)

\* Where alloc puts a large block in the region at base.
AlignUp(addr, align) == DivCeil(addr, align) * align
LargePages(s, align) ==
  Larger(DivCeil(PAGE_HEADER_SIZE + LARGE_HEADER_SIZE + s + align, PAGE_SIZE), 1)
UserAddr(base, align) == AlignUp(base + PAGE_HEADER_SIZE + LARGE_HEADER_SIZE, align)

-----------------------------------------------------------------------------
(* thread_local.rs: the slots of ThreadLocalCache, tiny before small *)

\* get_slot.
GetSlot(s) ==
  LET a == IF Classify(s) = "Tiny" THEN Larger(RoundUpPow2(s), 16) ELSE RoundUpPow2(s) IN
  CASE Classify(s) = "Tiny" /\ a <= 128 ->
         IF TrailingZeros(a \div 16) < TINY_CLASSES THEN TrailingZeros(a \div 16) ELSE None
    [] Classify(s) = "Small" /\ a \in 256 .. 8192 ->
         IF TrailingZeros(a \div 256) < SMALL_CLASSES
           THEN TINY_CLASSES + TrailingZeros(a \div 256) ELSE None
    [] OTHER -> None

\* CacheSlot::size_for_index.
SizeForIndex(i) == IF i < TINY_CLASSES THEN 16 * 2 ^ i ELSE 256 * 2 ^ (i - TINY_CLASSES)
=============================================================================
