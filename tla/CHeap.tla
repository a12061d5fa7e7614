------------------------------- MODULE CHeap -------------------------------
(***************************************************************************)
(* The C interface of aethalloc-abi/src/lib.rs over the allocator of       *)
(* global.rs: the headers that tell cached from large blocks and remember  *)
(* sizes and lengths, large blocks with regions of their own, and calls    *)
(* made of several steps, which the calls of other threads and relocations *)
(* by the compactor interleave with.  The cached path is used by its       *)
(* contract, BlockHeap, which MagazineCache implements: it returns some    *)
(* free block of the class, or carves a new page, or fails.                *)
(*                                                                         *)
(* A pointer <<p, i>> names the 16 bytes before the i-th block of region   *)
(* p; i = 0 is the start of the region.  A large block is <<p, 1>>, behind *)
(* the PageHeader.  Contents are sampled at the offsets Marks.             *)
(***************************************************************************)
EXTENDS Compactor, SizeClasses, FiniteSets

CONSTANTS
  Threads,
  Sizes,       \* the sizes the program asks for
  Members,     \* the values of nmemb
  Alignments,
  Marks,       \* offsets at which contents are kept
  MaxBlocks    \* bound: blocks kept of the ones a page is carved into

ASSUME BoundsAssumption == MaxBlocks \in Nat /\ MaxBlocks > 1

\* 16 bytes before a block, the first word in halves, and its sampled contents.
ZeroBlock == [lo |-> 0, hi |-> 0, second |-> 0, cells |-> [m \in Marks |-> 0]]
ZeroRegion == [i \in 0 .. MaxBlocks - 1 |-> ZeroBlock]

ASSUME ZeroesAssumption == Zeroes = ZeroRegion

VARIABLES
  free,        \* the free blocks of each class, in any thread's cache
  held,        \* the pointers the program holds
  asked,       \* history: the size it asked for, 0 if it does not hold it
  call         \* the call in progress in each thread

heapVars == <<free, held, asked, call>>
vars == <<mapped, contents, relocation, heapVars>>

Ptrs == Pages \X (0 .. MaxBlocks - 1)
Classes == 0 .. MAGAZINE_CLASSES - 1
Null == <<NoPage, 0>>
Returned == [op |-> "none", ptr |-> Null, new |-> Null, size |-> 0, bytes |-> 0]

\* Stand-ins for the 32-bit magic numbers, both above MAX_CACHE_SIZE.
MAGIC == 1000000
LARGE_MAGIC == 1000001

Init ==
  /\ mapped = [p \in Pages |-> 0]
  /\ contents = [p \in Pages |-> Zeroes]
  /\ CompactorInit
  /\ free = [c \in Classes |-> {}]
  /\ held = {}
  /\ asked = [p \in Ptrs |-> 0]
  /\ call = [t \in Threads |-> Returned]

\* The pointers calls in progress work on.
InCalls == UNION {{call[t].ptr, call[t].new} : t \in Threads} \cap Ptrs

At(p) == contents[p[1]][p[2]]

\* Header writes: a size over the first word; a PageHeader; a LargeAllocHeader,
\* whose padding is left alone.
Sized(b, s) == [b EXCEPT !.lo = s, !.hi = 0]
PageHeader(b, n, s) == [b EXCEPT !.lo = MAGIC, !.hi = n, !.second = s]
LargeHeader(b, base) == [b EXCEPT !.lo = LARGE_MAGIC, !.second = base]

\* Mutant: the product wraps.
CallocTotalWraps(nmemb, s) == (nmemb * s) % 2 ^ Bits

\* checked_mul; a product that does not fit returns null, as 0 bytes do.
CallocTotal(nmemb, s) == IF nmemb * s < 2 ^ Bits THEN nmemb * s ELSE 0

\* SizeToClass of every size alloc is asked for.
Asked == Sizes \cup {1} \cup {CallocTotal(n, s) : n \in Members, s \in Sizes}
ClassOf == [s \in Asked |-> SizeToClass(s)]

-----------------------------------------------------------------------------
(* GlobalAlloc *)

\* Some cache has the block: the size is written over its first word.
AllocCached(s, p) ==
  /\ p \in free[ClassOf[s]]
  /\ Accessible(p[1])
  /\ free' = [free EXCEPT ![ClassOf[s]] = @ \ {p}]
  /\ contents' = [contents EXCEPT ![p[1]][p[2]] = Sized(@, s)]
  /\ UNCHANGED mapped

\* A miss: the first block of a new page is returned, the others are cached.
AllocCarved(s, p) ==
  LET n == IF BlocksPerPage(s) < MaxBlocks THEN BlocksPerPage(s) ELSE MaxBlocks IN
  /\ p[2] = 0
  /\ Map(p[1], 1)
  /\ BlocksPerPage(s) > 1
  /\ contents' = [contents EXCEPT ![p[1]] = [Zeroes EXCEPT ![0] = Sized(@, s)]]
  /\ free' = [free EXCEPT ![ClassOf[s]] = @ \cup ({p[1]} \X (1 .. n - 1))]

\* A block too large to share a page, or the mapping above failed.
AllocSingle(s, p) ==
  /\ p[2] = 0
  /\ Map(p[1], SinglePages(s))
  /\ contents' = [contents EXCEPT ![p[1]] = [Zeroes EXCEPT ![0] = Sized(@, s)]]
  /\ UNCHANGED free

\* Mutant: the header holds the length of the block alone.
AllocLargeShort(s, align, p) ==
  LET n == LargePages(s, align) IN
  /\ p[2] = 1
  /\ Map(p[1], n)
  /\ contents' = [contents EXCEPT ![p[1]] =
       [Zeroes EXCEPT ![0] = PageHeader(@, DivCeil(s, PAGE_SIZE), s),
                      ![1] = LargeHeader(@, p[1])]]
  /\ UNCHANGED free

\* A region of its own, with both headers.
AllocLarge(s, align, p) ==
  LET n == LargePages(s, align) IN
  /\ p[2] = 1
  /\ Map(p[1], n)
  /\ contents' = [contents EXCEPT ![p[1]] =
       [Zeroes EXCEPT ![0] = PageHeader(@, n, s), ![1] = LargeHeader(@, p[1])]]
  /\ UNCHANGED free

\* alloc returned p.  Where it returns null nothing changes: for a size of 0, or
\* when no memory can be mapped.
Alloc(s, align, p) ==
  /\ s # 0
  /\ IF s <= MAX_CACHE_SIZE /\ align <= 8 /\ ClassOf[s] # None
       THEN AllocCached(s, p) \/ AllocCarved(s, p) \/ AllocSingle(s, p)
       ELSE AllocLarge(s, align, p)

\* page_header_from_ptr reads the start of the page.
FirstOf(p) == <<p, 0>>

\* The first word before p, as dealloc and get_alloc_size test it.
IsLarge(p) == At(p).lo = LARGE_MAGIC
IsCached(p) == At(p).hi = 0 /\ At(p).lo \in 1 .. MAX_CACHE_SIZE /\ At(p).lo # MAGIC

\* PageAllocator::dealloc, if the PageHeader at the start of region p is one.
Release(p) ==
  LET n == At(FirstOf(p)).hi IN
  /\ IF At(FirstOf(p)).lo = MAGIC /\ n > 0
       THEN /\ mapped' = Unmapped(mapped, p, n)
            /\ contents' = [contents EXCEPT ![p] = Zeroes]
       ELSE UNCHANGED <<mapped, contents>>
  /\ UNCHANGED free

\* dealloc: a large block is unmapped, a cached one goes back to the class of
\* the size before it, anything else is looked up at the start of its page.
Dealloc(p) ==
  CASE IsLarge(p) -> Release(At(p).second)
    [] IsCached(p) ->
         /\ free' = [free EXCEPT ![ClassOf[At(p).lo]] = @ \cup {p}]
         /\ UNCHANGED <<mapped, contents>>
    [] OTHER -> Release(p[1])

\* get_alloc_size.
GetAllocSize(p) ==
  LET start == At(FirstOf(IF IsLarge(p) THEN At(p).second ELSE p[1])) IN
  IF ~IsLarge(p) /\ IsCached(p)
    THEN At(p).lo
    ELSE IF start.lo = MAGIC THEN start.second ELSE 0

-----------------------------------------------------------------------------
(* The C interface.  A call that returns null changes nothing. *)

\* Layout::from_size_align accepts what fits in isize.
IsLayout(s, align) == s <= 2 ^ (Bits - 1) - align

Hold(P, p, s) ==
  /\ held' = (held \ P) \cup {p}
  /\ asked' = [q \in Ptrs |-> IF q = p THEN s ELSE IF q \in P THEN 0 ELSE asked[q]]

Forget(P) ==
  /\ held' = held \ P
  /\ asked' = [q \in Ptrs |-> IF q \in P THEN 0 ELSE asked[q]]

\* The program uses a pointer it holds, and only in one call at a time.
Usable(p) == p \in held \ InCalls /\ Accessible(p[1])

\* malloc, and realloc of a null pointer.
Malloc(s, p) ==
  /\ IsLayout(s, 8)
  /\ Alloc(s, 8, p)
  /\ Hold({}, p, s)
  /\ UNCHANGED <<call, relocation>>

\* aligned_alloc.
AlignedAlloc(align, s, p) ==
  /\ align # 0 /\ IsPowerOfTwo(align)
  /\ IsLayout(Larger(s, 1), align)
  /\ Alloc(Larger(s, 1), align, p)
  /\ Hold({}, p, Larger(s, 1))
  /\ UNCHANGED <<call, relocation>>

\* posix_memalign: the alignments it accepts are fewer.
PosixMemalign(align, s, p) == align % 8 = 0 /\ AlignedAlloc(align, s, p)

\* free, and realloc to 0 bytes.
Free(p) ==
  /\ Usable(p)
  /\ Dealloc(p)
  /\ Forget({p})
  /\ UNCHANGED <<call, relocation>>

\* calloc up to its malloc.
CallocAlloc(t, nmemb, s, p) ==
  LET total == CallocTotal(nmemb, s) IN
  /\ call[t] = Returned
  /\ IsLayout(total, 8)
  /\ Alloc(total, 8, p)
  /\ call' = [call EXCEPT ![t] = [op |-> "calloc", ptr |-> Null, new |-> p,
                                  size |-> nmemb * s, bytes |-> total]]
  /\ UNCHANGED <<held, asked, relocation>>

\* Mutant: the new block is not cleared, as if it always came from mmap.
CallocZeroNot(t) ==
  /\ call[t].op = "calloc"
  /\ Hold({}, call[t].new, call[t].size)
  /\ call' = [call EXCEPT ![t] = Returned]
  /\ UNCHANGED <<mapped, contents, free, relocation>>

\* write_bytes, and calloc returns.
CallocZero(t) ==
  LET p == call[t].new IN
  /\ call[t].op = "calloc"
  /\ contents' = [contents EXCEPT ![p[1]][p[2]].cells =
                    [m \in Marks |-> IF m < call[t].bytes THEN 0 ELSE @[m]]]
  /\ Hold({}, p, call[t].size)
  /\ call' = [call EXCEPT ![t] = Returned]
  /\ UNCHANGED <<mapped, free, relocation>>

\* realloc up to its malloc; when that fails the old block is untouched.
ReallocAlloc(t, p, s, q) ==
  LET old_size == GetAllocSize(p) IN
  /\ call[t] = Returned
  /\ Usable(p)
  /\ IsLayout(s, 8)
  /\ Alloc(s, 8, q)
  /\ call' = [call EXCEPT ![t] = [op |-> "realloc", ptr |-> p, new |-> q, size |-> s,
                                  bytes |-> IF old_size < s THEN old_size ELSE s]]
  /\ UNCHANGED <<held, asked, relocation>>

\* copy_nonoverlapping.
ReallocCopy(t) ==
  LET q == call[t].new
      from == At(call[t].ptr).cells IN
  /\ call[t].op = "realloc"
  /\ contents' = [contents EXCEPT ![q[1]][q[2]].cells =
                    [m \in Marks |-> IF m < call[t].bytes THEN from[m] ELSE @[m]]]
  /\ call' = [call EXCEPT ![t].op = "copied"]
  /\ UNCHANGED <<mapped, free, held, asked, relocation>>

\* free of the old block, and realloc returns.
ReallocFree(t) ==
  /\ call[t].op = "copied"
  /\ Dealloc(call[t].ptr)
  /\ Hold({call[t].ptr}, call[t].new, call[t].size)
  /\ call' = [call EXCEPT ![t] = Returned]
  /\ UNCHANGED relocation

\* The program fills a block it holds.
Store(p) ==
  /\ Usable(p)
  /\ contents' = [contents EXCEPT ![p[1]][p[2]].cells =
                    [m \in Marks |-> IF m < asked[p] THEN 1 ELSE @[m]]]
  /\ UNCHANGED <<mapped, relocation, heapVars>>

-----------------------------------------------------------------------------
(* Composition with the compactor *)

Relocate(src, temp) ==
  /\ \A p \in InCalls : p[1] # src
  /\ RelocateCopy(src, temp)
  /\ UNCHANGED heapVars

\* A region that could not be mapped again is gone with all its blocks.
Lose ==
  LET P == {p \in Ptrs : p[1] = relocation.src} IN
  /\ RelocateMapFails
  /\ free' = [c \in Classes |-> free[c] \ P]
  /\ Forget(P)
  /\ UNCHANGED call

Next ==
  \/ \E s \in Sizes, p \in Ptrs :
       \/ Malloc(s, p)
       \/ \E a \in Alignments : AlignedAlloc(a, s, p) \/ PosixMemalign(a, s, p)
       \/ \E t \in Threads, n \in Members : CallocAlloc(t, n, s, p)
       \/ \E t \in Threads, o \in held : ReallocAlloc(t, o, s, p)
  \/ \E t \in Threads : CallocZero(t) \/ ReallocCopy(t) \/ ReallocFree(t)
  \/ \E p \in held : Free(p) \/ Store(p)
  \/ \E src, temp \in Pages : Relocate(src, temp)
  \/ RelocateStep /\ UNCHANGED heapVars
  \/ Lose

Spec == Init /\ [][Next]_vars

-----------------------------------------------------------------------------
(* Properties *)

\* What the program finds behind a pointer it holds.
Behind(p) ==
  [size |-> asked[p],
   cells |-> [m \in {x \in Marks : x < asked[p]} |-> Kept(p[1])[p[2]].cells[m]]]

Heap == INSTANCE ProgramHeap
  WITH heap <- [p \in held |-> Behind(p)]

\* The C functions are the heap a program expects, with other calls and
\* relocations between any two steps of calloc and realloc: realloc keeps the
\* contents both sizes have, in the new block or, on failure, in the old one,
\* and nothing else ever changes what a block the program holds contains.
IsProgramHeap == Heap!Spec

\* get_alloc_size finds the size that was asked for, through whichever header
\* the block has, whatever its memory held before.
SizesRemembered ==
  \A p \in held : Accessible(p[1]) => GetAllocSize(p) = asked[p]

\* The blocks of region p somebody can still reach.
Owned(p) ==
  {q \in held \cup InCalls \cup UNION {free[c] : c \in Classes} : q[1] = p}

\* A region is mapped as long as one of its blocks is held, in use by a call or
\* cached, or it is the compactor's copy; a large one with the length that will
\* be unmapped.  No block is free and held at once.
PagesOwned ==
  /\ \A p \in Pages \ {relocation.src, relocation.temp} :
       /\ mapped[p] > 0 <=> Owned(p) # {}
       /\ contents[p][1].lo = LARGE_MAGIC => mapped[p] = contents[p][0].hi
  /\ relocation.temp # NoPage => mapped[relocation.temp] = relocation.pages
  /\ \A c \in Classes : free[c] \cap (held \cup InCalls) = {}

\* calloc returns zeroes although cached blocks keep what the program stored in
\* them before they were freed.
CallocZeroed ==
  [][\A t \in Threads : call[t].op = "calloc" /\ call'[t] = Returned =>
       LET p == call[t].new IN
       \A m \in Marks : m < asked'[p] => contents'[p[1]][p[2]].cells[m] = 0]_vars
=============================================================================
