------------------------------- MODULE Buddy -------------------------------
(***************************************************************************)
(* BuddyAllocator of aethalloc-core/src/buddy.rs.  Addresses count blocks  *)
(* of the smallest order (2^MIN_ORDER bytes), and orders count from        *)
(* MIN_ORDER.  Free lists are kept as sequences.  The header in front of   *)
(* every block is kept as memory: it is read at addresses computed from    *)
(* the address of another block, where the header of an earlier block or   *)
(* the data of the program may be.                                         *)
(*                                                                         *)
(* Requests are powers of two between the two orders, as the contract of  *)
(* alloc says: others are refused or violate it.                           *)
(* The allocator is used by one thread at a time (&mut self); a method is  *)
(* one step.                                                               *)
(***************************************************************************)
EXTENDS Integers, Sequences

CONSTANTS
  TopOrder,   \* MAX_ORDER - MIN_ORDER
  Regions,    \* addresses PageAllocator::alloc may return for a region
  Contents    \* what the program may leave where a header could be read

Orders == 0 .. TopOrder
RegionSize == 2 ^ TopOrder
Region(r) == r .. r + RegionSize - 1
Addresses == UNION {Region(r) : r \in Regions}
Headers == [order : Orders, free : BOOLEAN]

ASSUME ConstantsAssumption ==
  /\ TopOrder \in Nat
  /\ Regions \subseteq Nat
  /\ \A r, q \in Regions : r # q => Region(r) \cap Region(q) = {}
  /\ Contents \subseteq Headers

None == -1

\* Memory fresh from mmap reads as a header of order 0 that is not free; the
\* code's order 0 is below MIN_ORDER and matches no order either.
Zeroes == [order |-> 0, free |-> FALSE]

VARIABLES
  freeLists,  \* free_lists: the blocks of each order, first one first
  header,     \* the BlockHeader each address holds, or what is there instead
  base,       \* base, None before the first region
  mapped,     \* the regions the allocator mapped
  leaked,     \* regions still mapped when their allocator was dropped
  live        \* the blocks the program holds: address and order

vars == <<freeLists, header, base, mapped, leaked, live>>

Init ==
  /\ freeLists = [k \in Orders |-> << >>]
  /\ header = [a \in Addresses |-> Zeroes]
  /\ base = None
  /\ mapped = {}
  /\ leaked = {}
  /\ live = {}

-----------------------------------------------------------------------------
(* alloc *)

\* Mutants: the last half is not linked; the block stays marked free.
HalvesShort(o, found) == o + 1 .. found - 1
AllocatedFree(h) == h

\* split: the free half of order k that block b leaves behind, the orders of
\* the halves, from the order found down to o.
UpperHalf(b, k) == b + 2 ^ k
Halves(o, found) == o .. found - 1

\* A header as alloc marks it.
Allocated(h) == [h EXCEPT !.free = FALSE]

\* Take the first block of the lowest order from o up that has one, in `lists`
\* and `hdr`; split it, its upper halves becoming free blocks; mark it.
Take(o, lists, hdr) ==
  LET found == CHOOSE k \in o .. TopOrder :
                 lists[k] # << >> /\ \A j \in o .. k - 1 : lists[j] = << >>
      b == Head(lists[found])
      halves == Halves(o, found) IN
  /\ freeLists' = [k \in Orders |->
                     CASE k \in halves -> <<UpperHalf(b, k)>> \o lists[k]
                       [] k = found    -> Tail(lists[k])
                       [] OTHER        -> lists[k]]
  /\ header' = [a \in Addresses |->
                  CASE a = b -> Allocated([hdr[b] EXCEPT !.order = IF found = o THEN @ ELSE o])
                    [] \E k \in halves : a = UpperHalf(b, k) ->
                         [order |-> CHOOSE k \in halves : a = UpperHalf(b, k), free |-> TRUE]
                    [] OTHER -> hdr[a]]
  /\ live' = live \cup {<<b, o>>}

HasBlock(o) == \E k \in o .. TopOrder : freeLists[k] # << >>

\* alloc(2^o) when some list has a block large enough.
Alloc(o) ==
  /\ HasBlock(o)
  /\ Take(o, freeLists, header)
  /\ UNCHANGED <<base, mapped, leaked>>

\* alloc(2^o) when none has: alloc_new_region, init and alloc again.  (When
\* mmap fails alloc returns None and nothing changes.)
AllocNewRegion(o, r) ==
  /\ ~HasBlock(o)
  /\ r \notin mapped \cup leaked
  /\ mapped' = mapped \cup {r}
  /\ base' = r
  /\ Take(o, [freeLists EXCEPT ![TopOrder] = <<r>>],
          [a \in Addresses |-> CASE a = r -> [order |-> TopOrder, free |-> TRUE]
                                 [] a \in Region(r) \ {r} -> Zeroes
                                 [] OTHER -> header[a]])
  /\ UNCHANGED leaked

-----------------------------------------------------------------------------
(* dealloc *)

\* a ^ (1 << k)
Xor(a, k) == IF (a \div 2 ^ k) % 2 = 0 THEN a + 2 ^ k ELSE a - 2 ^ k

\* Block b of order o after merging up to order k: the lower of each pair of
\* addresses that differ in one bit is kept.
Merged(b, o, k) == (b \div 2 ^ k) * 2 ^ k + (b % 2 ^ o)

\* Mutants: any free header is a buddy; only one pair is merged.
CanMergeAnyOrder(b, o, k) ==
  LET buddy == Xor(Merged(b, o, k), k) IN
  base # None /\ buddy \in Region(base) /\ header[buddy].free
TopOnce(b, o) == o

\* The pair at order k can be merged: the address is in the region, and holds
\* the header of a free block of the same order.
CanMerge(b, o, k) ==
  LET buddy == Xor(Merged(b, o, k), k) IN
  /\ base # None
  /\ buddy \in Region(base)
  /\ header[buddy].free
  /\ header[buddy].order = k

\* The order at which coalesce stops.
Top(b, o) ==
  CHOOSE m \in o .. TopOrder :
    /\ \A k \in o .. m - 1 : CanMerge(b, o, k)
    /\ m < TopOrder => ~CanMerge(b, o, m)

\* dealloc(b, 2^o) with coalesce and remove_from_free_list.
Dealloc(b, o) ==
  LET top == Top(b, o)
      merged == o .. top - 1
      Last(a) == CHOOSE k \in o .. top :
                   a = Merged(b, o, k) /\ (k < top => a # Merged(b, o, k + 1)) IN
  /\ <<b, o>> \in live
  /\ live' = live \ {<<b, o>>}
  /\ freeLists' = [k \in Orders |->
                     CASE k \in merged ->
                            SelectSeq(freeLists[k], LAMBDA a : a # Xor(Merged(b, o, k), k))
                       [] k = top -> <<Merged(b, o, k)>> \o freeLists[k]
                       [] OTHER   -> freeLists[k]]
  /\ header' = [a \in Addresses |->
                  IF \E k \in o .. top : a = Merged(b, o, k)
                    THEN [order |-> Last(a), free |-> TRUE]
                    ELSE header[a]]
  /\ UNCHANGED <<base, mapped, leaked>>

-----------------------------------------------------------------------------
(* drop, and the program *)

\* Drop: only the last region is unmapped.  A new allocator may follow.
Drop ==
  /\ live = {}
  /\ base # None
  /\ leaked' = leaked \cup (mapped \ {base})
  /\ mapped' = {}
  /\ base' = None
  /\ freeLists' = [k \in Orders |-> << >>]
  /\ UNCHANGED <<header, live>>

\* The program writes data that would read as header h into a block it holds.
Write(b, o, a, h) ==
  /\ <<b, o>> \in live
  /\ a \in b + 1 .. b + 2 ^ o - 1
  /\ header' = [header EXCEPT ![a] = h]
  /\ UNCHANGED <<freeLists, base, mapped, leaked, live>>

Next ==
  \/ \E o \in Orders : Alloc(o) \/ \E r \in Regions : AllocNewRegion(o, r)
  \/ \E x \in live : \/ Dealloc(x[1], x[2])
                      \/ \E a \in Addresses, h \in Contents : Write(x[1], x[2], a, h)
  \/ Drop

Spec == Init /\ [][Next]_vars

-----------------------------------------------------------------------------
(* Properties *)

FreeBlocks == {<<a, k>> \in Addresses \X Orders :
                 \E i \in DOMAIN freeLists[k] : freeLists[k][i] = a}
Extent(x) == x[1] .. x[1] + 2 ^ x[2] - 1

\* No two blocks share memory, whether the program holds them or a free list
\* does, and no free list holds a block twice: what alloc hands out after any
\* sequence of splits and merges overlaps nothing in use.
BlocksDisjoint ==
  /\ \A x, y \in live \cup FreeBlocks : x # y => Extent(x) \cap Extent(y) = {}
  /\ live \cap FreeBlocks = {}
  /\ \A k \in Orders : \A i, j \in DOMAIN freeLists[k] :
       freeLists[k][i] = freeLists[k][j] => i = j

\* Every address of the regions is in a block that is held or free: split and
\* coalesce lose no memory.
NothingLost ==
  UNION {Region(r) : r \in mapped} = UNION {Extent(x) : x \in live \cup FreeBlocks}

\* The header coalesce will read in front of a block tells the truth about it,
\* although headers are never erased when their block is merged or split.
HeadersTrue ==
  /\ \A x \in live : ~header[x[1]].free
  /\ \A x \in FreeBlocks : header[x[1]] = [order |-> x[2], free |-> TRUE]

\* Once the program has returned every block of the current region, in any
\* order, coalesce has rebuilt the one block of MAX_ORDER.  (A block of an
\* earlier region is never merged: it is outside base and region_size.)
WholeAgain ==
  base # None /\ (\A x \in live : x[1] \notin Region(base)) => <<base, TopOrder>> \in FreeBlocks
=============================================================================
