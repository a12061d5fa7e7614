-------------------------- MODULE ThreadLocalCache --------------------------
(***************************************************************************)
(* ThreadLocalCache of aethalloc-core/src/thread_local.rs: a free list per *)
(* size class, linked through the first word of the blocks, each block a   *)
(* region of its own.  One thread uses the cache; a method is one step.    *)
(***************************************************************************)
EXTENDS PageAllocator, SizeClasses

CONSTANTS
  CACHE_SIZE,   \* most blocks a list may hold
  Sizes         \* sizes the program asks for

ASSUME CacheAssumption == CACHE_SIZE \in Nat /\ Sizes \subseteq Nat

Slots == 0 .. TINY_CLASSES + SMALL_CLASSES - 1

VARIABLES
  head,     \* head of each slot, tiny before small
  count,    \* count of each slot
  held      \* the blocks the program holds: address and requested size

cacheVars == <<head, count, held>>

CacheInit ==
  /\ head = [i \in Slots |-> Nil]
  /\ count = [i \in Slots |-> 0]
  /\ held = {}

\* Mutant: an 8K block is mapped as one page.
PagesForSlotOne(i) == 1

\* Pages alloc maps, and clear_slot unmaps, for a block of slot i.
PagesForSlot(i) == Larger(DivCeil(SizeForIndex(i), PAGE_SIZE), 1)

\* Pages dealloc unmaps for a block of size s.
PagesForSize(s) == DivCeil(RoundUpPow2(s), PAGE_SIZE)

\* alloc(s) from the list of its slot.
CacheAlloc(s) ==
  LET i == GetSlot(s) IN
  /\ i # None
  /\ head[i] # Nil
  /\ head' = [head EXCEPT ![i] = memory[head[i]]]
  /\ count' = [count EXCEPT ![i] = @ - 1]
  /\ held' = held \cup {<<head[i][1], s>>}
  /\ memory' = [memory EXCEPT ![head[i]] = Data]
  /\ UNCHANGED mapped

\* alloc(s) from the page allocator.  (A size without a slot, or a failing
\* mmap, returns None and changes nothing.)
CacheAllocPage(s, p) ==
  LET i == GetSlot(s) IN
  /\ i # None
  /\ head[i] = Nil
  /\ Map(p, PagesForSlot(i))
  /\ memory' = [Fresh(p, memory) EXCEPT ![<<p, 0>>] = Data]
  /\ held' = held \cup {<<p, s>>}
  /\ UNCHANGED <<head, count>>

\* Mutant: the bound is tested after the block is linked, too late by one.
IsFullLate(i) == count[i] > CACHE_SIZE

IsFull(i) == count[i] >= CACHE_SIZE

\* dealloc(p, s), s being the size asked for.
CacheDealloc(p, s) ==
  LET i == GetSlot(s) IN
  /\ <<p, s>> \in held
  /\ held' = held \ {<<p, s>>}
  /\ IF i = None \/ IsFull(i)
       THEN /\ mapped' = Unmapped(mapped, p, PagesForSize(s))
            /\ UNCHANGED <<head, count, memory>>
       ELSE /\ memory' = [memory EXCEPT ![<<p, 0>>] = head[i]]
            /\ head' = [head EXCEPT ![i] = <<p, 0>>]
            /\ count' = [count EXCEPT ![i] = @ + 1]
            /\ UNCHANGED mapped

\* The blocks on the list that starts at word w, at most n of them.
ListFrom[n \in Nat, w \in Words \cup {Nil, Data}] ==
  IF n = 0 \/ w \notin Words THEN {} ELSE {w[1]} \cup ListFrom[n - 1, memory[w]]

Cached(i) == ListFrom[CACHE_SIZE + 1, head[i]]

\* clear, which Drop calls: every list is walked and its blocks unmapped.
Clear ==
  /\ mapped' = [p \in Pages |->
                  IF \E i \in Slots : p \in Cached(i)
                    THEN mapped[p] - PagesForSlot(CHOOSE i \in Slots : p \in Cached(i))
                    ELSE mapped[p]]
  /\ head' = [i \in Slots |-> Nil]
  /\ count' = [i \in Slots |-> 0]
  /\ UNCHANGED <<memory, held>>

CacheNext ==
  \/ \E s \in Sizes : CacheAlloc(s) \/ \E p \in Pages : CacheAllocPage(s, p)
  \/ \E x \in held : CacheDealloc(x[1], x[2])
  \/ Clear
=============================================================================
