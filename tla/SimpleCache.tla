---------------------------- MODULE SimpleCache ----------------------------
(***************************************************************************)
(* The simple-cache build of aethalloc-abi/src/global.rs (the one without  *)
(* the feature magazine-caching) for the blocks of one size class: a list  *)
(* of free blocks per thread and GlobalFreeList, a lock-free list that     *)
(* threads with too many free blocks push batches to and threads with none *)
(* pop from.  The lists are threaded through the blocks: the word that     *)
(* links a free block is the word that holds the size of a live one.       *)
(* Classes share nothing but the page allocator.                           *)
(*                                                                         *)
(* Every access to GlobalFreeList is a step, and a weak compare-exchange   *)
(* may fail for no reason.  What a thread does to its own list is one.     *)
(***************************************************************************)
EXTENDS Integers, Sequences, FiniteSets

CONSTANTS
  Threads,
  Allocators,            \* the threads that allocate; all threads free
  Pages,
  PerPage,               \* blocks_per_page
  MAX_FREE_LIST_LENGTH,
  GLOBAL_FREE_BATCH,
  MaxLive,               \* the blocks the program holds at most
  Null,
  Sizes                  \* the sizes of the class, as the program asks for them

Blocks == Pages \X (0 .. PerPage - 1)

ASSUME ConstantsAssumption ==
  /\ Allocators \subseteq Threads
  /\ PerPage \in Nat /\ PerPage > 1
  /\ MAX_FREE_LIST_LENGTH > GLOBAL_FREE_BATCH /\ MAX_FREE_LIST_LENGTH >= PerPage
  /\ Null \notin Blocks \cup Sizes /\ Sizes \cap Blocks = {}

VARIABLES
  heads, counts,         \* THREAD_CACHE
  word,                  \* the first word of every block
  head,                  \* GlobalFreeList::head
  live,                  \* the blocks the program holds
  carved,                \* the blocks cut from mapped pages
  pc,
  current, next,         \* locals of push_batch and pop
  batch_head, batch_tail,
  transferred            \* local of pop_batch

cacheVars == <<heads, counts>>
popVars == <<current, next, transferred>>
pushVars == <<batch_head, batch_tail>>
vars == <<cacheVars, word, head, live, carved, pc, popVars, pushVars>>

Init ==
  /\ heads = [t \in Threads |-> Null]
  /\ counts = [t \in Threads |-> 0]
  /\ word = [b \in Blocks |-> Null]
  /\ head = Null
  /\ live = {}
  /\ carved = {}
  /\ pc = [t \in Threads |-> "idle"]
  /\ current = [t \in Threads |-> Null]
  /\ next = [t \in Threads |-> Null]
  /\ transferred = [t \in Threads |-> 0]
  /\ batch_head = [t \in Threads |-> Null]
  /\ batch_tail = [t \in Threads |-> Null]

Goto(t, l) == pc' = [pc EXCEPT ![t] = l]

-----------------------------------------------------------------------------
(* alloc *)

\* Threads between the start of alloc and its return.
Allocating == {t \in Threads : pc[t] \in {"pop", "read", "cas", "take", "miss"}}

\* A program that keeps MaxLive blocks does not ask for another one.
MayAllocate(t) ==
  /\ pc[t] = "idle"
  /\ t \in Allocators
  /\ Cardinality(live) + Cardinality(Allocating) < MaxLive

\* Mutant: the block stays in the list.
TakeKeeps(t, s) ==
  /\ counts' = [counts EXCEPT ![t] = @ - 1]
  /\ word' = [word EXCEPT ![heads[t]] = s]
  /\ live' = live \cup {heads[t]}
  /\ UNCHANGED <<heads, head, carved, current, next, pushVars>>

\* The first block of the thread's list is returned, the size over its link.
Take(t, s) ==
  /\ heads' = [heads EXCEPT ![t] = word[@]]
  /\ counts' = [counts EXCEPT ![t] = @ - 1]
  /\ word' = [word EXCEPT ![heads[t]] = s]
  /\ live' = live \cup {heads[t]}
  /\ UNCHANGED <<head, carved, current, next, pushVars>>

AllocLocal(t, s) ==
  /\ MayAllocate(t)
  /\ heads[t] # Null
  /\ Take(t, s)
  /\ UNCHANGED <<pc, transferred>>

\* Mutant: pages are mapped without a look at the global list.
AllocLookNot(t) ==
  /\ MayAllocate(t)
  /\ heads[t] = Null
  /\ Goto(t, "miss")
  /\ UNCHANGED <<cacheVars, word, head, live, carved, popVars, pushVars>>

\* The list is empty: is the global one?
AllocLook(t) ==
  /\ MayAllocate(t)
  /\ heads[t] = Null
  /\ Goto(t, IF head = Null THEN "miss" ELSE "pop")
  /\ UNCHANGED <<cacheVars, word, head, live, carved, popVars, pushVars>>

\* pop has h for the head: null ends it, and the batch with it.
Popping(t, h) ==
  /\ current' = [current EXCEPT ![t] = h]
  /\ Goto(t, CASE h # Null -> "read"
               [] h = Null /\ transferred[t] > 0 -> "take"
               [] OTHER -> "miss")
  /\ UNCHANGED <<cacheVars, word, head, live, carved, transferred, pushVars>>

PopLoad(t) ==
  /\ pc[t] = "pop"
  /\ Popping(t, head)
  /\ UNCHANGED next

\* The link of a block another thread may have popped meanwhile.  Read from a
\* size taken for an address, it ends the program.
PopRead(t) ==
  /\ pc[t] = "read"
  /\ current[t] \in Blocks
  /\ next' = [next EXCEPT ![t] = word[current[t]]]
  /\ Goto(t, "cas")
  /\ UNCHANGED <<cacheVars, word, head, live, carved, current, transferred, pushVars>>

\* The block is the thread's, and goes to its list.
PopCasOk(t) ==
  /\ pc[t] = "cas"
  /\ head = current[t]
  /\ head' = next[t]
  /\ word' = [word EXCEPT ![current[t]] = heads[t]]
  /\ heads' = [heads EXCEPT ![t] = current[t]]
  /\ counts' = [counts EXCEPT ![t] = @ + 1]
  /\ transferred' = [transferred EXCEPT ![t] = @ + 1]
  /\ current' = [current EXCEPT ![t] = Null]
  /\ next' = [next EXCEPT ![t] = Null]
  /\ Goto(t, IF transferred[t] + 1 < GLOBAL_FREE_BATCH THEN "pop" ELSE "take")
  /\ UNCHANGED <<live, carved, pushVars>>

PopCasFail(t) ==
  /\ pc[t] = "cas"
  /\ Popping(t, head)
  /\ next' = [next EXCEPT ![t] = Null]

AllocTransferred(t, s) ==
  /\ pc[t] = "take"
  /\ Take(t, s)
  /\ transferred' = [transferred EXCEPT ![t] = 0]
  /\ Goto(t, "idle")

\* A miss: block 0 of a new page is returned, the others are linked.
Carve(t, s, p) ==
  LET Rest == {p} \X (1 .. PerPage - 1) IN
  /\ pc[t] = "miss"
  /\ \A b \in carved : b[1] # p
  /\ word' = [b \in Blocks |->
       CASE b = <<p, 0>> -> s
         [] b = <<p, 1>> -> heads[t]
         [] b \in Rest /\ b[2] > 1 -> <<p, b[2] - 1>>
         [] OTHER -> word[b]]
  /\ heads' = [heads EXCEPT ![t] = <<p, PerPage - 1>>]
  /\ counts' = [counts EXCEPT ![t] = @ + PerPage - 1]
  /\ carved' = carved \cup Rest \cup {<<p, 0>>}
  /\ live' = live \cup {<<p, 0>>}
  /\ Goto(t, "idle")
  /\ UNCHANGED <<head, popVars, pushVars>>

\* The mapping failed, and the next attempt asks for one block.
CarveSingle(t, s, p) ==
  /\ pc[t] = "miss"
  /\ \A b \in carved : b[1] # p
  /\ word' = [word EXCEPT ![<<p, 0>>] = s]
  /\ carved' = carved \cup {<<p, 0>>}
  /\ live' = live \cup {<<p, 0>>}
  /\ Goto(t, "idle")
  /\ UNCHANGED <<cacheVars, head, popVars, pushVars>>

MissFails(t) ==
  /\ pc[t] = "miss"
  /\ Goto(t, "idle")
  /\ UNCHANGED <<cacheVars, word, head, live, carved, popVars, pushVars>>

-----------------------------------------------------------------------------
(* dealloc *)

\* The block reached from b over n links, null where the list ends before.
Walk(words, b, n) ==
  LET at[i \in 0 .. n] == IF i = 0 \/ at[i - 1] = Null
                            THEN IF i = 0 THEN b ELSE Null ELSE words[at[i - 1]]
  IN at[n]

FlushCount(n) == n \div 2

\* Mutant: the walk begins with none walked over.
BatchTailPast(words, b, n) == Walk(words, b, FlushCount(n))

\* The last block of the batch that begins with b; b counts as walked over.
BatchTail(words, b, n) == Walk(words, b, FlushCount(n) - 1)

\* The block goes to the front of the thread's list.  From a list that has become
\* too long the first half is cut, to be pushed to the global list.
Dealloc(t, b) ==
  LET linked == [word EXCEPT ![b] = heads[t]]
      n == counts[t] + 1
      tail == BatchTail(linked, b, n) IN
  /\ pc[t] = "idle"
  /\ b \in live
  /\ live' = live \ {b}
  /\ IF n >= MAX_FREE_LIST_LENGTH /\ tail # Null
       THEN /\ word' = [linked EXCEPT ![tail] = Null]
            /\ heads' = [heads EXCEPT ![t] = linked[tail]]
            /\ counts' = [counts EXCEPT ![t] = n - FlushCount(n)]
            /\ batch_head' = [batch_head EXCEPT ![t] = b]
            /\ batch_tail' = [batch_tail EXCEPT ![t] = tail]
            /\ Goto(t, "push")
       ELSE /\ word' = linked
            /\ heads' = [heads EXCEPT ![t] = b]
            /\ counts' = [counts EXCEPT ![t] = n]
            /\ UNCHANGED <<pc, pushVars>>
  /\ UNCHANGED <<head, carved, popVars>>

\* push_batch: load the head ...
PushLoad(t) ==
  /\ pc[t] = "push"
  /\ current' = [current EXCEPT ![t] = head]
  /\ Goto(t, "link")
  /\ UNCHANGED <<cacheVars, word, head, live, carved, next, transferred, pushVars>>

\* ... link the tail to it ...
PushLink(t) ==
  /\ pc[t] = "link"
  /\ word' = [word EXCEPT ![batch_tail[t]] = current[t]]
  /\ Goto(t, "push_cas")
  /\ UNCHANGED <<cacheVars, head, live, carved, popVars, pushVars>>

\* ... and exchange it for the first block of the batch ...
PushCasOk(t) ==
  /\ pc[t] = "push_cas"
  /\ head = current[t]
  /\ head' = batch_head[t]
  /\ batch_head' = [batch_head EXCEPT ![t] = Null]
  /\ batch_tail' = [batch_tail EXCEPT ![t] = Null]
  /\ current' = [current EXCEPT ![t] = Null]
  /\ Goto(t, "idle")
  /\ UNCHANGED <<cacheVars, word, live, carved, next, transferred>>

\* Mutant: the retry does not link the tail again.
PushCasFailNoRelink(t) ==
  /\ pc[t] = "push_cas"
  /\ current' = [current EXCEPT ![t] = head]
  /\ UNCHANGED <<cacheVars, word, head, live, carved, pc, next, transferred, pushVars>>

\* ... or start again with the head that was seen.
PushCasFail(t) ==
  /\ pc[t] = "push_cas"
  /\ current' = [current EXCEPT ![t] = head]
  /\ Goto(t, "link")
  /\ UNCHANGED <<cacheVars, word, head, live, carved, next, transferred, pushVars>>

Step(t) ==
  \/ \E s \in Sizes :
       \/ AllocLocal(t, s) \/ AllocTransferred(t, s)
       \/ \E p \in Pages : Carve(t, s, p) \/ CarveSingle(t, s, p)
  \/ AllocLook(t)
  \/ PopLoad(t) \/ PopRead(t) \/ PopCasOk(t) \/ PopCasFail(t)
  \/ MissFails(t)
  \/ \E b \in live : Dealloc(t, b)
  \/ PushLoad(t) \/ PushLink(t) \/ PushCasOk(t) \/ PushCasFail(t)

Next == \E t \in Threads : Step(t)

Spec == Init /\ [][Next]_vars

-----------------------------------------------------------------------------
(* Properties *)

\* The blocks met from b, up to and including last if it is met.
Chain(b, last) ==
  LET from[n \in 0 .. Cardinality(Blocks) + 1, x \in Blocks \cup Sizes \cup {Null}] ==
        IF n = 0 \/ x \notin Blocks THEN << >>
        ELSE <<x>> \o IF x = last THEN << >> ELSE from[n - 1, word[x]]
  IN from[Cardinality(Blocks) + 1, b]

In(s) == {s[i] : i \in DOMAIN s}
Local(t) == Chain(heads[t], Null)
Global == Chain(head, Null)
Batch(t) == Chain(batch_head[t], batch_tail[t])

\* Every block cut from a page is in exactly one place: with the program, in one
\* thread's list, in a batch on its way, or in the global list; and no list
\* has a cycle or runs into a block in use, although the links are words the
\* program's sizes overwrite.
BlocksOnce ==
  LET Lists == {Local(t) : t \in Threads} \cup {Batch(t) : t \in Threads} \cup {Global} IN
  /\ \A b \in carved :
       Cardinality({l \in Lists : b \in In(l)}) = IF b \in live THEN 0 ELSE 1
  /\ \A l \in Lists : Cardinality(In(l)) = Len(l) /\ In(l) \subseteq carved

\* The count a thread keeps is the length of its list, so that it never
\* underflows and the walk to the end of a batch never leaves the list; and no
\* thread ever keeps MAX_FREE_LIST_LENGTH blocks.
CountsExact ==
  \A t \in Threads : counts[t] = Len(Local(t)) /\ counts[t] < MAX_FREE_LIST_LENGTH

\* Flushing bounds the memory a program takes whose threads free each other's
\* blocks: all blocks ever cut are those it holds, one list and batch for each
\* other thread, and one page for each thread that allocates.
FootprintBounded ==
  Cardinality(carved) <= MaxLive - 1 + (Cardinality(Threads) - 1) * MAX_FREE_LIST_LENGTH
                           + Cardinality(Allocators) * PerPage

Heap == INSTANCE BlockHeap WITH heap <- [b \in live |-> word[b]]

\* alloc and dealloc are a heap: alloc returns a block nobody holds, no call takes a
\* block from its holder, and no list operation writes over the size of a block
\* that is held.
IsBlockHeap == Heap!Spec
=============================================================================
