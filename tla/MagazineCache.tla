--------------------------- MODULE MagazineCache ---------------------------
(***************************************************************************)
(* The default (magazine-caching) build of AethAlloc: alloc and dealloc of *)
(* a size that has a class, with the per-thread magazines of               *)
(* aethalloc-abi/src/global.rs and the lock-free full/empty stacks of      *)
(* aethalloc-core/src/magazine.rs.                                         *)
(*                                                                         *)
(* Every access to a word that another thread may touch is a step of its   *)
(* own; the steps between two such accesses work on thread-local memory    *)
(* and are folded into the access they surround.  alloc_node is used       *)
(* through its contract (a node nobody was given before, or null); module  *)
(* MetadataAllocator models its body.                                      *)
(***************************************************************************)
EXTENDS Integers, Sequences

CONSTANTS
  Threads,    \* threads calling the allocator
  Classes,    \* size classes, one global pool each
  Sizes,      \* requested sizes
  ClassOf,    \* size_to_class: the class of each size
  Pages,      \* regions PageAllocator::alloc may return, each at most once
  PerPage,    \* blocks_per_page of each class
  Nodes,      \* MagazineNodes alloc_node may return
  Capacity,   \* MAGAZINE_CAPACITY
  Null        \* the null pointer

ASSUME ConstantsAssumption ==
  /\ Capacity \in Nat \ {0}
  /\ ClassOf \in [Sizes -> Classes]
  /\ PerPage \in [Classes -> Nat]
  /\ Null \notin Nodes /\ Null \notin Sizes /\ Null \notin Classes
  /\ Null \notin Pages \X (0 .. Capacity)

VARIABLES
  mag,        \* every Magazine object: its blocks, bottom first
  header,     \* the size word at the start of each block
  live,       \* the blocks the program holds
  pages,      \* how each region was carved: class and blocks in circulation
  fullHead,   \* GlobalMagazinePool.full_head of each class
  emptyHead,  \* GlobalMagazinePool.empty_head of each class
  next,       \* MagazineNode.next
  pc, size, blk, node, cur, nxt,   \* where each thread is, and its locals
  stage,      \* history: how far each node got in its life
  fullSeq,    \* history: the nodes pushed to full and not popped, top first
  dropped     \* history: the blocks dealloc failed to store

pool == <<fullHead, emptyHead, next, stage, fullSeq>>
vars == <<mag, header, live, pages, pool, pc, size, blk, node, cur, nxt, dropped>>

-----------------------------------------------------------------------------
(* Magazines.  A block is a region and an index: a region yields at most  *)
(* one block for the caller and a magazine full of others.                *)

Blocks == Pages \X (0 .. Capacity)

AllocMag(t, c) == <<"alloc", t, c>>
FreeMag(t, c)  == <<"free", t, c>>
NodeMag(n)     == <<"node", n, Null>>

Slots == ({"alloc", "free"} \X Threads \X Classes) \cup ({"node"} \X Nodes \X {Null})

PcValues == {"idle", "pop_read", "pop_cas", "refill", "pe_link", "pe_cas",
             "finish", "miss", "need_node", "pf_link", "pf_cas"}

Stages == {"fresh", "filled", "full", "taken", "empty"}

Magazines == {m \in Seq(Blocks) : Len(m) <= Capacity}

\* Mutant: is_full one block early.
IsFullEarly(m) == Len(m) + 1 >= Capacity

IsFull(m) == Len(m) >= Capacity
Top(m)    == m[Len(m)]
Pop(m)    == [i \in 1 .. Len(m) - 1 |-> m[i]]

Smaller(a, b) == IF a < b THEN a ELSE b

\* How many of `count` blocks bulk_init takes into magazine m.
BulkCount(m, count) == Smaller(count, Capacity - Len(m))

BulkInit(m, p, count) == m \o [i \in 1 .. BulkCount(m, count) |-> <<p, i>>]

Unmapped == [class |-> Null, n |-> 0]
FreshPages == {p \in Pages : pages[p].n = 0}

Cls(t) == ClassOf[size[t]]

-----------------------------------------------------------------------------
Init ==
  /\ mag = [l \in Slots |-> << >>]
  /\ header = [b \in Blocks |-> Null]
  /\ live = {}
  /\ pages = [p \in Pages |-> Unmapped]
  /\ fullHead = [c \in Classes |-> Null]
  /\ emptyHead = [c \in Classes |-> Null]
  /\ next = [n \in Nodes |-> Null]
  /\ pc = [t \in Threads |-> "idle"]
  /\ size = [t \in Threads |-> Null]
  /\ blk = [t \in Threads |-> Null]
  /\ node = [t \in Threads |-> Null]
  /\ cur = [t \in Threads |-> Null]
  /\ nxt = [t \in Threads |-> Null]
  /\ stage = [n \in Nodes |-> "fresh"]
  /\ fullSeq = [c \in Classes |-> << >>]
  /\ dropped = {}

\* alloc writes the size word of block b and returns it to the program.
HandOut(b, s) ==
  /\ header' = [header EXCEPT ![b] = s]
  /\ live' = live \cup {b}

\* The call of t returns: its locals are gone.
Return(t) ==
  /\ pc' = [pc EXCEPT ![t] = "idle"]
  /\ size' = [size EXCEPT ![t] = Null]
  /\ blk' = [blk EXCEPT ![t] = Null]
  /\ node' = [node EXCEPT ![t] = Null]
  /\ cur' = [cur EXCEPT ![t] = Null]
  /\ nxt' = [nxt EXCEPT ![t] = Null]

-----------------------------------------------------------------------------
(* alloc *)

\* The alloc magazine has a block.
AllocHit(t, s) ==
  LET A == AllocMag(t, ClassOf[s]) IN
  /\ pc[t] = "idle"
  /\ mag[A] # << >>
  /\ mag' = [mag EXCEPT ![A] = Pop(@)]
  /\ HandOut(Top(mag[A]), s)
  /\ UNCHANGED <<pages, pool, pc, size, blk, node, cur, nxt, dropped>>

\* It is empty, the free magazine is not: swap them and pop.
AllocSwap(t, s) ==
  LET A == AllocMag(t, ClassOf[s])
      F == FreeMag(t, ClassOf[s]) IN
  /\ pc[t] = "idle"
  /\ mag[A] = << >> /\ mag[F] # << >>
  /\ mag' = [mag EXCEPT ![A] = Pop(mag[F]), ![F] = mag[A]]
  /\ HandOut(Top(mag[F]), s)
  /\ UNCHANGED <<pages, pool, pc, size, blk, node, cur, nxt, dropped>>

\* pop_full holds `head` in current: null means None, otherwise read its next.
PopLoaded(t, head) ==
  /\ cur' = [cur EXCEPT ![t] = head]
  /\ pc' = [pc EXCEPT ![t] = IF head = Null THEN "miss" ELSE "pop_read"]

\* Both are empty: pop_full loads full_head.
AllocPopFull(t, s) ==
  LET c == ClassOf[s] IN
  /\ pc[t] = "idle"
  /\ mag[AllocMag(t, c)] = << >> /\ mag[FreeMag(t, c)] = << >>
  /\ size' = [size EXCEPT ![t] = s]
  /\ PopLoaded(t, fullHead[c])
  /\ UNCHANGED <<mag, header, live, pages, pool, blk, node, nxt, dropped>>

\* let next = (*current).next
PopRead(t) ==
  /\ pc[t] = "pop_read"
  /\ nxt' = [nxt EXCEPT ![t] = next[cur[t]]]
  /\ pc' = [pc EXCEPT ![t] = "pop_cas"]
  /\ UNCHANGED <<mag, header, live, pages, pool, size, blk, node, cur, dropped>>

\* compare_exchange_weak(current, next) succeeds: the node is this thread's.
PopCasOk(t) ==
  LET c == Cls(t) IN
  /\ pc[t] = "pop_cas"
  /\ fullHead[c] = cur[t]
  /\ fullHead' = [fullHead EXCEPT ![c] = nxt[t]]
  /\ node' = [node EXCEPT ![t] = cur[t]]
  /\ cur' = [cur EXCEPT ![t] = Null]
  /\ nxt' = [nxt EXCEPT ![t] = Null]
  /\ pc' = [pc EXCEPT ![t] = "refill"]
  /\ stage' = [stage EXCEPT ![cur[t]] = "taken"]
  /\ fullSeq' = [fullSeq EXCEPT ![c] = Tail(@)]
  /\ UNCHANGED <<mag, header, live, pages, emptyHead, next, size, blk, dropped>>

\* Mutant: the next of the new head is not read again.
PopCasFailNoReread(t) ==
  LET head == fullHead[Cls(t)] IN
  /\ pc[t] = "pop_cas"
  /\ cur' = [cur EXCEPT ![t] = head]
  /\ pc' = [pc EXCEPT ![t] = IF head = Null THEN "miss" ELSE "pop_cas"]
  /\ UNCHANGED <<mag, header, live, pages, pool, size, blk, node, nxt, dropped>>

\* It fails, for a changed head or spuriously, and returns the head it saw.
PopCasFail(t) ==
  /\ pc[t] = "pop_cas"
  /\ PopLoaded(t, fullHead[Cls(t)])
  /\ nxt' = [nxt EXCEPT ![t] = Null]
  /\ UNCHANGED <<mag, header, live, pages, pool, size, blk, node, dropped>>

\* Mutant: the magazine is copied out of the node, which is not cleared.
RefillKeeps(t) ==
  LET A == AllocMag(t, Cls(t)) IN
  /\ pc[t] = "refill"
  /\ mag' = [mag EXCEPT ![A] = mag[NodeMag(node[t])]]
  /\ cur' = [cur EXCEPT ![t] = emptyHead[Cls(t)]]
  /\ pc' = [pc EXCEPT ![t] = "pe_link"]
  /\ UNCHANGED <<header, live, pages, pool, size, blk, node, nxt, dropped>>

\* swap(alloc_mag, node.magazine); node.magazine.clear(); push_empty loads.
Refill(t) ==
  LET A == AllocMag(t, Cls(t))
      N == NodeMag(node[t]) IN
  /\ pc[t] = "refill"
  /\ mag' = [mag EXCEPT ![A] = mag[N], ![N] = << >>]
  /\ cur' = [cur EXCEPT ![t] = emptyHead[Cls(t)]]
  /\ pc' = [pc EXCEPT ![t] = "pe_link"]
  /\ UNCHANGED <<header, live, pages, pool, size, blk, node, nxt, dropped>>

\* push_empty: (*node).next = current
PushEmptyLink(t) ==
  /\ pc[t] = "pe_link"
  /\ next' = [next EXCEPT ![node[t]] = cur[t]]
  /\ pc' = [pc EXCEPT ![t] = "pe_cas"]
  /\ UNCHANGED <<mag, header, live, pages, fullHead, emptyHead, stage, fullSeq,
                 size, blk, node, cur, nxt, dropped>>

PushEmptyCasOk(t) ==
  LET c == Cls(t) IN
  /\ pc[t] = "pe_cas"
  /\ emptyHead[c] = cur[t]
  /\ emptyHead' = [emptyHead EXCEPT ![c] = node[t]]
  /\ stage' = [stage EXCEPT ![node[t]] = "empty"]
  /\ node' = [node EXCEPT ![t] = Null]
  /\ cur' = [cur EXCEPT ![t] = Null]
  /\ pc' = [pc EXCEPT ![t] = "finish"]
  /\ UNCHANGED <<mag, header, live, pages, fullHead, next, fullSeq, size, blk,
                 nxt, dropped>>

PushEmptyCasFail(t) ==
  /\ pc[t] = "pe_cas"
  /\ cur' = [cur EXCEPT ![t] = emptyHead[Cls(t)]]
  /\ pc' = [pc EXCEPT ![t] = "pe_link"]
  /\ UNCHANGED <<mag, header, live, pages, pool, size, blk, node, nxt, dropped>>

\* Pop from the refilled magazine, or fall through to the miss if it is empty.
Finish(t) ==
  LET A == AllocMag(t, Cls(t)) IN
  /\ pc[t] = "finish"
  /\ IF mag[A] # << >>
       THEN /\ mag' = [mag EXCEPT ![A] = Pop(@)]
            /\ HandOut(Top(mag[A]), size[t])
            /\ Return(t)
       ELSE /\ pc' = [pc EXCEPT ![t] = "miss"]
            /\ UNCHANGED <<mag, header, live, size, blk, node, cur, nxt>>
  /\ UNCHANGED <<pages, pool, dropped>>

\* Mutant: the size is not written to the block that is returned.
MissCarveUnsized(t, p) ==
  LET c == Cls(t)
      A == AllocMag(t, c) IN
  /\ pc[t] = "miss"
  /\ PerPage[c] > 1
  /\ pages' = [pages EXCEPT
                 ![p] = [class |-> c, n |-> 1 + BulkCount(mag[A], PerPage[c] - 1)]]
  /\ mag' = [mag EXCEPT ![A] = BulkInit(@, p, PerPage[c] - 1)]
  /\ live' = live \cup {<<p, 0>>}
  /\ Return(t)
  /\ UNCHANGED <<header, pool, dropped>>

\* Miss: a new page is carved, its first block returned, bulk_init takes the rest.
MissCarve(t, p) ==
  LET c == Cls(t)
      A == AllocMag(t, c) IN
  /\ pc[t] = "miss"
  /\ PerPage[c] > 1
  /\ pages' = [pages EXCEPT
                 ![p] = [class |-> c, n |-> 1 + BulkCount(mag[A], PerPage[c] - 1)]]
  /\ mag' = [mag EXCEPT ![A] = BulkInit(@, p, PerPage[c] - 1)]
  /\ HandOut(<<p, 0>>, size[t])
  /\ Return(t)
  /\ UNCHANGED <<pool, dropped>>

\* A region for one block: the class fills a page or more, or the first
\* PageAllocator::alloc failed and the second did not.
MissSingle(t, p) ==
  /\ pc[t] = "miss"
  /\ pages' = [pages EXCEPT ![p] = [class |-> Cls(t), n |-> 1]]
  /\ HandOut(<<p, 0>>, size[t])
  /\ Return(t)
  /\ UNCHANGED <<mag, pool, dropped>>

\* PageAllocator has no memory: alloc returns null.
MissFail(t) ==
  /\ pc[t] = "miss"
  /\ Return(t)
  /\ UNCHANGED <<mag, header, live, pages, pool, dropped>>

-----------------------------------------------------------------------------
(* dealloc *)

\* Mutant: the class is rounded down instead of up.
DeallocLocalBelow(t, b) ==
  LET c == ClassOf[header[b]]
      F == FreeMag(t, IF c - 1 \in Classes THEN c - 1 ELSE c) IN
  /\ pc[t] = "idle"
  /\ b \in live
  /\ ~IsFull(mag[F])
  /\ mag' = [mag EXCEPT ![F] = Append(@, b)]
  /\ live' = live \ {b}
  /\ UNCHANGED <<header, pages, pool, pc, size, blk, node, cur, nxt, dropped>>

\* The class comes from the size word; the free magazine takes the block.
DeallocLocal(t, b) ==
  LET F == FreeMag(t, ClassOf[header[b]]) IN
  /\ pc[t] = "idle"
  /\ b \in live
  /\ ~IsFull(mag[F])
  /\ mag' = [mag EXCEPT ![F] = Append(@, b)]
  /\ live' = live \ {b}
  /\ UNCHANGED <<header, pages, pool, pc, size, blk, node, cur, nxt, dropped>>

\* It is full: alloc_node is called.
DeallocOverflow(t, b) ==
  /\ pc[t] = "idle"
  /\ b \in live
  /\ IsFull(mag[FreeMag(t, ClassOf[header[b]])])
  /\ live' = live \ {b}
  /\ blk' = [blk EXCEPT ![t] = b]
  /\ size' = [size EXCEPT ![t] = header[b]]
  /\ pc' = [pc EXCEPT ![t] = "need_node"]
  /\ UNCHANGED <<mag, header, pages, pool, node, cur, nxt, dropped>>

\* alloc_node returned null: the push on the full magazine fails, unnoticed.
NodeNull(t) ==
  /\ pc[t] = "need_node"
  /\ dropped' = dropped \cup {blk[t]}
  /\ Return(t)
  /\ UNCHANGED <<mag, header, live, pages, pool>>

\* alloc_node returned n: the free magazine moves into it; push_full loads.
NodeTake(t, n) ==
  LET F == FreeMag(t, Cls(t)) IN
  /\ pc[t] = "need_node"
  /\ mag' = [mag EXCEPT ![NodeMag(n)] = mag[F], ![F] = << >>]
  /\ next' = [next EXCEPT ![n] = Null]
  /\ node' = [node EXCEPT ![t] = n]
  /\ cur' = [cur EXCEPT ![t] = fullHead[Cls(t)]]
  /\ pc' = [pc EXCEPT ![t] = "pf_link"]
  /\ stage' = [stage EXCEPT ![n] = "filled"]
  /\ UNCHANGED <<header, live, pages, fullHead, emptyHead, fullSeq, size, blk,
                 nxt, dropped>>

\* push_full: (*node).next = current
PushFullLink(t) ==
  /\ pc[t] = "pf_link"
  /\ next' = [next EXCEPT ![node[t]] = cur[t]]
  /\ pc' = [pc EXCEPT ![t] = "pf_cas"]
  /\ UNCHANGED <<mag, header, live, pages, fullHead, emptyHead, stage, fullSeq,
                 size, blk, node, cur, nxt, dropped>>

\* Mutant: the block that did not fit is not pushed to the emptied magazine.
PushFullCasForgets(t) ==
  LET c == Cls(t) IN
  /\ pc[t] = "pf_cas"
  /\ fullHead[c] = cur[t]
  /\ fullHead' = [fullHead EXCEPT ![c] = node[t]]
  /\ stage' = [stage EXCEPT ![node[t]] = "full"]
  /\ fullSeq' = [fullSeq EXCEPT ![c] = <<node[t]>> \o @]
  /\ Return(t)
  /\ UNCHANGED <<mag, header, live, pages, emptyHead, next, dropped>>

\* The node is published; the block goes to the free magazine.
PushFullCasOk(t) ==
  LET c == Cls(t) IN
  /\ pc[t] = "pf_cas"
  /\ fullHead[c] = cur[t]
  /\ fullHead' = [fullHead EXCEPT ![c] = node[t]]
  /\ stage' = [stage EXCEPT ![node[t]] = "full"]
  /\ fullSeq' = [fullSeq EXCEPT ![c] = <<node[t]>> \o @]
  /\ mag' = [mag EXCEPT ![FreeMag(t, c)] = Append(@, blk[t])]
  /\ Return(t)
  /\ UNCHANGED <<header, live, pages, emptyHead, next, dropped>>

\* Mutant: the retry does not link the node to the new head.
PushFullCasFailNoRelink(t) ==
  /\ pc[t] = "pf_cas"
  /\ cur' = [cur EXCEPT ![t] = fullHead[Cls(t)]]
  /\ UNCHANGED <<mag, header, live, pages, pool, pc, size, blk, node, nxt, dropped>>

PushFullCasFail(t) ==
  /\ pc[t] = "pf_cas"
  /\ cur' = [cur EXCEPT ![t] = fullHead[Cls(t)]]
  /\ pc' = [pc EXCEPT ![t] = "pf_link"]
  /\ UNCHANGED <<mag, header, live, pages, pool, size, blk, node, nxt, dropped>>

-----------------------------------------------------------------------------
Step(t) ==
  \/ \E s \in Sizes : AllocHit(t, s) \/ AllocSwap(t, s) \/ AllocPopFull(t, s)
  \/ PopRead(t) \/ PopCasOk(t) \/ PopCasFail(t) \/ Refill(t)
  \/ PushEmptyLink(t) \/ PushEmptyCasOk(t) \/ PushEmptyCasFail(t) \/ Finish(t)
  \/ \E p \in FreshPages : MissCarve(t, p) \/ MissSingle(t, p)
  \/ MissFail(t)
  \/ \E b \in live : DeallocLocal(t, b) \/ DeallocOverflow(t, b)
  \/ NodeNull(t)
  \/ \E n \in {m \in Nodes : stage[m] = "fresh"} : NodeTake(t, n)
  \/ PushFullLink(t) \/ PushFullCasOk(t) \/ PushFullCasFail(t)

Next == \E t \in Threads : Step(t)

Spec == Init /\ [][Next]_vars

-----------------------------------------------------------------------------
(* Properties *)

Pointers == Nodes \cup {Null}

\* Every variable keeps the shape the code gives it: magazines hold at most
\* MAGAZINE_CAPACITY blocks (Magazine::push, bulk_init), heads and links are
\* nodes or null, a thread is at one of the points of alloc and dealloc.
TypeOK ==
  /\ mag \in [Slots -> Magazines]
  /\ header \in [Blocks -> Sizes \cup {Null}]
  /\ live \subseteq Blocks
  /\ pages \in [Pages -> [class : Classes \cup {Null}, n : 0 .. Capacity + 1]]
  /\ fullHead \in [Classes -> Pointers]
  /\ emptyHead \in [Classes -> Pointers]
  /\ next \in [Nodes -> Pointers]
  /\ pc \in [Threads -> PcValues]
  /\ size \in [Threads -> Sizes \cup {Null}]
  /\ blk \in [Threads -> Blocks \cup {Null}]
  /\ node \in [Threads -> Pointers]
  /\ cur \in [Threads -> Pointers]
  /\ nxt \in [Threads -> Pointers]
  /\ stage \in [Nodes -> Stages]
  /\ fullSeq \in [Classes -> Seq(Nodes)]
  /\ dropped \subseteq Blocks

Stored  == UNION {{mag[l][i] : i \in DOMAIN mag[l]} : l \in Slots}
Freeing == {blk[t] : t \in Threads} \ {Null}

\* No block is stored twice, in one magazine or in two.
StoredOnce ==
  \A l1, l2 \in Slots : \A i \in DOMAIN mag[l1], j \in DOMAIN mag[l2] :
    mag[l1][i] = mag[l2][j] => l1 = l2 /\ i = j

\* A block in a dealloc is in one dealloc only.
FreedOnce == \A t, u \in Threads : blk[t] # Null /\ blk[t] = blk[u] => t = u

\* No block is in two places: not twice in the magazines of all threads and
\* nodes together, not in a magazine while the program or a dealloc under way
\* holds it.  A block in two places is handed out twice by alloc.
ExclusiveBlocks ==
  /\ StoredOnce /\ FreedOnce
  /\ Stored \cap live = {} /\ Stored \cap Freeing = {} /\ live \cap Freeing = {}

\* Every block of magazine m is of class c; and m is full besides.
OfClass(m, c) == \A i \in DOMAIN m : pages[m[i][1]].class = c
FullOf(m, c) == Len(m) = Capacity /\ OfClass(m, c)

\* A block stays in the class it was carved for, wherever it travels: in the
\* magazines of a thread, through the full stack of the class, and by the
\* size word dealloc reads.  Crossing classes would hand out a short block.
ClassesNeverMix ==
  /\ \A t \in Threads, c \in Classes :
       OfClass(mag[AllocMag(t, c)], c) /\ OfClass(mag[FreeMag(t, c)], c)
  /\ \A c \in Classes : \A j \in DOMAIN fullSeq[c] :
       OfClass(mag[NodeMag(fullSeq[c][j])], c)
  /\ \A b \in live : header[b] # Null /\ ClassOf[header[b]] = pages[b[1]].class

\* The list that hangs from full_head is exactly the nodes pushed and not yet
\* popped, in stack order, and ends in null: no push or pop of any
\* interleaving loses, duplicates or cycles a node.
FullStackIntact ==
  \A c \in Classes :
    LET q == fullSeq[c] IN
    /\ fullHead[c] = IF q = << >> THEN Null ELSE q[1]
    /\ \A i \in DOMAIN q :
         next[q[i]] = IF i = Len(q) THEN Null ELSE q[i + 1]

\* pop_full has no ABA protection, and needs none here: when its CAS can
\* succeed, the next it read earlier is still the next of the head.
PopSeesCurrentNext ==
  \A t \in Threads :
    pc[t] = "pop_cas" /\ fullHead[Cls(t)] = cur[t] => nxt[t] = next[cur[t]]

\* Every magazine in a full stack is full, so the pop that follows a
\* successful pop_full in alloc finds a block and never falls to the miss.
FullMagazinesAreFull ==
  /\ \A c \in Classes : \A j \in DOMAIN fullSeq[c] :
       Len(mag[NodeMag(fullSeq[c][j])]) = Capacity
  /\ \A t \in Threads : pc[t] = "finish" => mag[AllocMag(t, Cls(t))] # << >>

InCirculation == {b \in Blocks : b[2] < pages[b[1]].n}

\* Every block carved from a page is held by the program, on its way through
\* dealloc, in a magazine, or was dropped by dealloc for want of a node.
BlocksAccounted == InCirculation \subseteq live \cup Freeing \cup Stored \cup dropped

-----------------------------------------------------------------------------
(* The inductive invariant behind them. *)

HoldsNode == {"refill", "pe_link", "pe_cas", "pf_link", "pf_cas"}

\* What a thread may rely on at each point of alloc and dealloc.
ControlInv ==
  \A t \in Threads :
    /\ pc[t] # "idle" => size[t] \in Sizes
    /\ pc[t] \in HoldsNode <=> node[t] # Null
    /\ pc[t] \in {"need_node", "pf_link", "pf_cas"} <=> blk[t] # Null
    /\ pc[t] \in {"pop_read", "pop_cas"} =>
         cur[t] # Null /\ stage[cur[t]] \in {"full", "taken", "empty"}
    /\ pc[t] \in {"refill", "pe_link", "pe_cas"} => stage[node[t]] = "taken"
    /\ pc[t] \in {"pf_link", "pf_cas"} =>
         stage[node[t]] = "filled" /\ mag[FreeMag(t, Cls(t))] = << >>
    /\ pc[t] = "pf_cas" => next[node[t]] = cur[t]
    /\ pc[t] = "pop_cas" /\ stage[cur[t]] = "full" => nxt[t] = next[cur[t]]

\* A node between two stacks belongs to one thread.
NodesOwned ==
  \A t, u \in Threads : node[t] # Null /\ node[t] = node[u] => t = u

\* The nodes in the full stacks are those in stage "full", each there once.
FullSeqDistinct ==
  /\ \A c \in Classes : \A i \in DOMAIN fullSeq[c] : stage[fullSeq[c][i]] = "full"
  /\ \A c, d \in Classes : \A i \in DOMAIN fullSeq[c], j \in DOMAIN fullSeq[d] :
       fullSeq[c][i] = fullSeq[d][j] => c = d /\ i = j

\* Only blocks in circulation are anywhere; live blocks have a size word.
BlocksCarved ==
  /\ Stored \subseteq InCirculation
  /\ live \subseteq InCirculation
  /\ Freeing \subseteq InCirculation
  /\ \A b \in live : header[b] \in Sizes

StackInv == TypeOK /\ ControlInv /\ NodesOwned /\ FullSeqDistinct /\ FullStackIntact

IInv == StackInv /\ BlocksCarved /\ ExclusiveBlocks

\* What ClassesNeverMix and FullMagazinesAreFull rest on besides: the magazines
\* and blocks a thread has between its own magazines and the stacks.
InTransit(t) ==
  /\ pc[t] \in {"refill", "pf_link", "pf_cas"} => FullOf(mag[NodeMag(node[t])], Cls(t))
  /\ pc[t] \in {"need_node", "pf_link", "pf_cas"} => pages[blk[t][1]].class = Cls(t)
  /\ pc[t] = "need_node" => Len(mag[FreeMag(t, Cls(t))]) = Capacity
  /\ pc[t] \in {"pe_link", "pe_cas", "finish"} => mag[AllocMag(t, Cls(t))] # << >>

CInv == ClassesNeverMix /\ FullMagazinesAreFull /\ \A t \in Threads : InTransit(t)

\* What BlocksAccounted rests on besides: a magazine that is about to be
\* overwritten, by refill or by the write to a new node, holds no block.
Vacant ==
  /\ \A t \in Threads :
       pc[t] \in {"pop_read", "pop_cas", "refill"} => mag[AllocMag(t, Cls(t))] = << >>
  /\ \A n \in Nodes : stage[n] = "fresh" => mag[NodeMag(n)] = << >>

-----------------------------------------------------------------------------
Heap == INSTANCE BlockHeap WITH heap <- [b \in live |-> header[b]]

\* Seen from its callers the allocator is a heap: alloc returns a block nobody
\* holds, dealloc takes one back, and the recorded size of every other block
\* stays what its holder asked for.
IsBlockHeap == Heap!Spec
=============================================================================
