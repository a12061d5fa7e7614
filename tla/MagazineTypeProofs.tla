------------------------- MODULE MagazineTypeProofs -------------------------
(***************************************************************************)
(* Proofs about MagazineCache: what the operations on a magazine do, and   *)
(* that every step of every thread keeps the types.                        *)
(***************************************************************************)
EXTENDS MagazineCache, SequenceTheorems, TLAPS

-----------------------------------------------------------------------------
(* What the magazine operations do to a magazine. *)

\* Magazine::new() and clear() leave a magazine.
LEMMA EmptyFacts == << >> \in Magazines /\ Len(<< >>) = 0
BY EmptySeq, ConstantsAssumption DEF Magazines

\* Magazine::pop returns the last block and keeps the others in place.
LEMMA PopFacts ==
  ASSUME NEW m \in Magazines, m # << >>
  PROVE  /\ Pop(m) \in Magazines
         /\ Len(m) \in Nat /\ Len(m) > 0
         /\ DOMAIN m = 1 .. Len(m)
         /\ DOMAIN Pop(m) = 1 .. Len(m) - 1
         /\ \A i \in 1 .. Len(m) - 1 : Pop(m)[i] = m[i]
         /\ Top(m) = m[Len(m)] /\ Top(m) \in Blocks
<1>0. m \in Seq(Blocks) /\ Len(m) <= Capacity
  BY DEF Magazines
<1>1. Len(m) \in Nat /\ Len(m) > 0
  BY <1>0, EmptySeq
<1>2. \A i \in 1 .. Len(m) : m[i] \in Blocks
  BY <1>0, <1>1, ElementOfSeq
<1>3. Pop(m) \in [1 .. Len(m) - 1 -> Blocks] /\ Len(m) - 1 \in Nat
  BY <1>1, <1>2 DEF Pop
<1>4. Pop(m) \in Seq(Blocks) /\ Len(Pop(m)) = Len(m) - 1
  BY <1>3
<1>5. Pop(m) \in Magazines
  BY <1>0, <1>1, <1>4, ConstantsAssumption DEF Magazines
<1> QED
  BY <1>0, <1>1, <1>2, <1>3, <1>5 DEF Pop, Top

\* Magazine::push on a magazine that is not full puts the block on top.
LEMMA PushFacts ==
  ASSUME NEW m \in Magazines, ~IsFull(m), NEW b \in Blocks
  PROVE  /\ Append(m, b) \in Magazines
         /\ Len(m) \in Nat
         /\ DOMAIN m = 1 .. Len(m)
         /\ DOMAIN Append(m, b) = 1 .. Len(m) + 1
         /\ \A i \in 1 .. Len(m) : Append(m, b)[i] = m[i]
         /\ Append(m, b)[Len(m) + 1] = b
BY AppendProperties, ConstantsAssumption DEF Magazines, IsFull

\* Magazine::bulk_init appends the blocks 1, 2, ... of the region and never
\* exceeds the capacity.
LEMMA BulkFacts ==
  ASSUME NEW m \in Magazines, NEW p \in Pages, NEW k \in Nat
  PROVE  /\ BulkCount(m, k) \in 0 .. Capacity
         /\ BulkInit(m, p, k) \in Magazines
         /\ Len(m) \in Nat
         /\ DOMAIN m = 1 .. Len(m)
         /\ DOMAIN BulkInit(m, p, k) = 1 .. Len(m) + BulkCount(m, k)
         /\ \A i \in 1 .. Len(m) : BulkInit(m, p, k)[i] = m[i]
         /\ \A i \in 1 .. BulkCount(m, k) : BulkInit(m, p, k)[Len(m) + i] = <<p, i>>
<1> DEFINE n == BulkCount(m, k)
           q == [i \in 1 .. n |-> <<p, i>>]
<1>0. m \in Seq(Blocks) /\ Len(m) <= Capacity /\ Len(m) \in Nat
  BY DEF Magazines
<1>1. n \in 0 .. Capacity /\ n <= Capacity - Len(m)
  BY <1>0, ConstantsAssumption DEF BulkCount, Smaller
<1>2. q \in Seq(Blocks) /\ Len(q) = n /\ \A i \in 1 .. n : q[i] = <<p, i>>
  <2>1. \A i \in 1 .. n : <<p, i>> \in Blocks
    BY <1>1, ConstantsAssumption DEF Blocks
  <2>2. q \in [1 .. n -> Blocks] /\ n \in Nat
    BY <2>1, <1>1
  <2> QED
    BY <2>2
<1>3. /\ m \o q \in Seq(Blocks)
      /\ Len(m \o q) = Len(m) + Len(q)
      /\ \A i \in 1 .. Len(m) + Len(q) :
           (m \o q)[i] = IF i <= Len(m) THEN m[i] ELSE q[i - Len(m)]
  BY <1>0, <1>2, ConcatProperties, Zenon
<1>4. BulkInit(m, p, k) = m \o q /\ n = BulkCount(m, k)
  BY DEF BulkInit
<1> HIDE DEF q, n
<1>5. \A i \in 1 .. n : (m \o q)[Len(m) + i] = <<p, i>>
  BY <1>0, <1>1, <1>2, <1>3
<1>6. Len(m \o q) <= Capacity /\ \A i \in 1 .. Len(m) : (m \o q)[i] = m[i]
  BY <1>0, <1>1, <1>2, <1>3, ConstantsAssumption
<1>7. m \o q \in Magazines
  BY <1>3, <1>6 DEF Magazines
<1>8. DOMAIN m = 1 .. Len(m) /\ DOMAIN (m \o q) = 1 .. Len(m) + n
  BY <1>0, <1>2, <1>3
<1> QED
  BY <1>0, <1>1, <1>4, <1>5, <1>6, <1>7, <1>8

\* A push on a stack shifts the nodes below it by one.
LEMMA ConsFacts ==
  ASSUME NEW S, NEW q \in Seq(S), NEW n \in S
  PROVE  /\ <<n>> \o q \in Seq(S)
         /\ Len(<<n>> \o q) = Len(q) + 1
         /\ (<<n>> \o q)[1] = n
         /\ \A i \in 1 .. Len(q) : (<<n>> \o q)[i + 1] = q[i]
<1>1. <<n>> \in Seq(S) /\ Len(<<n>>) = 1 /\ <<n>>[1] = n
  OBVIOUS
<1> QED
  BY <1>1, ConcatProperties

-----------------------------------------------------------------------------
(* Type correctness. *)

\* The magazines of a thread and of a node are three different objects.
LEMMA SlotFacts ==
  /\ \A t \in Threads, c \in Classes : AllocMag(t, c) \in Slots /\ FreeMag(t, c) \in Slots
  /\ \A n \in Nodes : NodeMag(n) \in Slots
  /\ \A t \in Threads, c \in Classes, u \in Threads, d \in Classes :
       /\ AllocMag(t, c) # FreeMag(u, d)
       /\ AllocMag(t, c) = AllocMag(u, d) <=> t = u /\ c = d
       /\ FreeMag(t, c) = FreeMag(u, d) <=> t = u /\ c = d
  /\ \A t \in Threads, c \in Classes, n \in Nodes :
       AllocMag(t, c) # NodeMag(n) /\ FreeMag(t, c) # NodeMag(n)
  /\ \A n, m \in Nodes : NodeMag(n) = NodeMag(m) <=> n = m
BY DEF AllocMag, FreeMag, NodeMag, Slots

\* Inside a call the requested size, hence the class, is known.
LEMMA ClassFacts ==
  ASSUME IInv, NEW t \in Threads, pc[t] # "idle"
  PROVE  size[t] \in Sizes /\ Cls(t) \in Classes
BY ConstantsAssumption DEF IInv, StackInv, ControlInv, Cls

\* The size word of a live block gives its class.
LEMMA HeaderFacts ==
  ASSUME IInv, NEW b \in live
  PROVE  b \in Blocks /\ header[b] \in Sizes /\ ClassOf[header[b]] \in Classes
BY ConstantsAssumption DEF IInv, StackInv, TypeOK, BlocksCarved

\* A thread pushing a full node has the node, the block it frees and an empty
\* free magazine.
LEMMA PushingFacts ==
  ASSUME IInv, NEW t \in Threads, pc[t] = "pf_cas"
  PROVE  node[t] \in Nodes /\ blk[t] \in Blocks /\ mag[FreeMag(t, Cls(t))] = << >>
<1>1. ControlInv /\ node[t] \in Nodes \cup {Null} /\ blk[t] \in Blocks \cup {Null}
  BY DEF IInv, StackInv, TypeOK, Pointers
<1> QED
  BY <1>1 DEF ControlInv, HoldsNode

\* Every region has a first block.
LEMMA FirstBlock == \A p \in Pages : <<p, 0>> \in Blocks
BY ConstantsAssumption DEF Blocks

\* Initially everything is empty, fresh or null.
LEMMA InitIInv == Init => IInv
<1> SUFFICES ASSUME Init PROVE IInv
  OBVIOUS
<1>1. TypeOK
  BY ConstantsAssumption, EmptyFacts DEF Init, TypeOK, Pointers, PcValues, Stages, Unmapped
<1>2. ControlInv /\ NodesOwned
  BY DEF Init, ControlInv, NodesOwned, HoldsNode
<1>3. FullSeqDistinct /\ FullStackIntact
  BY DEF Init, FullSeqDistinct, FullStackIntact
<1>4. BlocksCarved /\ ExclusiveBlocks
  BY DEF Init, BlocksCarved, ExclusiveBlocks, StoredOnce, FreedOnce, Stored, Freeing
<1> QED
  BY <1>1, <1>2, <1>3, <1>4 DEF IInv, StackInv

\* Every step of every thread keeps the types.
LEMMA TypeStep ==
  ASSUME IInv, NEW t \in Threads, Step(t)
  PROVE  TypeOK'
<1>0. TypeOK
  BY DEF IInv, StackInv
<1>a. /\ \A u \in Threads, c \in Classes : AllocMag(u, c) \in Slots /\ FreeMag(u, c) \in Slots
      /\ \A n \in Nodes : NodeMag(n) \in Slots
      /\ \A s \in Sizes : ClassOf[s] \in Classes
  BY SlotFacts, ConstantsAssumption
<1> USE <1>0, <1>a DEF TypeOK, Pointers, PcValues, Stages, pool
<1>1. ASSUME NEW s \in Sizes, AllocHit(t, s) PROVE TypeOK'
  BY <1>1, PopFacts DEF AllocHit, HandOut
<1>2. ASSUME NEW s \in Sizes, AllocSwap(t, s) PROVE TypeOK'
  <2> DEFINE A == AllocMag(t, ClassOf[s])
             F == FreeMag(t, ClassOf[s])
  <2>1. A \in Slots /\ F \in Slots
    OBVIOUS
  <2>2. /\ mag[F] # << >>
        /\ mag' = [mag EXCEPT ![A] = Pop(mag[F]), ![F] = mag[A]]
        /\ HandOut(Top(mag[F]), s)
        /\ UNCHANGED <<pages, pool, pc, size, blk, node, cur, nxt, dropped>>
    BY <1>2 DEF AllocSwap
  <2> HIDE DEF A, F
  <2>3. Pop(mag[F]) \in Magazines /\ Top(mag[F]) \in Blocks
    BY <2>1, <2>2, PopFacts
  <2>4. mag' \in [Slots -> Magazines]
    BY <2>1, <2>2, <2>3, Zenon
  <2>5. header' \in [Blocks -> Sizes \cup {Null}] /\ live' \subseteq Blocks
    BY <2>2, <2>3 DEF HandOut
  <2>6. UNCHANGED <<pages, pool, pc, size, blk, node, cur, nxt, dropped>>
    BY <2>2
  <2> QED
    BY <2>4, <2>5, <2>6
<1>3. ASSUME NEW s \in Sizes, AllocPopFull(t, s) PROVE TypeOK'
  BY <1>3 DEF AllocPopFull, PopLoaded
<1>4. ASSUME PopRead(t) PROVE TypeOK'
  BY <1>4 DEF PopRead, IInv, StackInv, ControlInv
<1>5. ASSUME PopCasOk(t) PROVE TypeOK'
  <2>1. Cls(t) \in Classes /\ cur[t] \in Nodes
    BY <1>5, ClassFacts DEF PopCasOk, IInv, StackInv, ControlInv
  <2>2. fullSeq[Cls(t)] # << >>
    BY <1>5, <2>1, ConstantsAssumption DEF PopCasOk, IInv, StackInv, FullStackIntact
  <2>3. Tail(fullSeq[Cls(t)]) \in Seq(Nodes)
    BY <2>1, <2>2, HeadTailProperties
  <2> QED
    BY <1>5, <2>1, <2>3, ZenonT(40) DEF PopCasOk
<1>6. ASSUME PopCasFail(t) PROVE TypeOK'
  BY <1>6, ClassFacts DEF PopCasFail, PopLoaded
<1>7. ASSUME Refill(t) PROVE TypeOK'
  <2>1. Cls(t) \in Classes /\ node[t] \in Nodes
    BY <1>7, ClassFacts DEF Refill, IInv, StackInv, ControlInv, HoldsNode
  <2> QED
    BY <1>7, <2>1, EmptyFacts, ZenonT(40) DEF Refill
<1>8. ASSUME PushEmptyLink(t) PROVE TypeOK'
  BY <1>8, Zenon DEF PushEmptyLink
<1>9. ASSUME PushEmptyCasOk(t) PROVE TypeOK'
  BY <1>9, ClassFacts, Zenon DEF PushEmptyCasOk
<1>10. ASSUME PushEmptyCasFail(t) PROVE TypeOK'
  BY <1>10, ClassFacts DEF PushEmptyCasFail
<1>11. ASSUME Finish(t) PROVE TypeOK'
  <2> DEFINE A == AllocMag(t, Cls(t))
  <2>1. A \in Slots /\ size[t] \in Sizes
    BY <1>11, ClassFacts DEF Finish
  <2>2. CASE mag[A] # << >>
    <3>1. /\ mag' = [mag EXCEPT ![A] = Pop(mag[A])]
          /\ HandOut(Top(mag[A]), size[t])
          /\ Return(t) /\ UNCHANGED <<pages, pool, dropped>>
      BY <1>11, <2>2 DEF Finish
    <3> HIDE DEF A
    <3>2. Pop(mag[A]) \in Magazines /\ Top(mag[A]) \in Blocks
      BY <2>1, <2>2, PopFacts
    <3> QED
      BY <2>1, <3>1, <3>2 DEF HandOut, Return
  <2>3. CASE mag[A] = << >>
    <3>1. /\ pc' = [pc EXCEPT ![t] = "miss"]
          /\ UNCHANGED <<mag, header, live, size, blk, node, cur, nxt, pages, pool, dropped>>
      BY <1>11, <2>3 DEF Finish
    <3> QED
      BY <3>1
  <2> QED
    BY <2>2, <2>3
<1>12. ASSUME NEW p \in FreshPages, MissCarve(t, p) PROVE TypeOK'
  <2>1. Cls(t) \in Classes /\ size[t] \in Sizes /\ p \in Pages
    BY <1>12, ClassFacts DEF MissCarve, FreshPages
  <2>2. PerPage[Cls(t)] - 1 \in Nat
    BY <1>12, <2>1, ConstantsAssumption DEF MissCarve
  <2> DEFINE A == AllocMag(t, Cls(t))
             k == PerPage[Cls(t)] - 1
  <2>3. mag[A] \in Magazines
    BY <2>1
  <2>4. BulkInit(mag[A], p, k) \in Magazines /\ BulkCount(mag[A], k) \in 0 .. Capacity
    BY <2>1, <2>2, <2>3, BulkFacts, Zenon
  <2>5. mag' \in [Slots -> Magazines]
    BY <1>12, <2>4, Zenon DEF MissCarve
  <2>6. /\ header' \in [Blocks -> Sizes \cup {Null}] /\ live' \subseteq Blocks
        /\ pages' \in [Pages -> [class : Classes \cup {Null}, n : 0 .. Capacity + 1]]
    BY <1>12, <2>1, <2>4, ConstantsAssumption, FirstBlock DEF MissCarve, HandOut
  <2>7. Return(t) /\ UNCHANGED <<pool, dropped>>
    BY <1>12 DEF MissCarve
  <2> QED
    BY <2>5, <2>6, <2>7 DEF Return
<1>13. ASSUME NEW p \in FreshPages, MissSingle(t, p) PROVE TypeOK'
  BY <1>13, ClassFacts, ConstantsAssumption, FirstBlock DEF MissSingle, HandOut, Return, FreshPages
<1>14. ASSUME MissFail(t) PROVE TypeOK'
  BY <1>14 DEF MissFail, Return
<1>15. ASSUME NEW b \in live, DeallocLocal(t, b) PROVE TypeOK'
  BY <1>15, HeaderFacts, PushFacts DEF DeallocLocal
<1>16. ASSUME NEW b \in live, DeallocOverflow(t, b) PROVE TypeOK'
  BY <1>16, HeaderFacts, SMTT(30) DEF DeallocOverflow
<1>17. ASSUME NodeNull(t) PROVE TypeOK'
  BY <1>17 DEF NodeNull, Return, IInv, StackInv, ControlInv
<1>18. ASSUME NEW n \in Nodes, NodeTake(t, n) PROVE TypeOK'
  BY <1>18, ClassFacts, EmptyFacts, ZenonT(40) DEF NodeTake
<1>19. ASSUME PushFullLink(t) PROVE TypeOK'
  BY <1>19, Zenon DEF PushFullLink
<1>20. ASSUME PushFullCasOk(t) PROVE TypeOK'
  <2>1. Cls(t) \in Classes /\ node[t] \in Nodes /\ blk[t] \in Blocks
        /\ mag[FreeMag(t, Cls(t))] = << >>
    <3>1. pc[t] = "pf_cas"
      BY <1>20, Zenon DEF PushFullCasOk
    <3> QED
      BY <3>1, ClassFacts, PushingFacts, Zenon
  <2>2. Append(<< >>, blk[t]) \in Magazines
    <3>1. << >> \in Magazines /\ ~IsFull(<< >>)
      BY EmptyFacts, ConstantsAssumption DEF IsFull
    <3> QED
      BY <2>1, <3>1, PushFacts, Zenon
  <2>3. <<node[t]>> \o fullSeq[Cls(t)] \in Seq(Nodes)
    BY <2>1, ConsFacts
  <2>4. /\ mag' \in [Slots -> Magazines] /\ fullHead' \in [Classes -> Pointers]
        /\ stage' \in [Nodes -> Stages] /\ fullSeq' \in [Classes -> Seq(Nodes)]
    BY <1>20, <2>1, <2>2, <2>3, Zenon DEF PushFullCasOk
  <2>5. Return(t) /\ UNCHANGED <<header, live, pages, emptyHead, next, dropped>>
    BY <1>20, Zenon DEF PushFullCasOk
  <2> QED
    BY <2>4, <2>5 DEF Return
<1>21. ASSUME PushFullCasFail(t) PROVE TypeOK'
  BY <1>21, ClassFacts DEF PushFullCasFail
<1> QED
  BY <1>1, <1>2, <1>3, <1>4, <1>5, <1>6, <1>7, <1>8, <1>9, <1>10, <1>11, <1>12, <1>13,
     <1>14, <1>15, <1>16, <1>17, <1>18, <1>19, <1>20, <1>21, Zenon DEF Step
=============================================================================
