----------------------- MODULE MagazineAccountProofs ------------------------
(***************************************************************************)
(* MagazineCache, concluded: for every value of the constants no block is  *)
(* lost but the ones dealloc drops.                                        *)
(***************************************************************************)
EXTENDS MagazineClassSteps

-----------------------------------------------------------------------------
(* Blocks that leave a magazine go somewhere. *)

\* What a magazine holds is stored.
LEMMA StoredNow ==
  ASSUME NEW l \in Slots, NEW i \in DOMAIN mag'[l]
  PROVE  mag'[l][i] \in Stored'
BY DEF Stored

\* Blocks that are copied from every slot to some slot, but those of S, stay.
LEMMA Carries ==
  ASSUME NEW S, NEW dst \in [Slots -> Slots],
         \A l \in Slots : \A i \in DOMAIN mag[l] :
            mag[l][i] \in S \/ (i \in DOMAIN mag'[dst[l]] /\ mag'[dst[l]][i] = mag[l][i])
  PROVE  Stored \subseteq Stored' \cup S
<1> SUFFICES ASSUME NEW l \in Slots, NEW i \in DOMAIN mag[l], mag[l][i] \notin S
             PROVE  mag[l][i] \in Stored'
  BY DEF Stored
<1>1. dst[l] \in Slots /\ i \in DOMAIN mag'[dst[l]] /\ mag'[dst[l]][i] = mag[l][i]
  OBVIOUS
<1> QED
  BY <1>1 DEF Stored

\* A pop leaves every block but the top one stored.
LEMMA PopKeeps ==
  ASSUME IInv, NEW L \in Slots, mag[L] # << >>, mag' = [mag EXCEPT ![L] = Pop(mag[L])]
  PROVE  Stored \subseteq Stored' \cup {Top(mag[L])}
<1> DEFINE dst == [l \in Slots |-> l]
<1>1. /\ Len(mag[L]) \in Nat /\ DOMAIN mag[L] = 1 .. Len(mag[L])
      /\ DOMAIN Pop(mag[L]) = 1 .. Len(mag[L]) - 1
      /\ \A i \in 1 .. Len(mag[L]) - 1 : Pop(mag[L])[i] = mag[L][i]
      /\ Top(mag[L]) = mag[L][Len(mag[L])]
  BY MagFacts, PopFacts, SMTT(30)
<1>2. mag'[L] = Pop(mag[L]) /\ \A l \in Slots : l # L => mag'[l] = mag[l]
  BY MagFacts
<1>3. dst \in [Slots -> Slots] /\ \A l \in Slots : dst[l] = l
  OBVIOUS
<1> HIDE DEF dst
<1>4. \A i \in DOMAIN mag[L] : i # Len(mag[L]) => i \in 1 .. Len(mag[L]) - 1
  BY <1>1
<1>5. \A i \in DOMAIN mag[L] :
        mag[L][i] = Top(mag[L]) \/ (i \in DOMAIN mag'[L] /\ mag'[L][i] = mag[L][i])
  BY <1>1, <1>2, <1>4, Zenon
<1> DEFINE S == {Top(mag[L])}
<1>6. \A l \in Slots : \A i \in DOMAIN mag[l] :
        mag[l][i] \in S \/ (i \in DOMAIN mag'[dst[l]] /\ mag'[dst[l]][i] = mag[l][i])
  BY <1>2, <1>3, <1>5, Zenon
<1> HIDE DEF S
<1>7. Stored \subseteq Stored' \cup S
  BY <1>3, <1>6, Carries
<1> QED
  BY <1>7 DEF S

\* So does a pop from the free magazine on its way to the alloc magazine.
LEMMA SwapKeeps ==
  ASSUME IInv, NEW A \in Slots, NEW F \in Slots, A # F, mag[A] = << >>, mag[F] # << >>,
         mag' = [mag EXCEPT ![A] = Pop(mag[F]), ![F] = mag[A]]
  PROVE  Stored \subseteq Stored' \cup {Top(mag[F])}
<1> DEFINE dst == [l \in Slots |-> IF l = F THEN A ELSE l]
<1>1. /\ Len(mag[F]) \in Nat /\ DOMAIN mag[F] = 1 .. Len(mag[F])
      /\ DOMAIN Pop(mag[F]) = 1 .. Len(mag[F]) - 1
      /\ \A i \in 1 .. Len(mag[F]) - 1 : Pop(mag[F])[i] = mag[F][i]
      /\ Top(mag[F]) = mag[F][Len(mag[F])]
  BY MagFacts, PopFacts, SMTT(30)
<1>2. /\ mag'[A] = Pop(mag[F]) /\ DOMAIN mag[A] = {}
      /\ \A l \in Slots : l # A /\ l # F => mag'[l] = mag[l]
  BY MagFacts
<1>3. /\ dst \in [Slots -> Slots] /\ dst[F] = A
      /\ \A l \in Slots : l # F => dst[l] = l
  OBVIOUS
<1> HIDE DEF dst
<1>4. \A i \in DOMAIN mag[F] : i # Len(mag[F]) => i \in 1 .. Len(mag[F]) - 1
  BY <1>1
<1>5. \A i \in DOMAIN mag[F] :
        mag[F][i] = Top(mag[F]) \/ (i \in DOMAIN mag'[A] /\ mag'[A][i] = mag[F][i])
  BY <1>1, <1>2, <1>4, Zenon
<1> DEFINE S == {Top(mag[F])}
<1>6. ASSUME NEW l \in Slots, NEW i \in DOMAIN mag[l], mag[l][i] \notin S
      PROVE  i \in DOMAIN mag'[dst[l]] /\ mag'[dst[l]][i] = mag[l][i]
  <2>1. CASE l = F
    BY <1>6, <1>3, <1>5, <2>1, Zenon
  <2>2. CASE l # F
    BY <1>6, <1>2, <1>3, <2>2, Zenon
  <2> QED
    BY <2>1, <2>2
<1> HIDE DEF S
<1>7. \A l \in Slots : \A i \in DOMAIN mag[l] :
        mag[l][i] \in S \/ (i \in DOMAIN mag'[dst[l]] /\ mag'[dst[l]][i] = mag[l][i])
  BY <1>6, Zenon
<1>8. Stored \subseteq Stored' \cup S
  BY <1>3, <1>7, Carries, Zenon
<1> QED
  BY <1>8 DEF S

\* A magazine that moves over an empty one stays stored.
LEMMA TransferKeeps ==
  ASSUME IInv, NEW A \in Slots, NEW F \in Slots, A # F, mag[A] = << >>,
         mag' = [mag EXCEPT ![A] = mag[F], ![F] = << >>]
  PROVE  Stored \subseteq Stored'
<1> DEFINE dst == [l \in Slots |-> IF l = F THEN A ELSE l]
<1>2. /\ mag'[A] = mag[F] /\ DOMAIN mag[A] = {}
      /\ \A l \in Slots : l # A /\ l # F => mag'[l] = mag[l]
  BY MagFacts
<1>3. /\ dst \in [Slots -> Slots] /\ dst[F] = A
      /\ \A l \in Slots : l # F => dst[l] = l
  OBVIOUS
<1> HIDE DEF dst
<1>4. ASSUME NEW l \in Slots, NEW i \in DOMAIN mag[l]
      PROVE  i \in DOMAIN mag'[dst[l]] /\ mag'[dst[l]][i] = mag[l][i]
  <2>1. CASE l = F
    BY <1>4, <1>2, <1>3, <2>1, Zenon
  <2>2. CASE l # F
    BY <1>4, <1>2, <1>3, <2>2, Zenon
  <2> QED
    BY <2>1, <2>2
<1> DEFINE S == {}
<1> HIDE DEF S
<1>5. \A l \in Slots : \A i \in DOMAIN mag[l] :
        mag[l][i] \in S \/ (i \in DOMAIN mag'[dst[l]] /\ mag'[dst[l]][i] = mag[l][i])
  BY <1>4, Zenon
<1>6. Stored \subseteq Stored' \cup S
  BY <1>3, <1>5, Carries, Zenon
<1> QED
  BY <1>6 DEF S

\* A push stores its block besides.
LEMMA StoreKeeps ==
  ASSUME IInv, NEW L \in Slots, NEW b \in Blocks, mag' = [mag EXCEPT ![L] = Append(mag[L], b)]
  PROVE  Stored \subseteq Stored' /\ b \in Stored'
<1>1. /\ Len(mag[L]) \in Nat /\ DOMAIN mag[L] = 1 .. Len(mag[L])
      /\ DOMAIN Append(mag[L], b) = 1 .. Len(mag[L]) + 1
      /\ \A i \in 1 .. Len(mag[L]) : Append(mag[L], b)[i] = mag[L][i]
      /\ Append(mag[L], b)[Len(mag[L]) + 1] = b
  BY MagFacts, PushFacts
<1>2. mag'[L] = Append(mag[L], b) /\ \A l \in Slots : l # L => mag'[l] = mag[l]
  BY MagFacts
<1>3. /\ Len(mag[L]) + 1 \in DOMAIN mag'[L]
      /\ \A i \in DOMAIN mag[L] : i \in DOMAIN mag'[L] /\ mag'[L][i] = mag[L][i]
  BY <1>1, <1>2
<1>4. \A l \in Slots : \A i \in DOMAIN mag[l] : i \in DOMAIN mag'[l] /\ mag'[l][i] = mag[l][i]
  BY <1>2, <1>3, Zenon
<1>5. Stored \subseteq Stored'
  BY <1>4 DEF Stored
<1>6. b \in Stored'
  BY <1>1, <1>2, <1>3 DEF Stored
<1> QED
  BY <1>5, <1>6

\* bulk_init stores every block it is given and has room for.
LEMMA BulkKeeps ==
  ASSUME IInv, NEW L \in Slots, NEW p \in FreshPages, NEW k \in Nat,
         mag' = [mag EXCEPT ![L] = BulkInit(mag[L], p, k)]
  PROVE  Stored \subseteq Stored' /\ \A i \in 1 .. BulkCount(mag[L], k) : <<p, i>> \in Stored'
<1> DEFINE n == BulkCount(mag[L], k)
           m == BulkInit(mag[L], p, k)
<1>1. mag[L] \in Magazines /\ p \in Pages
  BY MagFacts DEF FreshPages
<1>2. /\ n \in 0 .. Capacity /\ Len(mag[L]) \in Nat /\ DOMAIN mag[L] = 1 .. Len(mag[L])
      /\ DOMAIN m = 1 .. Len(mag[L]) + n
      /\ \A i \in 1 .. Len(mag[L]) : m[i] = mag[L][i]
      /\ \A i \in 1 .. n : m[Len(mag[L]) + i] = <<p, i>>
  BY <1>1, BulkFacts, Zenon
<1>3. mag'[L] = m /\ \A l \in Slots : l # L => mag'[l] = mag[l]
  BY MagFacts
<1> HIDE DEF n, m
<1>4. /\ \A i \in 1 .. Len(mag[L]) : i \in DOMAIN m
      /\ \A i \in 1 .. n : Len(mag[L]) + i \in DOMAIN m
  BY <1>2, ConstantsAssumption
<1>5. \A l \in Slots : \A i \in DOMAIN mag[l] : i \in DOMAIN mag'[l] /\ mag'[l][i] = mag[l][i]
  BY <1>2, <1>3, <1>4, Zenon
<1>6. Stored \subseteq Stored'
  BY <1>5 DEF Stored
<1>7. \A i \in 1 .. n : <<p, i>> \in Stored'
  <2> SUFFICES ASSUME NEW i \in 1 .. n PROVE <<p, i>> \in Stored'
    OBVIOUS
  <2>1. Len(mag[L]) + i \in DOMAIN mag'[L] /\ mag'[L][Len(mag[L]) + i] = <<p, i>>
    BY <1>2, <1>3, <1>4, Zenon
  <2> QED
    BY <2>1, StoredNow, Zenon
<1> QED
  BY <1>6, <1>7 DEF n

\* What becomes of the blocks in a dealloc.
LEMMA FreeingKept ==
  ASSUME IInv, NEW t \in Threads
  PROVE  /\ blk' = blk => Freeing \subseteq Freeing'
         /\ blk' = [blk EXCEPT ![t] = Null] =>
              \A b \in Freeing : b \in Freeing' \/ (b = blk[t] /\ blk[t] # Null)
         /\ \A b \in Blocks : blk[t] = Null /\ blk' = [blk EXCEPT ![t] = b] =>
              Freeing \subseteq Freeing' /\ b \in Freeing'
<1>1. blk \in [Threads -> Blocks \cup {Null}] /\ Null \notin Blocks
  BY ConstantsAssumption DEF IInv, StackInv, TypeOK, Blocks
<1>2. blk' = blk => Freeing \subseteq Freeing'
  BY DEF Freeing
<1>3. ASSUME blk' = [blk EXCEPT ![t] = Null], NEW b \in Freeing
      PROVE  b \in Freeing' \/ (b = blk[t] /\ blk[t] # Null)
  <2>1. PICK u \in Threads : b = blk[u] /\ b # Null
    BY DEF Freeing
  <2>2. u # t => blk'[u] = b
    BY <1>1, <1>3, <2>1
  <2> QED
    BY <2>1, <2>2 DEF Freeing
<1>4. ASSUME NEW b \in Blocks, blk[t] = Null, blk' = [blk EXCEPT ![t] = b]
      PROVE  Freeing \subseteq Freeing' /\ b \in Freeing'
  <2>1. blk'[t] = b /\ b # Null /\ \A u \in Threads : u # t => blk'[u] = blk[u]
    BY <1>1, <1>4
  <2> QED
    BY <1>4, <2>1 DEF Freeing
<1> QED
  BY <1>2, <1>3, <1>4

\* A carved region brings in as many blocks as it says.
LEMMA CarvedBlocks ==
  ASSUME IInv, NEW p \in FreshPages, NEW c, NEW k \in 0 .. Capacity,
         pages' = [pages EXCEPT ![p] = [class |-> c, n |-> 1 + k]],
         NEW b \in InCirculation'
  PROVE  b \in InCirculation \/ b = <<p, 0>> \/ \E i \in 1 .. k : b = <<p, i>>
<1>1. /\ pages \in [Pages -> [class : Classes \cup {Null}, n : 0 .. Capacity + 1]]
      /\ p \in Pages /\ Capacity \in Nat
  BY ConstantsAssumption DEF IInv, StackInv, TypeOK, FreshPages
<1>2. b \in Blocks /\ b[2] < pages'[b[1]].n /\ b[1] \in Pages /\ b[2] \in 0 .. Capacity
      /\ b = <<b[1], b[2]>>
  BY DEF InCirculation, Blocks
<1>3. CASE b[1] # p
  <2>1. pages'[b[1]] = pages[b[1]]
    BY <1>1, <1>2, <1>3, Zenon
  <2> QED
    BY <1>2, <2>1, Zenon DEF InCirculation
<1>4. CASE b[1] = p
  <2>1. pages'[p].n = 1 + k
    BY <1>1, Zenon
  <2>2. b[2] = 0 \/ b[2] \in 1 .. k
    BY <1>1, <1>2, <1>4, <2>1
  <2> QED
    BY <1>2, <1>4, <2>2
<1> QED
  BY <1>3, <1>4, Zenon

-----------------------------------------------------------------------------
(* What is overwritten holds no block. *)

\* A node that is fresh after a step was fresh before.
LEMMA FreshKept ==
  ASSUME IInv, NEW t \in Threads, Step(t), NEW n \in Nodes, stage'[n] = "fresh"
  PROVE  stage[n] = "fresh"
<1>0. stage \in [Nodes -> Stages]
  BY DEF IInv, StackInv, TypeOK
<1>1. stage' = stage \/ \E m, x : x # "fresh" /\ stage' = [stage EXCEPT ![m] = x]
  <2>1. CASE \E s \in Sizes : AllocHit(t, s) \/ AllocSwap(t, s) \/ AllocPopFull(t, s)
    BY <2>1, Zenon DEF pool, AllocHit, AllocSwap, AllocPopFull
  <2>2. CASE PopRead(t) \/ PopCasFail(t) \/ Refill(t)
    BY <2>2, Zenon DEF pool, PopRead, PopCasFail, Refill
  <2>3. CASE PopCasOk(t)
    BY <2>3, Zenon DEF PopCasOk
  <2>4. CASE PushEmptyLink(t) \/ PushEmptyCasOk(t) \/ PushEmptyCasFail(t) \/ Finish(t)
    BY <2>4, Zenon DEF pool, PushEmptyLink, PushEmptyCasOk, PushEmptyCasFail, Finish
  <2>5. CASE (\E p \in FreshPages : MissCarve(t, p) \/ MissSingle(t, p)) \/ MissFail(t)
    BY <2>5, Zenon DEF pool, MissCarve, MissSingle, MissFail
  <2>6. CASE \E b \in live : DeallocLocal(t, b) \/ DeallocOverflow(t, b)
    BY <2>6, Zenon DEF pool, DeallocLocal, DeallocOverflow
  <2>7. CASE NodeNull(t)
    BY <2>7, Zenon DEF pool, NodeNull
  <2>8. CASE \E m \in Nodes : NodeTake(t, m)
    <3>1. PICK m \in Nodes : stage' = [stage EXCEPT ![m] = "filled"]
      BY <2>8, Zenon DEF NodeTake
    <3> QED
      BY <3>1, Zenon
  <2>9. CASE PushFullLink(t) \/ PushFullCasOk(t) \/ PushFullCasFail(t)
    BY <2>9, Zenon DEF pool, PushFullLink, PushFullCasOk, PushFullCasFail
  <2> QED
    BY <2>1, <2>2, <2>3, <2>4, <2>5, <2>6, <2>7, <2>8, <2>9, Zenon DEF Step
<1> QED
  BY <1>0, <1>1

\* Where t stands before it pops the pool and while it does.
LEMMA PopOnly ==
  ASSUME IInv, NEW t \in Threads, Step(t), pc'[t] \in {"pop_read", "pop_cas", "refill"}
  PROVE  \/ \E s \in Sizes : AllocPopFull(t, s)
         \/ PopRead(t) \/ PopCasOk(t) \/ PopCasFail(t)
<1>0. pc \in [Threads -> PcValues]
  BY DEF IInv, StackInv, TypeOK
<1>1. \/ \E s \in Sizes : AllocPopFull(t, s)
      \/ PopRead(t) \/ PopCasOk(t) \/ PopCasFail(t)
      \/ pc' = pc /\ pc[t] = "idle"
      \/ \E x : x \notin {"pop_read", "pop_cas", "refill"} /\ pc' = [pc EXCEPT ![t] = x]
  <2>1. CASE \E s \in Sizes : AllocHit(t, s) \/ AllocSwap(t, s)
    BY <2>1, Zenon DEF AllocHit, AllocSwap
  <2>2. CASE Refill(t) \/ PushEmptyLink(t) \/ PushEmptyCasOk(t) \/ PushEmptyCasFail(t)
    BY <2>2, Zenon DEF Refill, PushEmptyLink, PushEmptyCasOk, PushEmptyCasFail
  <2>3. CASE Finish(t)
    BY <2>3, Zenon DEF Finish, Return
  <2>4. CASE (\E p \in FreshPages : MissCarve(t, p) \/ MissSingle(t, p)) \/ MissFail(t)
    BY <2>4, Zenon DEF MissCarve, MissSingle, MissFail, Return
  <2>5. CASE \E b \in live : DeallocLocal(t, b) \/ DeallocOverflow(t, b)
    BY <2>5, Zenon DEF DeallocLocal, DeallocOverflow
  <2>6. CASE NodeNull(t) \/ \E m \in Nodes : NodeTake(t, m)
    BY <2>6, Zenon DEF NodeNull, NodeTake, Return
  <2>7. CASE PushFullLink(t) \/ PushFullCasOk(t) \/ PushFullCasFail(t)
    BY <2>7, Zenon DEF PushFullLink, PushFullCasOk, PushFullCasFail, Return
  <2> QED
    BY <2>1, <2>2, <2>3, <2>4, <2>5, <2>6, <2>7 DEF Step
<1> QED
  BY <1>0, <1>1

\* Every step keeps vacant what is going to be overwritten.
LEMMA VacantStep ==
  ASSUME IInv, Vacant, NEW t \in Threads, Step(t)
  PROVE  Vacant'
<1>1. ASSUME NEW n \in Nodes, stage'[n] = "fresh" PROVE mag'[NodeMag(n)] = << >>
  <2>1. stage[n] = "fresh" /\ NodeMag(n) \in Slots
    BY <1>1, FreshKept, SlotFacts
  <2>2. pc[t] = "refill" => n # node[t]
    BY <2>1, ThreadFacts
  <2>3. mag'[NodeMag(n)] = mag[NodeMag(n)]
    BY <1>1, <2>1, <2>2, SlotFacts, SlotsKept
  <2> QED
    BY <2>1, <2>3 DEF Vacant
<1>2. ASSUME NEW u \in Threads, u # t, pc'[u] \in {"pop_read", "pop_cas", "refill"}
      PROVE  mag'[AllocMag(u, Cls(u)')] = << >>
  <2>1. pc'[u] = pc[u] /\ Cls(u)' = Cls(u)
    BY <1>2, LocalsKept DEF Cls
  <2>2. Cls(u) \in Classes /\ mag[AllocMag(u, Cls(u))] = << >>
    BY <1>2, <2>1, ClassFacts DEF Vacant
  <2>3. AllocMag(u, Cls(u)) \in Slots
    BY <2>2, SlotFacts
  <2>4. mag'[AllocMag(u, Cls(u))] = mag[AllocMag(u, Cls(u))]
    BY <1>2, <2>2, <2>3, SlotFacts, SlotsKept
  <2> QED
    BY <2>1, <2>2, <2>4
<1>3. ASSUME pc'[t] \in {"pop_read", "pop_cas", "refill"}
      PROVE  mag'[AllocMag(t, Cls(t)')] = << >>
  <2>1. CASE \E s \in Sizes : AllocPopFull(t, s)
    <3>1. PICK s \in Sizes : AllocPopFull(t, s)
      BY <2>1
    <3>2. size'[t] = s /\ mag' = mag /\ mag[AllocMag(t, ClassOf[s])] = << >>
      BY <3>1 DEF AllocPopFull, IInv, StackInv, TypeOK
    <3> QED
      BY <3>2 DEF Cls
  <2>2. CASE PopRead(t) \/ PopCasOk(t) \/ PopCasFail(t)
    <3>1. mag' = mag /\ size' = size /\ pc[t] \in {"pop_read", "pop_cas"}
      BY <2>2 DEF PopRead, PopCasOk, PopCasFail
    <3> QED
      BY <3>1 DEF Vacant, Cls
  <2> QED
    BY <1>3, <2>1, <2>2, PopOnly
<1>4. \A u \in Threads : pc'[u] \in {"pop_read", "pop_cas", "refill"} => mag'[AllocMag(u, Cls(u)')] = << >>
  BY <1>2, <1>3
<1> QED
  BY <1>1, <1>4 DEF Vacant

-----------------------------------------------------------------------------
(* No block is lost. *)

\* No step of any thread loses a block.
LEMMA AccountedStep ==
  ASSUME IInv, Vacant, BlocksAccounted, NEW t \in Threads, Step(t)
  PROVE  BlocksAccounted'
<1> DEFINE Goal == BlocksAccounted'
<1>0. TypeOK /\ ControlInv
  BY DEF IInv, StackInv
<1>1. ASSUME NEW b, Stored \subseteq Stored' \cup {b}, b \in live', live \subseteq live',
             Freeing \subseteq Freeing', UNCHANGED <<pages, dropped>>
      PROVE  Goal
  <2>1. InCirculation' = InCirculation
    BY <1>1 DEF InCirculation
  <2> QED
    BY <1>1, <2>1 DEF BlocksAccounted
<1>2. ASSUME Stored \subseteq Stored', Freeing \subseteq Freeing',
             UNCHANGED <<live, pages, dropped>>
      PROVE  Goal
  <2>1. InCirculation' = InCirculation
    BY <1>2 DEF InCirculation
  <2> QED
    BY <1>2, <2>1 DEF BlocksAccounted
<1>3. ASSUME blk' = [blk EXCEPT ![t] = Null], pc[t] \in {"finish", "miss"}
      PROVE  Freeing \subseteq Freeing'
  <2>1. blk[t] = Null
    BY <1>0, <1>3 DEF ControlInv
  <2> QED
    BY <1>3, <2>1, FreeingKept, Zenon
<1>4. ASSUME NEW s \in Sizes, AllocHit(t, s) PROVE Goal
  <2> DEFINE A == AllocMag(t, ClassOf[s])
  <2>1. /\ A \in Slots /\ mag[A] # << >> /\ mag' = [mag EXCEPT ![A] = Pop(mag[A])]
        /\ live' = live \cup {Top(mag[A])} /\ UNCHANGED <<pages, blk, dropped>>
    BY <1>4, SlotFacts, ConstantsAssumption DEF AllocHit, HandOut
  <2> HIDE DEF A
  <2>2. Stored \subseteq Stored' \cup {Top(mag[A])} /\ Freeing \subseteq Freeing'
    BY <2>1, PopKeeps, FreeingKept, Zenon
  <2> QED
    BY <2>1, <2>2, <1>1
<1>5. ASSUME NEW s \in Sizes, AllocSwap(t, s) PROVE Goal
  <2> DEFINE A == AllocMag(t, ClassOf[s])
             F == FreeMag(t, ClassOf[s])
  <2>1. /\ A \in Slots /\ F \in Slots /\ A # F /\ mag[A] = << >> /\ mag[F] # << >>
        /\ mag' = [mag EXCEPT ![A] = Pop(mag[F]), ![F] = mag[A]]
        /\ live' = live \cup {Top(mag[F])} /\ UNCHANGED <<pages, blk, dropped>>
    BY <1>5, SlotFacts, ConstantsAssumption DEF AllocSwap, HandOut
  <2> HIDE DEF A, F
  <2>2. Stored \subseteq Stored' \cup {Top(mag[F])} /\ Freeing \subseteq Freeing'
    BY <2>1, SwapKeeps, FreeingKept, Zenon
  <2> QED
    BY <2>1, <2>2, <1>1
<1>6. CASE \/ \E s \in Sizes : AllocPopFull(t, s)
           \/ PopRead(t) \/ PopCasOk(t) \/ PopCasFail(t)
           \/ PushEmptyLink(t) \/ PushEmptyCasOk(t) \/ PushEmptyCasFail(t)
           \/ PushFullLink(t) \/ PushFullCasFail(t)
  <2>1. UNCHANGED <<mag, live, pages, blk, dropped>>
    BY <1>6, Zenon DEF AllocPopFull, PopRead, PopCasOk, PopCasFail, PushEmptyLink,
                       PushEmptyCasOk, PushEmptyCasFail, PushFullLink, PushFullCasFail
  <2>2. Stored' = Stored /\ Freeing' = Freeing
    BY <2>1 DEF Stored, Freeing
  <2> QED
    BY <2>1, <2>2, <1>2
<1>7. CASE Refill(t)
  <2> DEFINE A == AllocMag(t, Cls(t))
             N == NodeMag(node[t])
  <2>1. Cls(t) \in Classes /\ node[t] \in Nodes /\ mag[A] = << >>
    BY <1>7, <1>0, ClassFacts, ThreadFacts DEF Refill, Vacant
  <2>2. A \in Slots /\ N \in Slots /\ A # N
    BY <2>1, SlotFacts
  <2>3. /\ mag' = [mag EXCEPT ![A] = mag[N], ![N] = << >>]
        /\ UNCHANGED <<live, pages, blk, dropped>>
    BY <1>7 DEF Refill
  <2> HIDE DEF A, N
  <2>4. Stored \subseteq Stored' /\ Freeing \subseteq Freeing'
    BY <2>1, <2>2, <2>3, TransferKeeps, FreeingKept, Zenon
  <2> QED
    BY <2>3, <2>4, <1>2
<1>8. CASE Finish(t)
  <2> DEFINE A == AllocMag(t, Cls(t))
  <2>1. A \in Slots /\ pc[t] = "finish"
    BY <1>8, ClassFacts, SlotFacts DEF Finish
  <2>2. CASE mag[A] # << >>
    <3>1. /\ mag' = [mag EXCEPT ![A] = Pop(mag[A])] /\ live' = live \cup {Top(mag[A])}
          /\ UNCHANGED <<pages, dropped>> /\ blk' = [blk EXCEPT ![t] = Null]
      BY <1>8, <2>2 DEF Finish, Return, HandOut
    <3> HIDE DEF A
    <3>2. Stored \subseteq Stored' \cup {Top(mag[A])}
      BY <2>1, <2>2, <3>1, PopKeeps, Zenon
    <3> QED
      BY <2>1, <3>1, <3>2, <1>1, <1>3
  <2>3. CASE mag[A] = << >>
    <3>1. UNCHANGED <<mag, live, pages, blk, dropped>>
      BY <1>8, <2>3 DEF Finish
    <3>2. Stored' = Stored /\ Freeing' = Freeing
      BY <3>1 DEF Stored, Freeing
    <3> QED
      BY <3>1, <3>2, <1>2
  <2> QED
    BY <2>2, <2>3
<1>9. ASSUME NEW p \in FreshPages, NEW k \in 0 .. Capacity, NEW c,
             pages' = [pages EXCEPT ![p] = [class |-> c, n |-> 1 + k]],
             live' = live \cup {<<p, 0>>}, Freeing \subseteq Freeing', dropped' = dropped,
             Stored \subseteq Stored', \A i \in 1 .. k : <<p, i>> \in Stored'
      PROVE  Goal
  <2>1. \A b \in InCirculation' :
          b \in InCirculation \/ b = <<p, 0>> \/ \E i \in 1 .. k : b = <<p, i>>
    BY <1>9, CarvedBlocks, Zenon
  <2>2. \A b \in InCirculation' : b \in InCirculation \/ b \in live' \/ b \in Stored'
    BY <1>9, <2>1, Zenon
  <2> QED
    BY <1>9, <2>2 DEF BlocksAccounted
<1>10. ASSUME NEW p \in FreshPages, MissCarve(t, p) PROVE Goal
  <2> DEFINE c == Cls(t)
             A == AllocMag(t, c)
             k == PerPage[c] - 1
             n == BulkCount(mag[A], k)
  <2>1. c \in Classes /\ A \in Slots /\ p \in Pages /\ pc[t] = "miss"
    BY <1>10, ClassFacts, SlotFacts, Zenon DEF MissCarve, FreshPages
  <2>2. k \in Nat
    BY <1>10, <2>1, ConstantsAssumption DEF MissCarve
  <2>3. /\ pages' = [pages EXCEPT ![p] = [class |-> c, n |-> 1 + n]]
        /\ mag' = [mag EXCEPT ![A] = BulkInit(mag[A], p, k)] /\ dropped' = dropped
        /\ live' = live \cup {<<p, 0>>} /\ blk' = [blk EXCEPT ![t] = Null]
    BY <1>10 DEF MissCarve, Return, HandOut
  <2> HIDE DEF A, k, c
  <2>4. n \in 0 .. Capacity
    BY <2>1, <2>2, MagFacts, BulkFacts, Zenon
  <2>5. Stored \subseteq Stored' /\ \A i \in 1 .. n : <<p, i>> \in Stored'
    BY <2>1, <2>2, <2>3, BulkKeeps, Zenon
  <2>6. Freeing \subseteq Freeing'
    BY <2>1, <2>3, <1>3
  <2> HIDE DEF n
  <2> QED
    BY <2>3, <2>4, <2>5, <2>6, <1>9, Zenon
<1>11. ASSUME NEW p \in FreshPages, MissSingle(t, p) PROVE Goal
  <2>1. /\ pages' = [pages EXCEPT ![p] = [class |-> Cls(t), n |-> 1 + 0]]
        /\ live' = live \cup {<<p, 0>>} /\ blk' = [blk EXCEPT ![t] = Null] /\ mag' = mag
        /\ dropped' = dropped /\ pc[t] = "miss"
    BY <1>11 DEF MissSingle, Return, HandOut
  <2>2. Stored \subseteq Stored' /\ \A i \in 1 .. 0 : <<p, i>> \in Stored'
    BY <2>1 DEF Stored
  <2>3. 0 \in 0 .. Capacity /\ Freeing \subseteq Freeing'
    BY <2>1, <1>3, ConstantsAssumption
  <2> QED
    BY <2>1, <2>2, <2>3, <1>9, Zenon
<1>12. CASE MissFail(t)
  <2>1. UNCHANGED <<mag, live, pages, dropped>> /\ blk' = [blk EXCEPT ![t] = Null] /\ pc[t] = "miss"
    BY <1>12 DEF MissFail, Return
  <2>2. Stored' = Stored
    BY <2>1 DEF Stored
  <2> QED
    BY <2>1, <2>2, <1>2, <1>3
<1>13. ASSUME NEW b \in live, DeallocLocal(t, b) PROVE Goal
  <2> DEFINE F == FreeMag(t, ClassOf[header[b]])
  <2>1. F \in Slots /\ b \in Blocks
    BY HeaderFacts, SlotFacts, Zenon
  <2>2. /\ mag' = [mag EXCEPT ![F] = Append(mag[F], b)]
        /\ live' = live \ {b} /\ UNCHANGED <<pages, blk, dropped>>
    BY <1>13, Zenon DEF DeallocLocal
  <2> HIDE DEF F
  <2>3. Stored \subseteq Stored' /\ b \in Stored' /\ Freeing \subseteq Freeing'
    BY <2>1, <2>2, StoreKeeps, FreeingKept, Zenon
  <2>4. InCirculation' = InCirculation
    BY <2>2 DEF InCirculation
  <2> QED
    BY <2>2, <2>3, <2>4 DEF BlocksAccounted
<1>14. ASSUME NEW b \in live, DeallocOverflow(t, b) PROVE Goal
  <2>1. /\ live' = live \ {b} /\ blk' = [blk EXCEPT ![t] = b] /\ pc[t] = "idle"
        /\ UNCHANGED <<mag, pages, dropped>>
    BY <1>14, Zenon DEF DeallocOverflow
  <2>2. b \in Blocks /\ blk[t] = Null
    BY <1>0, <2>1, HeaderFacts DEF ControlInv
  <2>3. Freeing \subseteq Freeing' /\ b \in Freeing'
    BY <2>1, <2>2, FreeingKept, Zenon
  <2>4. InCirculation' = InCirculation /\ Stored' = Stored
    BY <2>1 DEF InCirculation, Stored
  <2> QED
    BY <2>1, <2>3, <2>4 DEF BlocksAccounted
<1>15. CASE NodeNull(t)
  <2>1. /\ blk' = [blk EXCEPT ![t] = Null] /\ dropped' = dropped \cup {blk[t]}
        /\ UNCHANGED <<mag, live, pages>>
    BY <1>15 DEF NodeNull, Return
  <2>2. Freeing \subseteq Freeing' \cup {blk[t]}
    BY <2>1, FreeingKept, Zenon
  <2>3. InCirculation' = InCirculation /\ Stored' = Stored
    BY <2>1 DEF InCirculation, Stored
  <2> QED
    BY <2>1, <2>2, <2>3 DEF BlocksAccounted
<1>16. ASSUME NEW n \in Nodes, stage[n] = "fresh", NodeTake(t, n) PROVE Goal
  <2> DEFINE F == FreeMag(t, Cls(t))
             N == NodeMag(n)
  <2>1. Cls(t) \in Classes /\ mag[N] = << >>
    BY <1>16, ClassFacts, Zenon DEF NodeTake, Vacant
  <2>2. F \in Slots /\ N \in Slots /\ N # F
    BY <2>1, SlotFacts
  <2>3. /\ mag' = [mag EXCEPT ![N] = mag[F], ![F] = << >>]
        /\ UNCHANGED <<live, pages, blk, dropped>>
    BY <1>16 DEF NodeTake
  <2> HIDE DEF F, N
  <2>4. Stored \subseteq Stored' /\ Freeing \subseteq Freeing'
    BY <2>1, <2>2, <2>3, TransferKeeps, FreeingKept, Zenon
  <2> QED
    BY <2>3, <2>4, <1>2
<1>17. CASE PushFullCasOk(t)
  <2> DEFINE F == FreeMag(t, Cls(t))
  <2>1. Cls(t) \in Classes /\ blk[t] \in Blocks
    BY <1>17, <1>0, ClassFacts DEF PushFullCasOk, ControlInv, TypeOK
  <2>2. F \in Slots
    BY <2>1, SlotFacts
  <2>3. /\ mag' = [mag EXCEPT ![F] = Append(mag[F], blk[t])]
        /\ blk' = [blk EXCEPT ![t] = Null] /\ UNCHANGED <<live, pages, dropped>>
    BY <1>17 DEF PushFullCasOk, Return
  <2> HIDE DEF F
  <2>4. Stored \subseteq Stored' /\ blk[t] \in Stored'
    BY <2>1, <2>2, <2>3, StoreKeeps, Zenon
  <2>5. Freeing \subseteq Freeing' \cup {blk[t]}
    BY <2>3, FreeingKept, Zenon
  <2>6. InCirculation' = InCirculation
    BY <2>3 DEF InCirculation
  <2> QED
    BY <2>3, <2>4, <2>5, <2>6 DEF BlocksAccounted
<1> QED
  BY <1>4, <1>5, <1>6, <1>7, <1>8, <1>10, <1>11, <1>12, <1>13, <1>14, <1>15, <1>16, <1>17
     DEF Step

\* No block is ever lost to a race: at every interleaving, each block carved is
\* held, on its way through dealloc, in a magazine, or was dropped by dealloc
\* because alloc_node returned null.
THEOREM BlocksAreAccounted == Spec => []BlocksAccounted
<1>1. Init => BlocksAccounted /\ Vacant
  <2> SUFFICES ASSUME Init PROVE BlocksAccounted /\ Vacant
    OBVIOUS
  <2>1. InCirculation = {}
    BY DEF Init, InCirculation, Blocks, Unmapped
  <2>2. Vacant
    BY SlotFacts DEF Init, Vacant
  <2> QED
    BY <2>1, <2>2 DEF BlocksAccounted
<1>2. IInv /\ Vacant /\ BlocksAccounted /\ [Next]_vars => BlocksAccounted' /\ Vacant'
  <2> SUFFICES ASSUME IInv, Vacant, BlocksAccounted, [Next]_vars
               PROVE  BlocksAccounted' /\ Vacant'
    OBVIOUS
  <2>1. CASE Next
    BY <2>1, AccountedStep, VacantStep, Zenon DEF Next
  <2>2. CASE UNCHANGED vars
    <3>1. UNCHANGED <<mag, live, pages, pc, size, blk, stage, dropped>>
      BY <2>2, Zenon DEF vars, pool
    <3>2. Vacant'
      BY <3>1, Zenon DEF Vacant, Cls
    <3>3. InCirculation' = InCirculation /\ Stored' = Stored /\ Freeing' = Freeing
      BY <3>1 DEF InCirculation, Stored, Freeing
    <3> QED
      BY <3>1, <3>2, <3>3, Zenon DEF BlocksAccounted
  <2> QED
    BY <2>1, <2>2
<1> QED
  BY <1>1, <1>2, Invariance, PTL DEF Spec
=============================================================================
