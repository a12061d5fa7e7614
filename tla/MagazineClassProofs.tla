------------------------- MODULE MagazineClassProofs ------------------------
(***************************************************************************)
(* MagazineCache, continued: for every value of the constants no block     *)
(* leaves its class, the full stacks hold full magazines only, and the     *)
(* cache implements BlockHeap.                                             *)
(***************************************************************************)
EXTENDS MagazineClassSteps

\* The nodes of a full stack hold full magazines of its class.
LEMMA StackedFull ==
  ASSUME IInv, CInv, NEW c \in Classes, NEW j \in DOMAIN fullSeq[c]
  PROVE  /\ fullSeq[c][j] \in Nodes /\ stage[fullSeq[c][j]] = "full"
         /\ FullOf(mag[NodeMag(fullSeq[c][j])], c)
<1>1. fullSeq[c] \in Seq(Nodes)
  BY DEF IInv, StackInv, TypeOK
<1>2. fullSeq[c][j] \in Nodes
  BY <1>1, ElementOfSeq
<1> QED
  BY <1>2 DEF IInv, StackInv, FullSeqDistinct, CInv, ClassesNeverMix, FullMagazinesAreFull, FullOf

\* What t itself has under way after its step.
LEMMA OwnTransit ==
  ASSUME IInv, CInv, NEW t \in Threads, Step(t)
  PROVE  InTransit(t)'
<1>0. /\ pc \in [Threads -> PcValues] /\ size \in [Threads -> Sizes \cup {Null}]
      /\ blk \in [Threads -> Blocks \cup {Null}] /\ node \in [Threads -> Pointers]
      /\ mag \in [Slots -> Magazines] /\ InTransit(t)
  BY DEF IInv, StackInv, TypeOK, CInv
<1>1. ASSUME pc'[t] \in {"idle", "miss", "pop_read", "pop_cas"} PROVE InTransit(t)'
  BY <1>1 DEF InTransit
<1>2. CASE \/ \E s \in Sizes : AllocHit(t, s) \/ AllocSwap(t, s) \/ AllocPopFull(t, s)
           \/ PopRead(t) \/ PopCasFail(t) \/ Finish(t)
           \/ \E p \in FreshPages : MissCarve(t, p) \/ MissSingle(t, p)
           \/ MissFail(t) \/ (\E b \in live : DeallocLocal(t, b)) \/ NodeNull(t) \/ PushFullCasOk(t)
  <2> DEFINE Ends == {"idle", "miss", "pop_read", "pop_cas"}
  <2>1. (pc[t] \in Ends /\ pc' = pc) \/ \E x \in Ends : pc' = [pc EXCEPT ![t] = x]
    <3>1. CASE \E s \in Sizes : AllocHit(t, s) \/ AllocSwap(t, s)
      BY <3>1 DEF AllocHit, AllocSwap
    <3>2. CASE (\E s \in Sizes : AllocPopFull(t, s)) \/ PopCasFail(t)
      BY <3>2 DEF AllocPopFull, PopCasFail, PopLoaded
    <3>3. CASE PopRead(t) \/ Finish(t)
      BY <3>3 DEF PopRead, Finish, Return
    <3>4. CASE (\E p \in FreshPages : MissCarve(t, p) \/ MissSingle(t, p)) \/ MissFail(t)
      BY <3>4, Zenon DEF MissCarve, MissSingle, MissFail, Return
    <3>5. CASE (\E b \in live : DeallocLocal(t, b)) \/ NodeNull(t) \/ PushFullCasOk(t)
      BY <3>5, Zenon DEF DeallocLocal, NodeNull, PushFullCasOk, Return
    <3> QED
      BY <1>2, <3>1, <3>2, <3>3, <3>4, <3>5, Zenon
  <2>2. pc'[t] \in Ends
    BY <1>0, <2>1
  <2> QED
    BY <1>1, <2>2
<1>3. CASE PopCasOk(t)
  <2> DEFINE c == Cls(t)
  <2>1. /\ fullHead[c] = cur[t] /\ mag' = mag /\ pages' = pages /\ size' = size
        /\ pc[t] = "pop_cas" /\ pc'[t] = "refill" /\ node'[t] = cur[t]
    BY <1>0, <1>3 DEF PopCasOk
  <2>2. c \in Classes /\ cur[t] # Null
    BY <2>1, ClassFacts, ThreadFacts
  <2>3. 1 \in DOMAIN fullSeq[c] /\ fullSeq[c][1] = cur[t]
    BY <2>1, <2>2, HeadFacts
  <2>4. FullOf(mag[NodeMag(cur[t])], c)
    BY <2>2, <2>3, StackedFull
  <2>5. FullOf(mag[NodeMag(node[t])], Cls(t))'
    BY <2>1, <2>4 DEF FullOf, OfClass, Cls
  <2> QED
    BY <2>1, <2>5 DEF InTransit
<1>4. CASE Refill(t)
  <2> DEFINE A == AllocMag(t, Cls(t))
             N == NodeMag(node[t])
  <2>1. /\ mag' = [mag EXCEPT ![A] = mag[N], ![N] = << >>]
        /\ pc[t] = "refill" /\ pc'[t] = "pe_link" /\ size' = size
    BY <1>0, <1>4 DEF Refill
  <2>2. Cls(t) \in Classes /\ node[t] \in Nodes
    BY <2>1, ClassFacts, ThreadFacts
  <2>3. Len(mag[N]) = Capacity
    BY <1>0, <2>1 DEF InTransit, FullOf
  <2>4. mag'[A] = mag[N]
    BY <1>0, <2>1, <2>2, SlotFacts
  <2>5. mag'[A] # << >>
    BY <2>3, <2>4, EmptyFacts, ConstantsAssumption
  <2>6. mag'[AllocMag(t, Cls(t)')] # << >>
    BY <2>1, <2>5 DEF Cls
  <2> QED
    BY <2>1, <2>6 DEF InTransit
<1>5. CASE PushEmptyLink(t) \/ PushEmptyCasOk(t) \/ PushEmptyCasFail(t)
  <2>1. /\ pc[t] \in {"pe_link", "pe_cas"} /\ pc'[t] \in {"pe_link", "pe_cas", "finish"}
        /\ mag' = mag /\ size' = size
    BY <1>0, <1>5 DEF PushEmptyLink, PushEmptyCasOk, PushEmptyCasFail
  <2>2. mag'[AllocMag(t, Cls(t)')] # << >>
    BY <1>0, <2>1 DEF InTransit, Cls
  <2> QED
    BY <2>1, <2>2, Zenon DEF InTransit
<1>6. ASSUME NEW b \in live, DeallocOverflow(t, b) PROVE InTransit(t)'
  <2> DEFINE d == ClassOf[header[b]]
  <2>1. /\ IsFull(mag[FreeMag(t, d)]) /\ mag' = mag /\ pages' = pages
        /\ pc'[t] = "need_node" /\ blk'[t] = b /\ size'[t] = header[b]
    BY <1>0, <1>6 DEF DeallocOverflow
  <2>2. b \in Blocks /\ d \in Classes /\ pages[b[1]].class = d
    BY HeaderFacts DEF CInv, ClassesNeverMix
  <2>3. Len(mag[FreeMag(t, d)]) = Capacity
    <3>1. mag[FreeMag(t, d)] \in Magazines
      BY <1>0, <2>2, SlotFacts
    <3> QED
      BY <2>1, <3>1, ConstantsAssumption DEF IsFull, Magazines
  <2>4. Cls(t)' = d
    BY <2>1 DEF Cls
  <2> QED
    BY <2>1, <2>2, <2>3, <2>4 DEF InTransit
<1>7. ASSUME NEW n \in Nodes, NodeTake(t, n) PROVE InTransit(t)'
  <2> DEFINE F == FreeMag(t, Cls(t))
  <2>1. /\ mag' = [mag EXCEPT ![NodeMag(n)] = mag[F], ![F] = << >>]
        /\ pc[t] = "need_node" /\ pc'[t] = "pf_link" /\ node'[t] = n
        /\ pages' = pages /\ size' = size /\ blk' = blk
    BY <1>0, <1>7 DEF NodeTake
  <2>2. Len(mag[F]) = Capacity /\ pages[blk[t][1]].class = Cls(t)
    BY <1>0, <2>1 DEF InTransit
  <2>3. Cls(t) \in Classes /\ Cls(t)' = Cls(t)
    BY <2>1, ClassFacts DEF Cls
  <2>4. OfClass(mag[F], Cls(t))
    BY <2>3 DEF CInv, ClassesNeverMix
  <2>5. mag'[NodeMag(n)] = mag[F]
    BY <1>0, <2>1, <2>3, SlotFacts
  <2>6. FullOf(mag[NodeMag(node[t])], Cls(t))'
    <3>1. Len(mag'[NodeMag(n)]) = Capacity
      BY <2>2, <2>5
    <3>2. \A i \in DOMAIN mag'[NodeMag(n)] : pages'[mag'[NodeMag(n)][i][1]].class = Cls(t)
      BY <2>1, <2>4, <2>5 DEF OfClass
    <3> QED
      BY <2>1, <2>3, <3>1, <3>2, Zenon DEF FullOf, OfClass
  <2> QED
    BY <2>1, <2>2, <2>3, <2>6 DEF InTransit
<1>8. CASE PushFullLink(t) \/ PushFullCasFail(t)
  <2>1. /\ mag' = mag /\ pages' = pages /\ size' = size /\ blk' = blk /\ node' = node
        /\ pc[t] \in {"pf_link", "pf_cas"} /\ pc'[t] \in {"pf_link", "pf_cas"}
    BY <1>0, <1>8 DEF PushFullLink, PushFullCasFail
  <2>2. FullOf(mag[NodeMag(node[t])], Cls(t)) /\ pages[blk[t][1]].class = Cls(t)
    BY <1>0, <2>1 DEF InTransit
  <2>3. FullOf(mag[NodeMag(node[t])], Cls(t))' /\ pages'[blk'[t][1]].class = Cls(t)'
    BY <2>1, <2>2 DEF FullOf, OfClass, Cls
  <2> QED
    BY <2>1, <2>3 DEF InTransit
<1> QED
  BY <1>2, <1>3, <1>4, <1>5, <1>6, <1>7, <1>8, Zenon DEF Step

-----------------------------------------------------------------------------
(* The full stacks. *)

\* After a step the nodes of a full stack are among those before it and, when
\* push_full succeeds, the node of t.
LEMMA StackMembers ==
  ASSUME IInv, NEW t \in Threads, Step(t), NEW c \in Classes, NEW j \in DOMAIN fullSeq'[c]
  PROVE  \/ \E i \in DOMAIN fullSeq[c] : fullSeq'[c][j] = fullSeq[c][i]
         \/ pc[t] = "pf_cas" /\ c = Cls(t) /\ fullSeq'[c][j] = node[t]
<1>0. fullSeq \in [Classes -> Seq(Nodes)]
  BY DEF IInv, StackInv, TypeOK
<1>1. CASE fullSeq' = fullSeq
  BY <1>1
<1>2. CASE PopCasOk(t)
  <2>1. /\ Cls(t) \in Classes /\ fullHead[Cls(t)] # Null
        /\ fullSeq' = [fullSeq EXCEPT ![Cls(t)] = Tail(fullSeq[Cls(t)])]
    <3>1. /\ pc[t] = "pop_cas" /\ fullHead[Cls(t)] = cur[t]
          /\ fullSeq' = [fullSeq EXCEPT ![Cls(t)] = Tail(fullSeq[Cls(t)])]
      BY <1>2, Zenon DEF PopCasOk
    <3> QED
      BY <3>1, ClassFacts, ThreadFacts
  <2>2. fullSeq[Cls(t)] \in Seq(Nodes) /\ fullSeq[Cls(t)] # << >>
    BY <2>1, HeadFacts
  <2>3. CASE c = Cls(t)
    <3>1. fullSeq'[c] = Tail(fullSeq[c])
      BY <1>0, <2>1, <2>3
    <3> DEFINE q == fullSeq[c]
    <3>2. q \in Seq(Nodes) /\ q # << >> /\ j \in DOMAIN Tail(q)
      BY <2>2, <2>3, <3>1
    <3> HIDE DEF q
    <3>3. Len(q) \in Nat /\ Len(Tail(q)) = Len(q) - 1 /\ Tail(q) \in Seq(Nodes) /\ Len(q) > 0
      BY <3>2, EmptySeq
    <3>4. j \in 1 .. Len(q) - 1 /\ j + 1 \in 1 .. Len(q) /\ DOMAIN q = 1 .. Len(q)
      BY <3>2, <3>3
    <3>5. Tail(q)[j] = q[j + 1]
      BY <3>2, <3>3, <3>4
    <3> QED
      BY <3>1, <3>4, <3>5 DEF q
  <2>4. CASE c # Cls(t)
    BY <1>0, <2>1, <2>4
  <2> QED
    BY <2>3, <2>4
<1>3. CASE PushFullCasOk(t)
  <2>1. /\ Cls(t) \in Classes /\ node[t] \in Nodes /\ pc[t] = "pf_cas"
        /\ fullSeq' = [fullSeq EXCEPT ![Cls(t)] = <<node[t]>> \o fullSeq[Cls(t)]]
    <3>1. /\ pc[t] = "pf_cas"
          /\ fullSeq' = [fullSeq EXCEPT ![Cls(t)] = <<node[t]>> \o fullSeq[Cls(t)]]
      BY <1>3, Zenon DEF PushFullCasOk
    <3> QED
      BY <3>1, ClassFacts, ThreadFacts
  <2>2. CASE c = Cls(t)
    <3> DEFINE q == fullSeq[c]
    <3>1. fullSeq'[c] = <<node[t]>> \o q /\ q \in Seq(Nodes)
      BY <1>0, <2>1, <2>2
    <3> HIDE DEF q
    <3>2. /\ fullSeq'[c] \in Seq(Nodes) /\ Len(fullSeq'[c]) = Len(q) + 1
          /\ fullSeq'[c][1] = node[t]
          /\ \A i \in 1 .. Len(q) : fullSeq'[c][i + 1] = q[i]
      <4> DEFINE n == node[t]
                 r == fullSeq'[c]
      <4>1. n \in Nodes /\ r = <<n>> \o q
        BY <2>1, <3>1
      <4> HIDE DEF n, r
      <4>2. /\ <<n>> \o q \in Seq(Nodes) /\ Len(<<n>> \o q) = Len(q) + 1
            /\ (<<n>> \o q)[1] = n
            /\ \A i \in 1 .. Len(q) : (<<n>> \o q)[i + 1] = q[i]
        BY <3>1, <4>1, ConsFacts
      <4>3. /\ r \in Seq(Nodes) /\ Len(r) = Len(q) + 1 /\ r[1] = n
            /\ \A i \in 1 .. Len(q) : r[i + 1] = q[i]
        BY <4>1, <4>2, Zenon
      <4> QED
        BY <4>3 DEF n, r
    <3>3. j \in 1 .. Len(q) + 1 /\ Len(q) \in Nat /\ DOMAIN q = 1 .. Len(q)
      BY <3>1, <3>2
    <3>4. CASE j = 1
      BY <2>1, <2>2, <3>2, <3>4
    <3>5. CASE j # 1
      <4>1. j - 1 \in 1 .. Len(q) /\ (j - 1) + 1 = j
        BY <3>3, <3>5
      <4>2. fullSeq'[c][j] = q[j - 1]
        BY <3>2, <4>1
      <4> QED
        BY <3>3, <4>1, <4>2 DEF q
    <3> QED
      BY <3>4, <3>5
  <2>3. CASE c # Cls(t)
    BY <1>0, <2>1, <2>3
  <2> QED
    BY <2>2, <2>3
<1>4. fullSeq' = fullSeq \/ PopCasOk(t) \/ PushFullCasOk(t)
  <2>1. CASE \E s \in Sizes : AllocHit(t, s) \/ AllocSwap(t, s) \/ AllocPopFull(t, s)
    BY <2>1, Zenon DEF pool, AllocHit, AllocSwap, AllocPopFull
  <2>2. CASE PopRead(t) \/ PopCasFail(t) \/ Refill(t)
    BY <2>2, Zenon DEF pool, PopRead, PopCasFail, Refill
  <2>3. CASE PushEmptyLink(t) \/ PushEmptyCasOk(t) \/ PushEmptyCasFail(t) \/ Finish(t)
    BY <2>3, Zenon DEF pool, PushEmptyLink, PushEmptyCasOk, PushEmptyCasFail, Finish
  <2>4. CASE (\E p \in FreshPages : MissCarve(t, p) \/ MissSingle(t, p)) \/ MissFail(t)
    BY <2>4, Zenon DEF pool, MissCarve, MissSingle, MissFail
  <2>5. CASE \E b \in live : DeallocLocal(t, b) \/ DeallocOverflow(t, b)
    BY <2>5, Zenon DEF pool, DeallocLocal, DeallocOverflow
  <2>6. CASE \/ NodeNull(t) \/ (\E n \in Nodes : NodeTake(t, n))
             \/ PushFullLink(t) \/ PushFullCasFail(t)
    BY <2>6, Zenon DEF pool, NodeNull, NodeTake, PushFullLink, PushFullCasFail
  <2> QED
    BY <2>1, <2>2, <2>3, <2>4, <2>5, <2>6 DEF Step
<1> QED
  BY <1>1, <1>2, <1>3, <1>4

\* So every magazine in a full stack is full and of the class of the stack.
LEMMA FullStep ==
  ASSUME IInv, CInv, NEW t \in Threads, Step(t), NEW c \in Classes, NEW j \in DOMAIN fullSeq'[c]
  PROVE  FullOf(mag[NodeMag(fullSeq[c][j])], c)'
<1>1. PICK n \in Nodes : /\ n = fullSeq'[c][j] /\ stage[n] \in {"full", "filled"}
                         /\ FullOf(mag[NodeMag(n)], c)
  <2>1. CASE \E i \in DOMAIN fullSeq[c] : fullSeq'[c][j] = fullSeq[c][i]
    BY <2>1, StackedFull
  <2>2. CASE pc[t] = "pf_cas" /\ c = Cls(t) /\ fullSeq'[c][j] = node[t]
    <3>1. node[t] \in Nodes /\ stage[node[t]] = "filled"
      BY <2>2, ThreadFacts
    <3>2. InTransit(t)
      BY DEF CInv
    <3>3. FullOf(mag[NodeMag(node[t])], c)
      BY <2>2, <3>2 DEF InTransit
    <3> QED
      BY <2>2, <3>1, <3>3, Zenon
  <2> QED
    BY <2>1, <2>2, StackMembers
<1>2. pc[t] = "refill" => n # node[t]
  BY <1>1, ThreadFacts
<1>3. FullOf(mag[NodeMag(n)], c)'
  BY <1>1, <1>2, OtherNodes
<1> QED
  BY <1>1, <1>3, Zenon DEF FullOf, OfClass

-----------------------------------------------------------------------------
(* The theorems. *)

\* Initially there is no block, and no call under way.
LEMMA InitCInv == Init => CInv
<1> SUFFICES ASSUME Init PROVE CInv
  OBVIOUS
<1>1. \A l \in Slots, c \in Classes : OfClass(mag[l], c)
  BY DEF Init, OfClass
<1>2. \A c \in Classes : DOMAIN fullSeq[c] = {}
  BY DEF Init
<1>3. ClassesNeverMix
  <2>1. live = {}
    BY DEF Init
  <2> QED
    BY <1>1, <1>2, <2>1, SlotFacts DEF ClassesNeverMix
<1>4. FullMagazinesAreFull /\ \A t \in Threads : InTransit(t)
  BY <1>2 DEF FullMagazinesAreFull, InTransit, Init
<1> QED
  BY <1>3, <1>4 DEF CInv

\* Every step of every thread keeps it.
LEMMA StepCInv ==
  ASSUME IInv, CInv, NEW t \in Threads, Step(t)
  PROVE  CInv'
<1>1. \A u \in Threads : InTransit(u)'
  BY OtherTransit, OwnTransit
<1>2. \A u \in Threads, c \in Classes :
        OfClass(mag[AllocMag(u, c)], c)' /\ OfClass(mag[FreeMag(u, c)], c)'
  BY OtherMags, OwnMags
<1>3. \A c \in Classes : \A j \in DOMAIN fullSeq'[c] :
        /\ Len(mag[NodeMag(fullSeq[c][j])])' = Capacity
        /\ OfClass(mag[NodeMag(fullSeq[c][j])], c)'
  BY FullStep DEF FullOf
<1>4. ClassesNeverMix'
  <2>1. \A b \in live' : header'[b] # Null /\ ClassOf[header'[b]] = pages'[b[1]].class
    BY LiveStep
  <2> QED
    BY <1>2, <1>3, <2>1, Zenon DEF ClassesNeverMix
<1>5. FullMagazinesAreFull'
  BY <1>1, <1>3 DEF FullMagazinesAreFull, InTransit
<1> QED
  BY <1>1, <1>4, <1>5 DEF CInv

\* Both invariants and what the threads have under way hold throughout.
THEOREM ClassInvariance == Spec => []CInv
<1>1. IInv /\ CInv /\ [Next]_vars => CInv'
  <2> SUFFICES ASSUME IInv, CInv, [Next]_vars PROVE CInv'
    OBVIOUS
  <2>1. CASE Next
    BY <2>1, StepCInv DEF Next
  <2>2. CASE UNCHANGED vars
    <3>1. /\ mag' = mag /\ pages' = pages /\ fullSeq' = fullSeq /\ live' = live /\ header' = header
          /\ pc' = pc /\ size' = size /\ blk' = blk /\ node' = node
      BY <2>2, Zenon DEF vars, pool
    <3>2. ClassesNeverMix' /\ FullMagazinesAreFull'
      <4>1. ClassesNeverMix'
        <5>1. ASSUME NEW t \in Threads, NEW c \in Classes
              PROVE  OfClass(mag[AllocMag(t, c)], c)' /\ OfClass(mag[FreeMag(t, c)], c)'
          <6>1. OfClass(mag[AllocMag(t, c)], c) /\ OfClass(mag[FreeMag(t, c)], c)
            BY DEF CInv, ClassesNeverMix
          <6> QED
            BY <3>1, <6>1, Zenon DEF OfClass
        <5>2. ASSUME NEW c \in Classes, NEW j \in DOMAIN fullSeq'[c]
              PROVE  OfClass(mag[NodeMag(fullSeq[c][j])], c)'
          <6>1. j \in DOMAIN fullSeq[c]
            BY <3>1
          <6>2. OfClass(mag[NodeMag(fullSeq[c][j])], c)
            BY <6>1 DEF CInv, ClassesNeverMix
          <6> QED
            BY <3>1, <6>2, Zenon DEF OfClass
        <5>3. \A b \in live' : header'[b] # Null /\ ClassOf[header'[b]] = pages'[b[1]].class
          BY <3>1, Zenon DEF CInv, ClassesNeverMix
        <5> QED
          BY <5>1, <5>2, <5>3, Zenon DEF ClassesNeverMix
      <4>2. FullMagazinesAreFull'
        BY <3>1, Zenon DEF CInv, FullMagazinesAreFull, Cls
      <4> QED
        BY <4>1, <4>2
    <3>3. \A t \in Threads : InTransit(t)'
      BY <3>1, Zenon DEF CInv, InTransit, FullOf, OfClass, Cls
    <3> QED
      BY <3>2, <3>3 DEF CInv
  <2> QED
    BY <2>1, <2>2
<1> QED
  BY <1>1, InitCInv, Invariance, PTL DEF Spec

\* For every number of threads, sizes, regions and nodes and every interleaving:
\* a block never leaves the class it was carved for, so dealloc and the stacks
\* never let alloc return a block shorter than its size word says.
THEOREM ClassSafety == Spec => []ClassesNeverMix
<1>1. CInv => ClassesNeverMix
  BY DEF CInv
<1> QED
  BY <1>1, ClassInvariance, PTL

\* Likewise every magazine that reaches a full stack is full, and the pop that
\* follows a successful pop_full in alloc always finds a block.
THEOREM FullSafety == Spec => []FullMagazinesAreFull
<1>1. CInv => FullMagazinesAreFull
  BY DEF CInv
<1> QED
  BY <1>1, ClassInvariance, PTL

-----------------------------------------------------------------------------
(* What a step is to the program. *)

\* A block nobody holds is returned with the size that was asked for ...
Gives == \E b \in Blocks \ live, s \in Sizes : HandOut(b, s)

\* ... or one block is taken back ...
Takes == \E b \in live : live' = live \ {b} /\ header' = header

\* The top block of a magazine is stored there, hence not held.
LEMMA TopNotHeld ==
  ASSUME IInv, NEW L \in Slots, mag[L] # << >>
  PROVE  Top(mag[L]) \in Blocks \ live
<1>1. /\ Len(mag[L]) \in Nat /\ DOMAIN mag[L] = 1 .. Len(mag[L])
      /\ \A i \in DOMAIN mag[L] : mag[L][i] \in Blocks
  BY MagFacts
<1>2. mag[L] \in Seq(Blocks)
  BY MagFacts DEF Magazines
<1>3. Len(mag[L]) \in DOMAIN mag[L]
  BY <1>1, <1>2, EmptySeq
<1>4. Top(mag[L]) \in Stored
  BY <1>3 DEF Top, Stored
<1> QED
  BY <1>1, <1>3, <1>4 DEF IInv, ExclusiveBlocks, Top

\* Nor is the first block of a region not mapped yet.
LEMMA FirstNotHeld ==
  ASSUME IInv, NEW p \in FreshPages
  PROVE  <<p, 0>> \in Blocks \ live
<1>1. p \in Pages /\ pages[p].n = 0
  BY DEF FreshPages
<1>2. <<p, 0>> \notin InCirculation
  BY <1>1 DEF InCirculation
<1> QED
  BY <1>1, <1>2, FirstBlock DEF IInv, BlocksCarved

\* Every step gives a block, takes one, or does neither.
LEMMA StepHeap ==
  ASSUME IInv, NEW t \in Threads, Step(t)
  PROVE  Gives \/ Takes \/ UNCHANGED <<live, header>>
<1>1. ASSUME NEW s \in Sizes, AllocHit(t, s) PROVE Gives
  <2> DEFINE A == AllocMag(t, ClassOf[s])
  <2>1. A \in Slots /\ mag[A] # << >> /\ HandOut(Top(mag[A]), s)
    BY <1>1, SlotFacts, ConstantsAssumption DEF AllocHit
  <2> QED
    BY <2>1, TopNotHeld DEF Gives
<1>2. ASSUME NEW s \in Sizes, AllocSwap(t, s) PROVE Gives
  <2> DEFINE F == FreeMag(t, ClassOf[s])
  <2>1. F \in Slots /\ mag[F] # << >> /\ HandOut(Top(mag[F]), s)
    BY <1>2, SlotFacts, ConstantsAssumption DEF AllocSwap
  <2> QED
    BY <2>1, TopNotHeld DEF Gives
<1>3. CASE Finish(t)
  <2> DEFINE A == AllocMag(t, Cls(t))
  <2>1. A \in Slots /\ size[t] \in Sizes
    BY <1>3, ClassFacts, SlotFacts DEF Finish
  <2>2. CASE mag[A] # << >>
    <3>1. HandOut(Top(mag[A]), size[t])
      BY <1>3, <2>2 DEF Finish
    <3> QED
      BY <2>1, <2>2, <3>1, TopNotHeld DEF Gives
  <2>3. CASE mag[A] = << >>
    BY <1>3, <2>3 DEF Finish
  <2> QED
    BY <2>2, <2>3
<1>4. ASSUME NEW p \in FreshPages, MissCarve(t, p) \/ MissSingle(t, p) PROVE Gives
  <2>1. HandOut(<<p, 0>>, size[t]) /\ size[t] \in Sizes
    BY <1>4, ClassFacts, Zenon DEF MissCarve, MissSingle
  <2> QED
    BY <2>1, FirstNotHeld DEF Gives
<1>5. ASSUME NEW b \in live, DeallocLocal(t, b) \/ DeallocOverflow(t, b) PROVE Takes
  BY <1>5 DEF DeallocLocal, DeallocOverflow, Takes
<1>6. CASE \/ \E s \in Sizes : AllocPopFull(t, s)
           \/ PopRead(t) \/ PopCasOk(t) \/ PopCasFail(t) \/ Refill(t)
           \/ PushEmptyLink(t) \/ PushEmptyCasOk(t) \/ PushEmptyCasFail(t)
           \/ MissFail(t) \/ NodeNull(t) \/ \E n \in Nodes : NodeTake(t, n)
           \/ PushFullLink(t) \/ PushFullCasOk(t) \/ PushFullCasFail(t)
  BY <1>6, Zenon DEF AllocPopFull, PopRead, PopCasOk, PopCasFail, Refill, PushEmptyLink,
            PushEmptyCasOk, PushEmptyCasFail, MissFail, NodeNull, NodeTake, PushFullLink,
            PushFullCasOk, PushFullCasFail
<1> QED
  BY <1>1, <1>2, <1>3, <1>4, <1>5, <1>6 DEF Step

-----------------------------------------------------------------------------
(* The refinement. *)

\* The magazine allocator implements the abstract heap: whatever the threads do,
\* alloc returns a block that nobody holds, dealloc takes one block back, and no
\* step changes the size word of a block that is held.
THEOREM HeapRefinement == Spec => IsBlockHeap
<1> DEFINE heap == [b \in live |-> header[b]]
<1>1. Init => Heap!Init
  BY DEF Init, Heap!Init
<1>2. IInv /\ [Next]_vars => [Heap!Next]_heap
  <2> SUFFICES ASSUME IInv, [Next]_vars PROVE Heap!Next \/ heap' = heap
    OBVIOUS
  <2>0. live \subseteq Blocks /\ header \in [Blocks -> Sizes \cup {Null}]
    BY DEF IInv, StackInv, TypeOK
  <2>1. CASE Gives
    <3>1. PICK b \in Blocks \ live, s \in Sizes : HandOut(b, s)
      BY <2>1 DEF Gives
    <3>2. live' = live \cup {b} /\ header' = [header EXCEPT ![b] = s]
      BY <3>1 DEF HandOut
    <3>3. DOMAIN heap = live /\ DOMAIN heap' = live \cup {b}
      BY <3>2
    <3>4. \A x \in live \cup {b} : heap'[x] = IF x = b THEN s ELSE heap[x]
      BY <2>0, <3>2
    <3>5. heap' = [x \in live \cup {b} |-> IF x = b THEN s ELSE heap[x]]
      BY <3>2, <3>4, Zenon
    <3> QED
      BY <3>1, <3>3, <3>5 DEF Heap!Next, Heap!Alloc
  <2>2. CASE Takes
    <3>1. PICK b \in live : live' = live \ {b} /\ header' = header
      BY <2>2 DEF Takes
    <3>2. DOMAIN heap = live /\ DOMAIN heap' = live \ {b}
      BY <3>1
    <3>3. heap' = [x \in live \ {b} |-> heap[x]]
      BY <3>1
    <3> QED
      BY <3>1, <3>2, <3>3 DEF Heap!Next, Heap!Free
  <2>3. CASE UNCHANGED <<live, header>>
    BY <2>3
  <2>4. CASE UNCHANGED vars
    BY <2>4, <2>3 DEF vars
  <2> QED
    BY <2>1, <2>2, <2>3, <2>4, StepHeap DEF Next
<1> QED
  BY <1>1, <1>2, Invariance, PTL DEF Spec, IsBlockHeap, Heap!Spec
=============================================================================
