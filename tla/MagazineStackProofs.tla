------------------------- MODULE MagazineStackProofs ------------------------
(* Proofs about MagazineCache: the stacks of nodes. *)
EXTENDS MagazineControlProofs

-----------------------------------------------------------------------------
(* The full stacks. *)

\* The steps that neither move a node between stages nor write a link.
QuietStep(t) ==
  \/ \E s \in Sizes : AllocHit(t, s) \/ AllocSwap(t, s) \/ AllocPopFull(t, s)
  \/ PopRead(t) \/ PopCasFail(t) \/ Refill(t) \/ PushEmptyCasFail(t) \/ Finish(t)
  \/ \E p \in FreshPages : MissCarve(t, p) \/ MissSingle(t, p)
  \/ MissFail(t)
  \/ \E b \in live : DeallocLocal(t, b) \/ DeallocOverflow(t, b)
  \/ NodeNull(t) \/ PushFullCasFail(t)

\* They leave the pool alone and give no thread a node.
LEMMA QuietFacts ==
  ASSUME IInv, NEW t \in Threads, QuietStep(t)
  PROVE  /\ UNCHANGED pool
         /\ node' = node \/ node' = [node EXCEPT ![t] = Null]
BY Zenon DEF QuietStep, AllocHit, AllocSwap, AllocPopFull, PopRead, PopCasFail, Refill,
       PushEmptyCasFail, Finish, MissCarve, MissSingle, MissFail, DeallocLocal,
       DeallocOverflow, NodeNull, PushFullCasFail, Return

\* The others are the pushes, the pop and alloc_node.
LEMMA StepCases ==
  ASSUME NEW t \in Threads, Step(t)
  PROVE  \/ QuietStep(t)
         \/ PopCasOk(t)
         \/ PushEmptyLink(t) \/ PushEmptyCasOk(t)
         \/ \E n \in Nodes : stage[n] = "fresh" /\ NodeTake(t, n)
         \/ PushFullLink(t) \/ PushFullCasOk(t)
BY DEF Step, QuietStep

\* A node is never owned by two threads.
LEMMA OwnedStep ==
  ASSUME IInv, NEW t \in Threads, Step(t)
  PROVE  NodesOwned'
<1>0. TypeOK /\ ControlInv /\ NodesOwned
  BY DEF IInv, StackInv
<1>a. \A u \in Threads : node[u] # Null => node[u] \in Nodes /\ stage[node[u]] \in {"taken", "filled"}
  BY <1>0 DEF TypeOK, Pointers, ControlInv, HoldsNode
<1>b. \A u, v \in Threads : node[u] # Null /\ node[u] = node[v] => u = v
  BY <1>0 DEF NodesOwned
<1>c. ASSUME NEW n \in Nodes, stage[n] \notin {"taken", "filled"},
             node' = [node EXCEPT ![t] = n]
      PROVE  NodesOwned'
  BY <1>0, <1>a, <1>b, <1>c DEF TypeOK, NodesOwned
<1>d. ASSUME node' = [node EXCEPT ![t] = Null]
      PROVE  NodesOwned'
  BY <1>0, <1>b, <1>d DEF TypeOK, NodesOwned
<1>e. ASSUME node' = node PROVE NodesOwned'
  BY <1>b, <1>e DEF NodesOwned
<1>1. CASE QuietStep(t)
  BY <1>1, <1>d, <1>e, QuietFacts
<1>2. CASE PopCasOk(t)
  <2>1. Cls(t) \in Classes /\ cur[t] # Null /\ fullHead[Cls(t)] = cur[t]
    BY <1>2, <1>0, ClassFacts DEF PopCasOk, ControlInv
  <2>2. cur[t] \in Nodes /\ stage[cur[t]] = "full"
    BY <2>1, HeadFacts
  <2> QED
    BY <1>2, <2>2, <1>c, Zenon DEF PopCasOk
<1>3. CASE PushEmptyLink(t) \/ PushFullLink(t)
  BY <1>3, <1>e DEF PushEmptyLink, PushFullLink
<1>4. CASE PushEmptyCasOk(t)
  BY <1>4, <1>d DEF PushEmptyCasOk
<1>5. ASSUME NEW n \in Nodes, stage[n] = "fresh", NodeTake(t, n) PROVE NodesOwned'
  BY <1>5, <1>c, Zenon DEF NodeTake
<1>6. CASE PushFullCasOk(t)
  BY <1>6, <1>d DEF PushFullCasOk, Return
<1> QED
  BY <1>1, <1>2, <1>3, <1>4, <1>5, <1>6, StepCases

\* Pushing puts a new node in front, popping removes the first one: the nodes
\* of the full stacks stay distinct and in stage "full".
LEMMA DistinctStep ==
  ASSUME IInv, NEW t \in Threads, Step(t)
  PROVE  FullSeqDistinct'
<1>0. TypeOK /\ ControlInv /\ NodesOwned /\ FullSeqDistinct
  BY DEF IInv, StackInv
<1> USE <1>0, ConstantsAssumption DEF TypeOK, FullSeqDistinct, Pointers
<1>a. \A c \in Classes : /\ fullSeq[c] \in Seq(Nodes) /\ Len(fullSeq[c]) \in Nat
                         /\ DOMAIN fullSeq[c] = 1 .. Len(fullSeq[c])
                         /\ \A i \in 1 .. Len(fullSeq[c]) : fullSeq[c][i] \in Nodes
  BY ElementOfSeq
<1>1. CASE QuietStep(t)
  BY <1>1, QuietFacts DEF pool
<1>2. CASE PopCasOk(t)
  <2> DEFINE c == Cls(t)
             q == fullSeq[c]
  <2>1. /\ c \in Classes /\ fullHead[c] # Null /\ fullHead[c] = cur[t]
        /\ stage' = [stage EXCEPT ![cur[t]] = "taken"]
        /\ fullSeq' = [fullSeq EXCEPT ![c] = Tail(q)]
    BY <1>2, ClassFacts DEF PopCasOk, ControlInv
  <2>2. /\ q # << >> /\ q[1] = cur[t] /\ cur[t] \in Nodes
        /\ Len(q) \in Nat /\ Len(q) > 0 /\ DOMAIN q = 1 .. Len(q)
    BY <2>1, HeadFacts, Zenon
  <2>3. /\ DOMAIN Tail(q) = 1 .. Len(q) - 1
        /\ \A i \in 1 .. Len(q) - 1 : Tail(q)[i] = q[i + 1]
    BY <2>1, <2>2, <1>a, HeadTailProperties
  <2> HIDE DEF c, q
  <2> DEFINE old(d, i) == IF d = c THEN i + 1 ELSE i
  <2>4. \A d \in Classes : \A i \in DOMAIN fullSeq'[d] :
          /\ i \in Int /\ old(d, i) \in DOMAIN fullSeq[d]
          /\ fullSeq'[d][i] = fullSeq[d][old(d, i)]
    <3> SUFFICES ASSUME NEW d \in Classes, NEW i \in DOMAIN fullSeq'[d]
                 PROVE  /\ i \in Int /\ old(d, i) \in DOMAIN fullSeq[d]
                        /\ fullSeq'[d][i] = fullSeq[d][old(d, i)]
      OBVIOUS
    <3>1. CASE d = c
      <4>1. i \in 1 .. Len(q) - 1 /\ fullSeq'[d][i] = Tail(q)[i]
        BY <3>1, <2>1, <2>3
      <4> QED
        BY <3>1, <4>1, <2>2, <2>3 DEF q
    <3>2. CASE d # c
      BY <3>2, <2>1, <1>a
    <3> QED
      BY <3>1, <3>2
  <2>5. \A d \in Classes : \A i \in DOMAIN fullSeq'[d] : fullSeq'[d][i] # cur[t]
    <3> SUFFICES ASSUME NEW d \in Classes, NEW i \in DOMAIN fullSeq'[d],
                        fullSeq'[d][i] = fullSeq[c][1]
                 PROVE  FALSE
      BY <2>2 DEF q
    <3>1. 1 \in DOMAIN fullSeq[c]
      BY <2>2 DEF q
    <3>2. d = c /\ old(d, i) = 1
      BY <3>1, <2>1, <2>4
    <3>3. i \in 1 .. Len(q) - 1
      BY <3>2, <2>1, <2>3
    <3> QED
      BY <3>2, <3>3, <2>2
  <2>6. \A d \in Classes : \A i \in DOMAIN fullSeq'[d] : stage'[fullSeq'[d][i]] = "full"
    BY <2>1, <2>2, <2>4, <2>5, <1>a
  <2>7. \A d, e \in Classes : \A i \in DOMAIN fullSeq'[d], j \in DOMAIN fullSeq'[e] :
          fullSeq'[d][i] = fullSeq'[e][j] => d = e /\ i = j
    <3> SUFFICES ASSUME NEW d \in Classes, NEW e \in Classes,
                        NEW i \in DOMAIN fullSeq'[d], NEW j \in DOMAIN fullSeq'[e],
                        fullSeq'[d][i] = fullSeq'[e][j]
                 PROVE  d = e /\ i = j
      OBVIOUS
    <3>1. d = e /\ old(d, i) = old(e, j)
      BY <2>4
    <3> QED
      BY <3>1, <2>4
  <2> QED
    BY <2>6, <2>7, Zenon
<1>3. CASE PushEmptyLink(t) \/ PushFullLink(t)
  BY <1>3 DEF PushEmptyLink, PushFullLink
<1>4. CASE PushEmptyCasOk(t)
  BY <1>4, <1>a DEF PushEmptyCasOk, ControlInv, HoldsNode
<1>5. ASSUME NEW n \in Nodes, stage[n] = "fresh", NodeTake(t, n) PROVE FullSeqDistinct'
  BY <1>5, <1>a DEF NodeTake
<1>6. CASE PushFullCasOk(t)
  <2> DEFINE c == Cls(t)
             q == fullSeq[c]
             n == node[t]
             r == <<n>> \o q
  <2>1. /\ c \in Classes /\ n \in Nodes /\ stage[n] = "filled"
        /\ stage' = [stage EXCEPT ![n] = "full"]
        /\ fullSeq' = [fullSeq EXCEPT ![c] = r]
    BY <1>6, ClassFacts DEF PushFullCasOk, ControlInv, HoldsNode
  <2>2. /\ DOMAIN r = 1 .. Len(q) + 1 /\ r[1] = n
        /\ \A i \in 1 .. Len(q) : r[i + 1] = q[i]
    BY <2>1, <1>a, ConsFacts
  <2> HIDE DEF c, q, n, r
  <2> DEFINE old(d, i) == IF d = c THEN i - 1 ELSE i
  <2>3. \A d \in Classes : \A i \in DOMAIN fullSeq'[d] :
          \/ d = c /\ i = 1 /\ fullSeq'[d][i] = n
          \/ /\ i \in Int /\ old(d, i) \in DOMAIN fullSeq[d]
             /\ fullSeq'[d][i] = fullSeq[d][old(d, i)]
    <3> SUFFICES ASSUME NEW d \in Classes, NEW i \in DOMAIN fullSeq'[d], ~(d = c /\ i = 1)
                 PROVE  /\ i \in Int /\ old(d, i) \in DOMAIN fullSeq[d]
                        /\ fullSeq'[d][i] = fullSeq[d][old(d, i)]
      BY <2>1, <2>2
    <3>1. CASE d # c
      BY <3>1, <2>1, <1>a
    <3>2. CASE d = c
      <4>1. i \in 1 .. Len(q) + 1 /\ fullSeq'[d][i] = r[i]
        BY <3>2, <2>1, <2>2
      <4>2. i - 1 \in 1 .. Len(q) /\ (i - 1) + 1 = i
        BY <3>2, <4>1, <2>1, <1>a DEF q
      <4>3. r[i] = q[i - 1]
        BY <4>2, <2>2
      <4> QED
        BY <3>2, <4>1, <4>2, <4>3, <2>1, <1>a DEF q
    <3> QED
      BY <3>1, <3>2
  <2>4. \A d \in Classes : \A j \in DOMAIN fullSeq[d] : fullSeq[d][j] # n
    BY <2>1
  <2>5. \A d \in Classes : \A i \in DOMAIN fullSeq'[d] : stage'[fullSeq'[d][i]] = "full"
    <3> SUFFICES ASSUME NEW d \in Classes, NEW i \in DOMAIN fullSeq'[d]
                 PROVE  stage'[fullSeq'[d][i]] = "full"
      OBVIOUS
    <3>1. CASE fullSeq'[d][i] = n
      BY <3>1, <2>1
    <3>2. CASE old(d, i) \in DOMAIN fullSeq[d] /\ fullSeq'[d][i] = fullSeq[d][old(d, i)]
      <4>1. fullSeq[d][old(d, i)] \in Nodes /\ stage[fullSeq[d][old(d, i)]] = "full"
        BY <3>2, <1>a
      <4> QED
        BY <3>2, <4>1, <2>1
    <3> QED
      BY <3>1, <3>2, <2>3, Zenon
  <2>6. \A d, e \in Classes : \A i \in DOMAIN fullSeq'[d], j \in DOMAIN fullSeq'[e] :
          fullSeq'[d][i] = fullSeq'[e][j] => d = e /\ i = j
    <3> SUFFICES ASSUME NEW d \in Classes, NEW e \in Classes,
                        NEW i \in DOMAIN fullSeq'[d], NEW j \in DOMAIN fullSeq'[e],
                        fullSeq'[d][i] = fullSeq'[e][j]
                 PROVE  d = e /\ i = j
      OBVIOUS
    <3>1. CASE fullSeq'[d][i] = n
      <4>1. d = c /\ i = 1
        BY <3>1, <2>3, <2>4
      <4>a. fullSeq'[e][j] = n
        BY <3>1
      <4>2. e = c /\ j = 1
        BY <4>a, <2>3, <2>4
      <4> QED
        BY <4>1, <4>2
    <3>2. CASE fullSeq'[d][i] # n
      <4>1. /\ i \in Int /\ old(d, i) \in DOMAIN fullSeq[d]
            /\ j \in Int /\ old(e, j) \in DOMAIN fullSeq[e]
            /\ fullSeq[d][old(d, i)] = fullSeq[e][old(e, j)]
        BY <3>2, <2>3
      <4>2. d = e /\ old(d, i) = old(e, j)
        BY <4>1
      <4> QED
        BY <4>1, <4>2
    <3> QED
      BY <3>1, <3>2
  <2> QED
    BY <2>5, <2>6
<1> QED
  BY <1>1, <1>2, <1>3, <1>4, <1>5, <1>6, StepCases, Zenon

\* The links spell out the stack: a pop moves the head to the next it read,
\* which is current because the node never left the stack meanwhile; a push
\* links the new node to the head it replaces; every other link written
\* belongs to a node outside the full stacks.
LEMMA IntactStep ==
  ASSUME IInv, NEW t \in Threads, Step(t)
  PROVE  FullStackIntact'
<1>0. TypeOK /\ ControlInv /\ FullSeqDistinct /\ FullStackIntact
  BY DEF IInv, StackInv
<1>a. \A c \in Classes : /\ fullSeq[c] \in Seq(Nodes) /\ Len(fullSeq[c]) \in Nat
                         /\ DOMAIN fullSeq[c] = 1 .. Len(fullSeq[c])
                         /\ \A i \in 1 .. Len(fullSeq[c]) : fullSeq[c][i] \in Nodes
  BY <1>0, ElementOfSeq DEF TypeOK
<1>b. ASSUME NEW n \in Nodes, stage[n] # "full", NEW x,
             next' = [next EXCEPT ![n] = x], fullHead' = fullHead, fullSeq' = fullSeq
      PROVE  FullStackIntact'
  BY <1>b, <1>0, <1>a DEF TypeOK, FullSeqDistinct, FullStackIntact
<1>1. CASE QuietStep(t)
  BY <1>1, <1>0, QuietFacts DEF pool, FullStackIntact
<1>2. CASE PopCasOk(t)
  <2> DEFINE c == Cls(t)
             q == fullSeq[c]
             r == Tail(q)
  <2>1. /\ c \in Classes /\ fullHead[c] # Null /\ fullHead[c] = cur[t]
        /\ fullHead' = [fullHead EXCEPT ![c] = nxt[t]]
        /\ fullSeq' = [fullSeq EXCEPT ![c] = r]
        /\ next' = next /\ pc[t] = "pop_cas"
    BY <1>2, <1>0, ClassFacts DEF PopCasOk, ControlInv
  <2>2. /\ q # << >> /\ q[1] = cur[t] /\ cur[t] \in Nodes /\ stage[cur[t]] = "full"
        /\ Len(q) \in Nat /\ Len(q) > 0 /\ DOMAIN q = 1 .. Len(q) /\ q \in Seq(Nodes)
    BY <2>1, HeadFacts
  <2>3. nxt[t] = IF Len(q) = 1 THEN Null ELSE q[2]
    <3>1. nxt[t] = next[cur[t]]
      BY <2>1, <2>2, <1>0 DEF ControlInv
    <3>2. 1 \in DOMAIN q /\ 1 + 1 = 2
      BY <2>2
    <3>3. next[q[1]] = IF 1 = Len(q) THEN Null ELSE q[1 + 1]
      BY <3>2, <2>1, <1>0, Zenon DEF FullStackIntact
    <3> QED
      BY <3>1, <3>2, <3>3, <2>2
  <2>4. /\ r \in Seq(Nodes) /\ Len(r) = Len(q) - 1
        /\ DOMAIN r = 1 .. Len(q) - 1
        /\ \A i \in 1 .. Len(q) - 1 : r[i] = q[i + 1]
    BY <2>2, HeadTailProperties
  <2>5. r = << >> <=> Len(q) = 1
    <3>1. r # << >> => Len(r) \in Nat \ {0}
      BY <2>4, EmptySeq, Zenon
    <3> HIDE DEF r
    <3>2. r = << >> => Len(r) = 0
      BY EmptySeq
    <3> QED
      BY <3>1, <3>2, <2>2, <2>4
  <2> HIDE DEF c
  <2>6. ASSUME NEW d \in Classes, d # c
        PROVE  /\ fullHead'[d] = IF fullSeq'[d] = << >> THEN Null ELSE fullSeq'[d][1]
               /\ \A i \in DOMAIN fullSeq'[d] :
                    next'[fullSeq'[d][i]] =
                      IF i = Len(fullSeq'[d]) THEN Null ELSE fullSeq'[d][i + 1]
    <3>1. fullHead'[d] = fullHead[d] /\ fullSeq'[d] = fullSeq[d]
      BY <2>1, <2>6, <1>0 DEF TypeOK
    <3> QED
      BY <3>1, <2>1, <1>0 DEF FullStackIntact
  <2>7. /\ fullHead'[c] = IF r = << >> THEN Null ELSE r[1]
        /\ fullSeq'[c] = r
    <3>1. fullHead'[c] = nxt[t] /\ fullSeq'[c] = r
      BY <2>1, <1>0 DEF TypeOK
    <3>2. CASE Len(q) = 1
      BY <3>1, <3>2, <2>3, <2>5
    <3>3. CASE Len(q) # 1
      <4> HIDE DEF q, r
      <4>a. 1 \in 1 .. Len(q) - 1 /\ 1 + 1 = 2
        BY <3>3, <2>2
      <4>1. r[1] = q[2]
        BY <4>a, <2>4
      <4> QED
        BY <3>1, <3>3, <4>1, <2>3, <2>5
    <3> QED
      BY <3>2, <3>3
  <2>8. \A i \in DOMAIN r :
          next'[r[i]] = IF i = Len(r) THEN Null ELSE r[i + 1]
    <3> SUFFICES ASSUME NEW i \in 1 .. Len(q) - 1
                 PROVE  next[q[i + 1]] = IF i = Len(q) - 1 THEN Null ELSE r[i + 1]
      BY <2>1, <2>4, Zenon
    <3>1. i + 1 \in DOMAIN q /\ (i + 1 = Len(q) <=> i = Len(q) - 1)
      BY <2>2
    <3>2. next[q[i + 1]] = IF i + 1 = Len(q) THEN Null ELSE q[(i + 1) + 1]
      BY <3>1, <2>1, <1>0, SMTT(30) DEF FullStackIntact
    <3>3. i # Len(q) - 1 => r[i + 1] = q[(i + 1) + 1]
      BY <2>2, <2>4
    <3> QED
      BY <3>1, <3>2, <3>3
  <2> HIDE DEF q, r
  <2> QED
    BY <2>6, <2>7, <2>8 DEF FullStackIntact
<1>3. CASE PushEmptyLink(t) \/ PushFullLink(t)
  <2>1. node[t] \in Nodes /\ stage[node[t]] # "full"
    BY <1>3, <1>0 DEF PushEmptyLink, PushFullLink, ControlInv, HoldsNode, TypeOK, Pointers
  <2> QED
    BY <1>3, <1>b, <2>1 DEF PushEmptyLink, PushFullLink
<1>4. CASE PushEmptyCasOk(t)
  BY <1>4, <1>0 DEF PushEmptyCasOk, FullStackIntact
<1>5. ASSUME NEW n \in Nodes, stage[n] = "fresh", NodeTake(t, n) PROVE FullStackIntact'
  BY <1>5, <1>b, Zenon DEF NodeTake
<1>6. CASE PushFullCasOk(t)
  <2> DEFINE c == Cls(t)
             q == fullSeq[c]
             n == node[t]
             r == <<n>> \o q
  <2>1. /\ c \in Classes /\ n \in Nodes /\ next[n] = fullHead[c]
        /\ fullHead' = [fullHead EXCEPT ![c] = n]
        /\ fullSeq' = [fullSeq EXCEPT ![c] = r]
        /\ next' = next
    BY <1>6, <1>0, ClassFacts DEF PushFullCasOk, ControlInv, HoldsNode, TypeOK, Pointers
  <2>2. /\ r \in Seq(Nodes) /\ Len(r) = Len(q) + 1 /\ r # << >>
        /\ DOMAIN r = 1 .. Len(q) + 1 /\ r[1] = n
        /\ \A i \in 1 .. Len(q) : r[i + 1] = q[i]
    BY <2>1, <1>a, ConsFacts
  <2>3. /\ q \in Seq(Nodes) /\ Len(q) \in Nat /\ DOMAIN q = 1 .. Len(q)
        /\ q = << >> <=> Len(q) = 0
    BY <2>1, <1>a, EmptySeq
  <2> HIDE DEF c, n, r
  <2>4. ASSUME NEW d \in Classes, d # c
        PROVE  /\ fullHead'[d] = IF fullSeq'[d] = << >> THEN Null ELSE fullSeq'[d][1]
               /\ \A i \in DOMAIN fullSeq'[d] :
                    next'[fullSeq'[d][i]] =
                      IF i = Len(fullSeq'[d]) THEN Null ELSE fullSeq'[d][i + 1]
    <3>1. fullHead'[d] = fullHead[d] /\ fullSeq'[d] = fullSeq[d]
      BY <2>1, <2>4, <1>0 DEF TypeOK
    <3> QED
      BY <3>1, <2>1, <1>0 DEF FullStackIntact
  <2>5. /\ fullHead'[c] = IF r = << >> THEN Null ELSE r[1]
        /\ fullSeq'[c] = r
    BY <2>1, <2>2, <1>0 DEF TypeOK
  <2>6. \A i \in DOMAIN r : next'[r[i]] = IF i = Len(r) THEN Null ELSE r[i + 1]
    <3> SUFFICES ASSUME NEW i \in 1 .. Len(q) + 1
                 PROVE  next[r[i]] = IF i = Len(q) + 1 THEN Null ELSE r[i + 1]
      BY <2>1, <2>2
    <3>1. CASE i = 1
      <4>1. next[r[i]] = IF q = << >> THEN Null ELSE q[1]
        BY <3>1, <2>1, <2>2, <1>0 DEF FullStackIntact
      <4>2. q # << >> => r[i + 1] = q[1] /\ i # Len(q) + 1
        BY <3>1, <2>2, <2>3
      <4>3. q = << >> => i = Len(q) + 1
        BY <3>1, <2>3
      <4> QED
        BY <4>1, <4>2, <4>3
    <3>2. CASE i # 1
      <4>1. i - 1 \in DOMAIN q /\ (i - 1) + 1 = i
        BY <3>2, <2>3
      <4>2. r[i] = q[i - 1]
        BY <4>1, <2>2, <2>3
      <4>3. next[q[i - 1]] = IF i - 1 = Len(q) THEN Null ELSE q[i]
        BY <4>1, <2>1, <1>0 DEF FullStackIntact
      <4>a. i # Len(q) + 1 => i \in 1 .. Len(q)
        BY <2>3
      <4>4. i # Len(q) + 1 => r[i + 1] = q[i]
        BY <4>a, <2>2
      <4> QED
        BY <4>2, <4>3, <4>4, <2>3
    <3> QED
      BY <3>1, <3>2
  <2> HIDE DEF q
  <2> QED
    BY <2>4, <2>5, <2>6 DEF FullStackIntact
<1> QED
  BY <1>1, <1>2, <1>3, <1>4, <1>5, <1>6, StepCases
=============================================================================
