-------------------------- MODULE RingBufferProofs --------------------------
(* Proofs about RingBuffer, for every capacity and every set of entries. *)
EXTENDS RingBuffer, SequenceTheorems, TLAPS

-----------------------------------------------------------------------------
(* Index arithmetic modulo the capacity. *)

\* The number of entries between two indices.
LEMMA DistFacts ==
  ASSUME NEW t \in Index, NEW h \in Index
  PROVE  /\ Inc(h) \in Index
         /\ Dist(t, h) \in Index
         /\ Dist(t, h) = 0 <=> t = h
         /\ Dist(t, h) = Capacity - 1 <=> Inc(h) = t
BY CapacityAssumption DEF Index, Inc, Dist

\* Moving the head on adds one entry unless the ring is full, moving the tail
\* on takes one away unless it is empty.
LEMMA MoveFacts ==
  ASSUME NEW t \in Index, NEW h \in Index
  PROVE  /\ Inc(h) # t => Dist(t, Inc(h)) = Dist(t, h) + 1
         /\ t # h => Dist(Inc(t), h) = Dist(t, h) - 1
BY CapacityAssumption DEF Index, Inc, Dist

\* The invariant holds initially.
LEMMA InitIInv == Init => IInv
BY CapacityAssumption DEF Init, IInv, TypeOK, ControlInv, ShadowsSafe, LenBounds, Index, Dist, Unknown

\* The indices as the proofs below use them.
LEMMA IndexFacts ==
  ASSUME IInv
  PROVE  /\ head \in Index /\ tail \in Index /\ shadowTail \in Index /\ shadowHead \in Index
         /\ Index \subseteq Int /\ Unknown \notin Index
BY CapacityAssumption DEF IInv, TypeOK, Index, Unknown

\* Where the producer writes there is room, where the consumer reads there is
\* an entry: the shadows can only err on the safe side.
LEMMA RoomFacts ==
  ASSUME IInv
  PROVE  /\ ppc \in {"write", "publish"} => Inc(head) # tail
         /\ cpc \in {"read", "release"} => tail # head
<1>1. Dist(tail, head) \in Index /\ Dist(shadowTail, head) \in Index /\ Dist(tail, shadowHead) \in Index
  BY IndexFacts, DistFacts
<1>2. ASSUME ppc \in {"write", "publish"} PROVE Inc(head) # tail
  <2>1. Dist(shadowTail, head) # Capacity - 1
    BY <1>2, IndexFacts, DistFacts DEF IInv, ControlInv
  <2>2. Dist(tail, head) # Capacity - 1
    BY <2>1, <1>1, CapacityAssumption DEF IInv, ShadowsSafe, Index
  <2> QED
    BY <2>2, IndexFacts, DistFacts
<1>3. ASSUME cpc \in {"read", "release"} PROVE tail # head
  <2>1. Dist(tail, shadowHead) # 0
    BY <1>3, IndexFacts, DistFacts DEF IInv, ControlInv
  <2>2. Dist(tail, head) # 0
    BY <2>1, <1>1, CapacityAssumption DEF IInv, ShadowsSafe, Index
  <2> QED
    BY <2>2, IndexFacts, DistFacts
<1> QED
  BY <1>2, <1>3

-----------------------------------------------------------------------------
(* Invariance. *)

\* Every step of either side keeps the invariant.
LEMMA NextIInv ==
  ASSUME IInv, [Next]_vars
  PROVE  IInv'
<1>0. TypeOK /\ ControlInv /\ ShadowsSafe /\ LenBounds
  BY DEF IInv
<1> USE <1>0, IndexFacts, EntriesAssumption DEF producer, consumer
<1>a. ASSUME UNCHANGED <<head, tail, shadowTail, shadowHead, pLen, cLen>>
      PROVE  ShadowsSafe' /\ LenBounds'
  BY <1>a DEF ShadowsSafe, LenBounds
<1>1. ASSUME NEW e \in Entries, PushStart(e) PROVE IInv'
  BY <1>1, <1>a DEF PushStart, IInv, TypeOK, ControlInv
<1>2. CASE PushReload
  <2>1. ShadowsSafe'
    BY <1>2, DistFacts DEF PushReload, ShadowsSafe
  <2> QED
    BY <1>2, <2>1 DEF PushReload, IInv, TypeOK, ControlInv, LenBounds
<1>3. CASE PushRetry
  BY <1>3, <1>a DEF PushRetry, IInv, TypeOK, ControlInv
<1>4. CASE PushGiveUp
  BY <1>4, <1>a DEF PushGiveUp, IInv, TypeOK, ControlInv
<1>5. CASE PushWrite
  <2>1. head # tail \/ cpc # "release"
    BY RoomFacts
  <2> QED
    BY <1>5, <1>a, <2>1 DEF PushWrite, IInv, TypeOK, ControlInv
<1>6. CASE PushPublish
  <2>1. Inc(head) # tail /\ Inc(head) # shadowTail /\ Inc(head) \in Index
    BY <1>6, RoomFacts, DistFacts DEF PushPublish, ControlInv
  <2>2. /\ Dist(tail, Inc(head)) = Dist(tail, head) + 1
        /\ Dist(shadowTail, Inc(head)) = Dist(shadowTail, head) + 1
    BY <2>1, MoveFacts
  <2>3. /\ Dist(tail, head) \in Index /\ Dist(shadowTail, head) \in Index
        /\ Dist(tail, shadowHead) \in Index
    BY DistFacts
  <2>4. ShadowsSafe'
    BY <1>6, <2>2, <2>3 DEF PushPublish, ShadowsSafe
  <2>5. LenBounds'
    BY <1>6, <2>2, <2>3 DEF PushPublish, LenBounds, TypeOK
  <2> QED
    BY <1>6, <2>1, <2>4, <2>5 DEF PushPublish, IInv, TypeOK, ControlInv
<1>7. CASE ProducerLen
  <2>1. Dist(tail, head) \in Index
    BY DistFacts
  <2> QED
    BY <1>7, <2>1 DEF ProducerLen, IInv, TypeOK, ControlInv, ShadowsSafe, LenBounds
<1>8. CASE PopStart
  BY <1>8, <1>a DEF PopStart, IInv, TypeOK, ControlInv
<1>9. CASE PopReload
  <2>1. ShadowsSafe'
    BY <1>9, DistFacts DEF PopReload, ShadowsSafe
  <2> QED
    BY <1>9, <2>1 DEF PopReload, IInv, TypeOK, ControlInv, LenBounds
<1>10. CASE PopRead
  BY <1>10, <1>a DEF PopRead, IInv, TypeOK, ControlInv
<1>11. CASE PopRelease
  <2>1. tail # head /\ tail # shadowHead /\ Inc(tail) \in Index
    BY <1>11, RoomFacts, DistFacts DEF PopRelease, ControlInv
  <2>2. /\ Dist(Inc(tail), head) = Dist(tail, head) - 1
        /\ Dist(Inc(tail), shadowHead) = Dist(tail, shadowHead) - 1
    BY <2>1, MoveFacts
  <2>3. /\ Dist(tail, head) \in Index /\ Dist(shadowTail, head) \in Index
        /\ Dist(tail, shadowHead) \in Index
    BY DistFacts
  <2>4. ShadowsSafe'
    BY <1>11, <2>2, <2>3 DEF PopRelease, ShadowsSafe
  <2>5. LenBounds'
    BY <1>11, <2>2, <2>3 DEF PopRelease, LenBounds, TypeOK
  <2> QED
    BY <1>11, <2>1, <2>4, <2>5 DEF PopRelease, IInv, TypeOK, ControlInv
<1>12. CASE ConsumerLen
  <2>1. Dist(tail, head) \in Index
    BY DistFacts
  <2> QED
    BY <1>12, <2>1 DEF ConsumerLen, IInv, TypeOK, ControlInv, ShadowsSafe, LenBounds
<1>13. CASE UNCHANGED vars
  BY <1>13, <1>a DEF vars, IInv, TypeOK, ControlInv
<1> QED
  BY <1>1, <1>2, <1>3, <1>4, <1>5, <1>6, <1>7, <1>8, <1>9, <1>10, <1>11, <1>12, <1>13
     DEF Next, Produce, Consume

\* The inductive invariant of the ring.
THEOREM Invariance == Spec => []IInv
BY InitIInv, NextIInv, PTL DEF Spec

\* Indices stay in the buffer, whatever the capacity.
THEOREM TypeCorrect == Spec => []TypeOK
BY Invariance, PTL DEF IInv

\* The SAFETY comments of try_push and try_pop are true: no slot is written
\* and read at a time.
THEOREM SlotOwnership == Spec => []SlotsOwned
<1>1. IInv => SlotsOwned
  BY RoomFacts DEF SlotsOwned
<1> QED
  BY <1>1, Invariance, PTL

\* The shadow indices only err on the safe side.
THEOREM ShadowSafety == Spec => []ShadowsSafe
BY Invariance, PTL DEF IInv

\* A length read by either side is a safe basis for its next operation.
THEOREM LenSafety == Spec => []LenSafe
<1>1. IInv => LenSafe
  <2> SUFFICES ASSUME IInv PROVE LenSafe
    OBVIOUS
  <2>1. /\ Dist(tail, head) \in Index
        /\ Dist(tail, head) = 0 <=> tail = head
        /\ Dist(tail, head) = Capacity - 1 <=> Inc(head) = tail
    BY IndexFacts, DistFacts
  <2>2. pLen \in {Unknown} \cup Index /\ cLen \in {Unknown} \cup Index
    BY DEF IInv, TypeOK
  <2> QED
    BY <2>1, <2>2, CapacityAssumption DEF IInv, LenBounds, LenSafe, Index
<1> QED
  BY <1>1, Invariance, PTL

-----------------------------------------------------------------------------
(* The ring implements a bounded FIFO queue. *)

\* The entries in the ring, slot by slot; the slot at head is not among them.
LEMMA ContentsFacts ==
  ASSUME IInv
  PROVE  /\ Dist(tail, head) \in Nat
         /\ \A i \in 1 .. Dist(tail, head) : SlotAt(i) \in Index /\ SlotAt(i) # head
         /\ Contents \in Seq(Entries \cup {None})
         /\ Len(Contents) = Dist(tail, head)
         /\ DOMAIN Contents = 1 .. Dist(tail, head)
         /\ \A i \in 1 .. Dist(tail, head) : Contents[i] = buffer[SlotAt(i)]
<1>1. Dist(tail, head) \in Nat
  BY IndexFacts, DistFacts, CapacityAssumption DEF Index
<1>2. \A i \in 1 .. Dist(tail, head) : SlotAt(i) \in Index /\ SlotAt(i) # head
  BY IndexFacts, CapacityAssumption DEF SlotAt, Dist, Index
<1>3. buffer \in [Index -> Entries \cup {None}]
  BY DEF IInv, TypeOK
<1>4. Contents \in [1 .. Dist(tail, head) -> Entries \cup {None}]
  BY <1>2, <1>3 DEF Contents
<1>5. Contents \in Seq(Entries \cup {None}) /\ Len(Contents) = Dist(tail, head)
  BY <1>1, <1>4
<1> QED
  BY <1>1, <1>2, <1>4, <1>5 DEF Contents

\* Nothing moved and no slot between tail and head was written.
LEMMA ContentsKept ==
  ASSUME IInv, head' = head, tail' = tail,
         \A i \in Index : i # head => buffer'[i] = buffer[i]
  PROVE  Contents' = Contents
<1>1. \A i \in 1 .. Dist(tail, head) : buffer'[SlotAt(i)] = buffer[SlotAt(i)]
  BY ContentsFacts
<1>2. Dist(tail', head') = Dist(tail, head) /\ \A i \in 1 .. Dist(tail, head) : SlotAt(i)' = SlotAt(i)
  BY DEF SlotAt
<1> QED
  BY <1>1, <1>2 DEF Contents

\* head.store appends the entry just written.
LEMMA PublishAppends ==
  ASSUME IInv, PushPublish
  PROVE  Contents' = Append(Contents, entry) /\ Len(Contents) < Capacity - 1
<1> DEFINE d == Dist(tail, head)
<1>1. Inc(head) # tail /\ head \in Index /\ tail \in Index /\ Inc(head) \in Index
  BY RoomFacts, IndexFacts, DistFacts DEF PushPublish
<1>2. Dist(tail, Inc(head)) = d + 1 /\ d \in Nat /\ d < Capacity - 1
  BY <1>1, MoveFacts, DistFacts, CapacityAssumption DEF Index
<1>3. head' = Inc(head) /\ tail' = tail /\ buffer' = buffer /\ buffer[head] = entry
  BY DEF PushPublish, IInv, ControlInv
<1>4. SlotAt(d + 1) = head
  BY <1>1, CapacityAssumption DEF SlotAt, Dist, Index
<1>5. Contents' = [i \in 1 .. d + 1 |-> buffer[SlotAt(i)]]
  BY <1>2, <1>3 DEF Contents, SlotAt
<1>6. /\ Contents \in Seq(Entries \cup {None}) /\ Len(Contents) = d
      /\ \A i \in 1 .. d : Contents[i] = buffer[SlotAt(i)]
  BY ContentsFacts
<1>7. /\ Append(Contents, entry) \in Seq(Entries \cup {None})
      /\ Len(Append(Contents, entry)) = d + 1
      /\ \A i \in 1 .. d : Append(Contents, entry)[i] = buffer[SlotAt(i)]
      /\ Append(Contents, entry)[d + 1] = buffer[SlotAt(d + 1)]
  BY <1>2, <1>3, <1>4, <1>6, AppendProperties DEF IInv, TypeOK
<1> HIDE DEF d
<1>8. Append(Contents, entry) = [i \in 1 .. d + 1 |-> buffer[SlotAt(i)]]
  <2>1. \A i \in 1 .. d + 1 : Append(Contents, entry)[i] = buffer[SlotAt(i)]
    BY <1>2, <1>7
  <2>2. DOMAIN Append(Contents, entry) = 1 .. d + 1
    BY <1>7
  <2> DEFINE q == Append(Contents, entry)
  <2>3. q \in [1 .. Len(q) -> Entries \cup {None}]
    BY <1>7, LenProperties
  <2> QED
    BY <2>1, <2>2, <2>3
<1> QED
  BY <1>2, <1>5, <1>6, <1>8

\* tail.store removes the oldest entry, the one that was read.
LEMMA ReleaseRemoves ==
  ASSUME IInv, PopRelease
  PROVE  Contents # << >> /\ out' = Head(Contents) /\ Contents' = Tail(Contents)
<1> DEFINE d == Dist(tail, head)
<1>1. tail # head /\ head \in Index /\ tail \in Index /\ Inc(tail) \in Index
  BY RoomFacts, IndexFacts, DistFacts DEF PopRelease
<1>2. Dist(Inc(tail), head) = d - 1 /\ d \in Nat /\ d > 0 /\ d < Capacity
  <2>1. Dist(Inc(tail), head) = d - 1
    BY <1>1, MoveFacts
  <2>2. d \in Index /\ d # 0
    BY <1>1, DistFacts
  <2> QED
    BY <2>1, <2>2, CapacityAssumption DEF Index
<1>3. head' = head /\ tail' = Inc(tail) /\ buffer' = buffer /\ out' = buffer[tail]
  BY DEF PopRelease, IInv, ControlInv
<1>4. SlotAt(1) = tail /\ \A i \in 1 .. d - 1 : SlotAt(i)' = SlotAt(i + 1)
  <2>1. SlotAt(1) = tail
    BY <1>1, CapacityAssumption DEF SlotAt, Index
  <2>2. \A i \in 1 .. d - 1 : SlotAt(i)' = SlotAt(i + 1)
    <3> SUFFICES ASSUME NEW i \in 1 .. d - 1 PROVE SlotAt(i)' = SlotAt(i + 1)
      OBVIOUS
    <3>1. i \in Int /\ i < Capacity /\ i > 0
      BY <1>2, CapacityAssumption
    <3>2. tail \in Int /\ 0 <= tail /\ tail < Capacity /\ tail' = Inc(tail)
      BY <1>1, <1>3, CapacityAssumption DEF Index
    <3> HIDE DEF d
    <3> QED
      BY <3>1, <3>2, CapacityAssumption DEF SlotAt, Inc
  <2> QED
    BY <2>1, <2>2
<1>5. Contents' = [i \in 1 .. d - 1 |-> buffer[SlotAt(i + 1)]]
  BY <1>2, <1>3, <1>4 DEF Contents
<1>6. /\ Contents \in Seq(Entries \cup {None}) /\ Len(Contents) = d
      /\ \A i \in 1 .. d : Contents[i] = buffer[SlotAt(i)]
  BY ContentsFacts
<1> HIDE DEF d
<1>7. Contents # << >>
  BY <1>2, <1>6, EmptySeq
<1>8. /\ Head(Contents) = Contents[1]
      /\ Tail(Contents) \in Seq(Entries \cup {None})
      /\ Len(Tail(Contents)) = d - 1
      /\ \A i \in 1 .. d - 1 : Tail(Contents)[i] = Contents[i + 1]
  BY <1>6, <1>7, HeadTailProperties
<1>9. \A i \in 1 .. d - 1 : i + 1 \in 1 .. d /\ Tail(Contents)[i] = buffer[SlotAt(i + 1)]
  BY <1>2, <1>6, <1>8
<1>10. Tail(Contents) = [i \in 1 .. d - 1 |-> buffer[SlotAt(i + 1)]]
  <2> DEFINE q == Tail(Contents)
  <2>1. DOMAIN q = 1 .. d - 1
    BY <1>8
  <2>2. q \in [1 .. Len(q) -> Entries \cup {None}]
    BY <1>8, LenProperties
  <2> QED
    BY <1>9, <2>1, <2>2
<1>11. Head(Contents) = buffer[tail]
  BY <1>2, <1>4, <1>6, <1>8
<1> QED
  BY <1>3, <1>5, <1>7, <1>10, <1>11

\* Whatever the two sides interleave, the ring is the queue of BoundedFifo:
\* entries come out once each, unchanged, in the order they went in.
THEOREM Refinement == Spec => IsBoundedFifo
<1>1. Init => Fifo!Init
  <2> SUFFICES ASSUME Init PROVE Fifo!Init
    OBVIOUS
  <2>1. IInv /\ out = None /\ Dist(tail, head) = 0
    BY InitIInv DEF Init, Dist
  <2>2. Contents = << >>
    BY <2>1, ContentsFacts, EmptySeq
  <2> QED
    BY <2>1, <2>2 DEF Fifo!Init
<1>2. ASSUME IInv, [Next]_vars PROVE [Fifo!Next]_<<Contents, out>>
  <2>0. head \in Index /\ buffer \in [Index -> Entries \cup {None}]
    BY <1>2 DEF IInv, TypeOK
  <2>1. CASE PushPublish
    <3>1. entry \in Entries /\ out' = out
      BY <1>2, <2>1 DEF PushPublish, IInv, ControlInv, consumer
    <3>2. Fifo!Put(entry)
      BY <1>2, <2>1, <3>1, PublishAppends DEF Fifo!Put
    <3> QED
      BY <3>1, <3>2 DEF Fifo!Next
  <2>2. CASE PopRelease
    <3>1. Fifo!Get
      BY <1>2, <2>2, ReleaseRemoves DEF Fifo!Get
    <3> QED
      BY <3>1 DEF Fifo!Next
  <2>3. CASE PushWrite
    <3>1. head' = head /\ tail' = tail /\ out' = out
          /\ \A i \in Index : i # head => buffer'[i] = buffer[i]
      BY <2>0, <2>3 DEF PushWrite, consumer
    <3> QED
      BY <1>2, <3>1, ContentsKept
  <2>4. CASE \/ \E e \in Entries : PushStart(e)
             \/ PushReload \/ PushRetry \/ PushGiveUp \/ ProducerLen
             \/ PopStart \/ PopReload \/ PopRead \/ ConsumerLen \/ UNCHANGED vars
    <3>1. head' = head /\ tail' = tail /\ out' = out /\ buffer' = buffer
      BY <2>4 DEF PushStart, PushReload, PushRetry, PushGiveUp, ProducerLen, PopStart, PopReload,
                  PopRead, ConsumerLen, vars, consumer
    <3> QED
      BY <1>2, <3>1, ContentsKept
  <2> QED
    BY <1>2, <2>1, <2>2, <2>3, <2>4 DEF Next, Produce, Consume
<1> QED
  BY <1>1, <1>2, Invariance, PTL DEF Spec, IsBoundedFifo, Fifo!Spec
=============================================================================
