------------------------- MODULE MagazineCacheProofs ------------------------
(* Proofs about MagazineCache: the blocks, and the theorems, for every value of its constants. *)
EXTENDS MagazineStackProofs

-----------------------------------------------------------------------------
(* The blocks. *)

\* Magazines and their positions.
LEMMA MagFacts ==
  ASSUME IInv
  PROVE  /\ mag \in [Slots -> Magazines]
         /\ \A l \in Slots : /\ Len(mag[l]) \in Nat /\ DOMAIN mag[l] = 1 .. Len(mag[l])
                             /\ \A i \in DOMAIN mag[l] : mag[l][i] \in Blocks
<1>1. mag \in [Slots -> Magazines]
  BY DEF IInv, StackInv, TypeOK
<1>2. \A m \in Magazines : Len(m) \in Nat /\ DOMAIN m = 1 .. Len(m) /\ \A i \in DOMAIN m : m[i] \in Blocks
  BY ElementOfSeq DEF Magazines
<1> QED
  BY <1>1, <1>2

\* Moving blocks between magazines: if slot l now holds, at each position, what
\* slot src[l] held there, and no slot was copied to two, then every block is
\* still stored once, and nothing else is stored.
LEMMA Shuffle ==
  ASSUME IInv, NEW src \in [Slots -> Slots],
         \A l \in Slots : \A i \in DOMAIN mag'[l] :
            i \in DOMAIN mag[src[l]] /\ mag'[l][i] = mag[src[l]][i],
         \A l1, l2 \in Slots : \A i \in DOMAIN mag'[l1] :
            i \in DOMAIN mag'[l2] /\ src[l1] = src[l2] => l1 = l2
  PROVE  StoredOnce' /\ Stored' \subseteq Stored
<1>0. StoredOnce
  BY DEF IInv, ExclusiveBlocks
<1>1. StoredOnce'
  <2> SUFFICES ASSUME NEW l1 \in Slots, NEW l2 \in Slots,
                      NEW i \in DOMAIN mag'[l1], NEW j \in DOMAIN mag'[l2],
                      mag'[l1][i] = mag'[l2][j]
               PROVE  l1 = l2 /\ i = j
    BY DEF StoredOnce
  <2>1. src[l1] \in Slots /\ src[l2] \in Slots
    OBVIOUS
  <2>2. i \in DOMAIN mag[src[l1]] /\ j \in DOMAIN mag[src[l2]]
        /\ mag[src[l1]][i] = mag[src[l2]][j]
    OBVIOUS
  <2>3. src[l1] = src[l2] /\ i = j
    BY <1>0, <2>1, <2>2 DEF StoredOnce
  <2> QED
    BY <2>3
<1>2. Stored' \subseteq Stored
  BY DEF Stored
<1> QED
  BY <1>1, <1>2

\* Storing one more block, that was stored nowhere, on top of a magazine.
LEMMA Store ==
  ASSUME IInv, NEW L \in Slots, ~IsFull(mag[L]), NEW b \in Blocks, b \notin Stored,
         mag' = [mag EXCEPT ![L] = Append(mag[L], b)]
  PROVE  StoredOnce' /\ Stored' \subseteq Stored \cup {b}
<1>0. StoredOnce
  BY DEF IInv, ExclusiveBlocks
<1>1. /\ Len(mag[L]) \in Nat
      /\ DOMAIN mag[L] = 1 .. Len(mag[L])
      /\ DOMAIN Append(mag[L], b) = 1 .. Len(mag[L]) + 1
      /\ \A i \in 1 .. Len(mag[L]) : Append(mag[L], b)[i] = mag[L][i]
      /\ Append(mag[L], b)[Len(mag[L]) + 1] = b
  BY MagFacts, PushFacts
<1>2. \A l \in Slots : \A i \in DOMAIN mag'[l] :
        \/ l = L /\ i = Len(mag[L]) + 1 /\ mag'[l][i] = b
        \/ i \in DOMAIN mag[l] /\ mag'[l][i] = mag[l][i]
  <2> SUFFICES ASSUME NEW l \in Slots, NEW i \in DOMAIN mag'[l],
                      ~(l = L /\ i = Len(mag[L]) + 1)
               PROVE  i \in DOMAIN mag[l] /\ mag'[l][i] = mag[l][i]
    BY <1>1, MagFacts
  <2>1. CASE l = L
    <3>1. mag'[l] = Append(mag[L], b)
      BY <2>1, MagFacts
    <3>2. i \in 1 .. Len(mag[L])
      BY <2>1, <3>1, <1>1
    <3> QED
      BY <2>1, <3>1, <3>2, <1>1
  <2>2. CASE l # L
    BY <2>2, MagFacts
  <2> QED
    BY <2>1, <2>2
<1>3. \A l \in Slots : \A i \in DOMAIN mag[l] : mag[l][i] # b
  BY DEF Stored
<1>4. StoredOnce'
  <2> SUFFICES ASSUME NEW l1 \in Slots, NEW l2 \in Slots,
                      NEW i \in DOMAIN mag'[l1], NEW j \in DOMAIN mag'[l2],
                      mag'[l1][i] = mag'[l2][j]
               PROVE  l1 = l2 /\ i = j
    BY DEF StoredOnce
  <2>1. CASE mag'[l1][i] = b
    <3>1. l1 = L /\ i = Len(mag[L]) + 1
      BY <2>1, <1>2, <1>3
    <3>2. mag'[l2][j] = b
      BY <2>1
    <3>3. l2 = L /\ j = Len(mag[L]) + 1
      BY <3>2, <1>2, <1>3
    <3> QED
      BY <3>1, <3>3
  <2>2. CASE mag'[l1][i] # b
    <3>1. i \in DOMAIN mag[l1] /\ mag'[l1][i] = mag[l1][i]
      BY <2>2, <1>2
    <3>2. j \in DOMAIN mag[l2] /\ mag'[l2][j] = mag[l2][j]
      BY <2>2, <1>2
    <3> QED
      BY <3>1, <3>2, <1>0 DEF StoredOnce
  <2> QED
    BY <2>1, <2>2
<1>5. Stored' \subseteq Stored \cup {b}
  BY <1>2 DEF Stored
<1> QED
  BY <1>4, <1>5

\* A block whose position was not copied is no longer stored.
LEMMA TakeOut ==
  ASSUME IInv, NEW src \in [Slots -> Slots],
         \A l \in Slots : \A i \in DOMAIN mag'[l] :
            i \in DOMAIN mag[src[l]] /\ mag'[l][i] = mag[src[l]][i],
         NEW L \in Slots, NEW k \in DOMAIN mag[L],
         \A l \in Slots : src[l] = L => k \notin DOMAIN mag'[l]
  PROVE  mag[L][k] \in Stored /\ mag[L][k] \notin Stored'
<1>1. mag[L][k] \in Stored
  BY DEF Stored
<1>2. ASSUME NEW l \in Slots, NEW i \in DOMAIN mag'[l], mag'[l][i] = mag[L][k] PROVE FALSE
  <2>1. src[l] \in Slots /\ i \in DOMAIN mag[src[l]] /\ mag[src[l]][i] = mag[L][k]
    BY <1>2
  <2>2. src[l] = L /\ i = k
    BY <2>1 DEF IInv, ExclusiveBlocks, StoredOnce
  <2> QED
    BY <2>2
<1>3. mag[L][k] \notin Stored'
  BY <1>2 DEF Stored
<1> QED
  BY <1>1, <1>3

\* Carving a fresh region: bulk_init stores its blocks 1, 2, ...
LEMMA StoreBulk ==
  ASSUME IInv, NEW L \in Slots, NEW p \in FreshPages, NEW k \in Nat,
         mag' = [mag EXCEPT ![L] = BulkInit(mag[L], p, k)]
  PROVE  /\ StoredOnce'
         /\ Stored' \subseteq Stored \cup {<<p, i>> : i \in 1 .. BulkCount(mag[L], k)}
<1> DEFINE n == BulkCount(mag[L], k)
           m == BulkInit(mag[L], p, k)
<1>0. StoredOnce /\ Stored \subseteq InCirculation
  BY DEF IInv, ExclusiveBlocks, BlocksCarved
<1>1. /\ Len(mag[L]) \in Nat /\ n \in 0 .. Capacity /\ Capacity \in Nat
      /\ DOMAIN mag[L] = 1 .. Len(mag[L])
      /\ DOMAIN m = 1 .. Len(mag[L]) + n
      /\ \A i \in 1 .. Len(mag[L]) : m[i] = mag[L][i]
      /\ \A i \in 1 .. n : m[Len(mag[L]) + i] = <<p, i>>
  <2>1. mag[L] \in Magazines /\ p \in Pages
    BY MagFacts DEF FreshPages
  <2>2. Capacity \in Nat
    BY ConstantsAssumption
  <2>3. /\ BulkCount(mag[L], k) \in 0 .. Capacity
        /\ Len(mag[L]) \in Nat
        /\ DOMAIN mag[L] = 1 .. Len(mag[L])
        /\ DOMAIN BulkInit(mag[L], p, k) = 1 .. Len(mag[L]) + BulkCount(mag[L], k)
        /\ \A i \in 1 .. Len(mag[L]) : BulkInit(mag[L], p, k)[i] = mag[L][i]
        /\ \A i \in 1 .. BulkCount(mag[L], k) : BulkInit(mag[L], p, k)[Len(mag[L]) + i] = <<p, i>>
    BY <2>1, BulkFacts, Zenon
  <2> QED
    BY <2>2, <2>3
<1>2. mag'[L] = m /\ \A l \in Slots : l # L => mag'[l] = mag[l]
  BY MagFacts
<1> HIDE DEF n, m
<1>3. \A l \in Slots : \A i \in DOMAIN mag'[l] :
        \/ i \in DOMAIN mag[l] /\ mag'[l][i] = mag[l][i]
        \/ l = L /\ i - Len(mag[L]) \in 1 .. n /\ mag'[l][i] = <<p, i - Len(mag[L])>>
                 /\ i \in Nat
  <2> SUFFICES ASSUME NEW i \in DOMAIN m, i \notin DOMAIN mag[L]
               PROVE  /\ i - Len(mag[L]) \in 1 .. n /\ i \in Nat
                      /\ m[i] = <<p, i - Len(mag[L])>>
    BY <1>1, <1>2, ZenonT(40)
  <2> DEFINE a == Len(mag[L])
  <2>0. a \in Nat /\ n \in Nat /\ i \in 1 .. a + n /\ i \notin 1 .. a
    BY <1>1
  <2> HIDE DEF a
  <2>1. i \in Nat /\ i - a \in 1 .. n /\ a + (i - a) = i
    BY <2>0
  <2>2. m[a + (i - a)] = <<p, i - a>>
    BY <1>1, <2>1 DEF a
  <2> QED
    BY <2>1, <2>2, Zenon DEF a
<1>4. \A j : <<p, j>> \notin Stored
  BY <1>0, MagFacts DEF InCirculation, FreshPages, Blocks, IInv, StackInv, TypeOK
<1>5. \A l \in Slots : \A i \in DOMAIN mag[l] : mag[l][i] \in Stored
  BY DEF Stored
<1>6. StoredOnce'
  <2> SUFFICES ASSUME NEW l1 \in Slots, NEW l2 \in Slots,
                      NEW i \in DOMAIN mag'[l1], NEW j \in DOMAIN mag'[l2],
                      mag'[l1][i] = mag'[l2][j]
               PROVE  l1 = l2 /\ i = j
    BY DEF StoredOnce
  <2>1. CASE mag'[l1][i] \in Stored
    <3>1. i \in DOMAIN mag[l1] /\ mag'[l1][i] = mag[l1][i]
      BY <2>1, <1>3, <1>4, Zenon
    <3>a. mag'[l2][j] \in Stored
      BY <2>1
    <3>2. j \in DOMAIN mag[l2] /\ mag'[l2][j] = mag[l2][j]
      BY <3>a, <1>3, <1>4, Zenon
    <3> QED
      BY <3>1, <3>2, <1>0 DEF StoredOnce
  <2>2. CASE mag'[l1][i] \notin Stored
    <3>1. l1 = L /\ i \in Nat /\ mag'[l1][i] = <<p, i - Len(mag[L])>>
      BY <2>2, <1>3, <1>5
    <3>2. l2 = L /\ j \in Nat /\ mag'[l2][j] = <<p, j - Len(mag[L])>>
      BY <2>2, <1>3, <1>5
    <3>3. i - Len(mag[L]) = j - Len(mag[L])
      BY <3>1, <3>2
    <3> QED
      BY <3>1, <3>2, <3>3, <1>1
  <2> QED
    BY <2>1, <2>2
<1>7. Stored' \subseteq Stored \cup {<<p, i>> : i \in 1 .. n}
  <2> SUFFICES ASSUME NEW l \in Slots, NEW i \in DOMAIN mag'[l], mag'[l][i] \notin Stored
               PROVE  mag'[l][i] \in {<<p, j>> : j \in 1 .. n}
    BY DEF Stored
  <2> QED
    BY <1>3, <1>5, Zenon
<1> QED
  BY <1>6, <1>7 DEF n

\* The blocks in a dealloc, when blk does not change, is reset or is set.
LEMMA FreeingFacts ==
  ASSUME IInv, NEW t \in Threads
  PROVE  /\ blk' = blk => Freeing' = Freeing /\ FreedOnce'
         /\ blk' = [blk EXCEPT ![t] = Null] =>
              /\ Freeing' \subseteq Freeing /\ FreedOnce'
              /\ blk[t] # Null => blk[t] \in Freeing /\ blk[t] \notin Freeing'
         /\ \A b \in Blocks : b \notin Freeing /\ blk' = [blk EXCEPT ![t] = b] =>
              Freeing' \subseteq Freeing \cup {b} /\ FreedOnce'
<1>1. FreedOnce /\ blk \in [Threads -> Blocks \cup {Null}]
  BY DEF IInv, ExclusiveBlocks, StackInv, TypeOK
<1>2. blk' = blk => Freeing' = Freeing /\ FreedOnce'
  BY <1>1 DEF Freeing, FreedOnce
<1>3. ASSUME blk' = [blk EXCEPT ![t] = Null]
      PROVE  /\ Freeing' \subseteq Freeing /\ FreedOnce'
             /\ blk[t] # Null => blk[t] \in Freeing /\ blk[t] \notin Freeing'
  BY <1>1, <1>3 DEF Freeing, FreedOnce
<1>4. ASSUME NEW b \in Blocks, b \notin Freeing, blk' = [blk EXCEPT ![t] = b]
      PROVE  Freeing' \subseteq Freeing \cup {b} /\ FreedOnce'
  BY <1>1, <1>4 DEF Freeing, FreedOnce
<1> QED
  BY <1>2, <1>3, <1>4

\* A stored block goes to the program, and from every magazine.
LEMMA HandOutStep ==
  ASSUME IInv, NEW t \in Threads, NEW s \in Sizes, NEW b \in Stored,
         b \notin Stored', Stored' \subseteq Stored, StoredOnce',
         HandOut(b, s), pages' = pages,
         blk' = blk \/ blk' = [blk EXCEPT ![t] = Null]
  PROVE  BlocksCarved' /\ ExclusiveBlocks'
<1>1. BlocksCarved /\ ExclusiveBlocks /\ header \in [Blocks -> Sizes \cup {Null}]
  BY DEF IInv, StackInv, TypeOK
<1>2. InCirculation' = InCirculation /\ InCirculation \subseteq Blocks
  BY DEF InCirculation
<1>3. Freeing' \subseteq Freeing /\ FreedOnce'
  BY FreeingFacts
<1>4. live' = live \cup {b} /\ header' = [header EXCEPT ![b] = s]
  BY DEF HandOut
<1>5. \A c \in live' : header'[c] \in Sizes
  BY <1>1, <1>2, <1>4 DEF BlocksCarved
<1> QED
  BY <1>1, <1>2, <1>3, <1>4, <1>5 DEF BlocksCarved, ExclusiveBlocks

\* Blocks only move between magazines, or stay where they are.
LEMMA MoveStep ==
  ASSUME IInv, NEW t \in Threads, Stored' \subseteq Stored, StoredOnce',
         UNCHANGED <<live, header, pages>>,
         blk' = blk \/ blk' = [blk EXCEPT ![t] = Null]
  PROVE  BlocksCarved' /\ ExclusiveBlocks'
<1>1. BlocksCarved /\ ExclusiveBlocks
  BY DEF IInv
<1>2. InCirculation' = InCirculation
  BY DEF InCirculation
<1>3. Freeing' \subseteq Freeing /\ FreedOnce'
  BY FreeingFacts
<1> QED
  BY <1>1, <1>2, <1>3 DEF BlocksCarved, ExclusiveBlocks

\* Popping magazine L, whatever its role, takes exactly its top block out.
LEMMA PopStep ==
  ASSUME IInv, NEW L \in Slots, mag[L] # << >>, mag' = [mag EXCEPT ![L] = Pop(mag[L])]
  PROVE  /\ StoredOnce' /\ Stored' \subseteq Stored
         /\ Top(mag[L]) \in Stored /\ Top(mag[L]) \notin Stored'
<1> DEFINE src == [l \in Slots |-> l]
<1>1. /\ Len(mag[L]) \in Nat /\ Len(mag[L]) > 0
      /\ DOMAIN mag[L] = 1 .. Len(mag[L])
      /\ DOMAIN Pop(mag[L]) = 1 .. Len(mag[L]) - 1
      /\ \A i \in 1 .. Len(mag[L]) - 1 : Pop(mag[L])[i] = mag[L][i]
      /\ Top(mag[L]) = mag[L][Len(mag[L])]
  BY MagFacts, PopFacts, SMTT(30)
<1>2. mag'[L] = Pop(mag[L]) /\ \A l \in Slots : l # L => mag'[l] = mag[l]
  BY MagFacts
<1>3. src \in [Slots -> Slots] /\ \A l \in Slots : src[l] = l
  OBVIOUS
<1> HIDE DEF src
<1>4. \A l \in Slots : \A i \in DOMAIN mag'[l] :
        i \in DOMAIN mag[src[l]] /\ mag'[l][i] = mag[src[l]][i]
  BY <1>1, <1>2, <1>3
<1>5. \A l1, l2 \in Slots : \A i \in DOMAIN mag'[l1] :
        i \in DOMAIN mag'[l2] /\ src[l1] = src[l2] => l1 = l2
  BY <1>3
<1>6. StoredOnce' /\ Stored' \subseteq Stored
  BY <1>3, <1>4, <1>5, Shuffle
<1>7. Len(mag[L]) \in DOMAIN mag[L]
  BY <1>1
<1>8. \A l \in Slots : src[l] = L => Len(mag[L]) \notin DOMAIN mag'[l]
  BY <1>1, <1>2, <1>3
<1>9. mag[L][Len(mag[L])] \in Stored /\ mag[L][Len(mag[L])] \notin Stored'
  BY <1>3, <1>4, <1>7, <1>8, TakeOut
<1> QED
  BY <1>1, <1>6, <1>9

\* Swapping an empty magazine with F and popping takes F's top block out.
LEMMA SwapStep ==
  ASSUME IInv, NEW A \in Slots, NEW F \in Slots, A # F, mag[A] = << >>, mag[F] # << >>,
         mag' = [mag EXCEPT ![A] = Pop(mag[F]), ![F] = mag[A]]
  PROVE  /\ StoredOnce' /\ Stored' \subseteq Stored
         /\ Top(mag[F]) \in Stored /\ Top(mag[F]) \notin Stored'
<1> DEFINE src == [l \in Slots |-> IF l = A THEN F ELSE IF l = F THEN A ELSE l]
<1>1. /\ Len(mag[F]) \in Nat /\ Len(mag[F]) > 0
      /\ DOMAIN mag[F] = 1 .. Len(mag[F])
      /\ DOMAIN Pop(mag[F]) = 1 .. Len(mag[F]) - 1
      /\ \A i \in 1 .. Len(mag[F]) - 1 : Pop(mag[F])[i] = mag[F][i]
      /\ Top(mag[F]) = mag[F][Len(mag[F])]
  BY MagFacts, PopFacts
<1>2. /\ mag'[A] = Pop(mag[F]) /\ mag'[F] = mag[A]
      /\ \A l \in Slots : l # A /\ l # F => mag'[l] = mag[l]
  BY MagFacts
<1>3. /\ src \in [Slots -> Slots] /\ src[A] = F /\ src[F] = A
      /\ \A l \in Slots : l # A /\ l # F => src[l] = l
  OBVIOUS
<1> HIDE DEF src
<1>4. \A l \in Slots : \A i \in DOMAIN mag'[l] :
        i \in DOMAIN mag[src[l]] /\ mag'[l][i] = mag[src[l]][i]
  <2>1. \A i \in DOMAIN mag'[A] : i \in DOMAIN mag[F] /\ mag'[A][i] = mag[F][i]
    BY <1>1, <1>2
  <2> SUFFICES ASSUME NEW l \in Slots
               PROVE  \A i \in DOMAIN mag'[l] :
                        i \in DOMAIN mag[src[l]] /\ mag'[l][i] = mag[src[l]][i]
    BY Zenon
  <2>2. CASE l = A
    BY <2>1, <2>2, <1>3, Zenon
  <2>3. CASE l = F
    BY <2>3, <1>2, <1>3
  <2>4. CASE l # A /\ l # F
    BY <2>4, <1>2, <1>3, Zenon
  <2> QED
    BY <2>2, <2>3, <2>4, Zenon
<1>5. \A l1, l2 \in Slots : \A i \in DOMAIN mag'[l1] :
        i \in DOMAIN mag'[l2] /\ src[l1] = src[l2] => l1 = l2
  BY <1>3
<1>6. StoredOnce' /\ Stored' \subseteq Stored
  BY <1>3, <1>4, <1>5, Shuffle, Zenon
<1>7. Len(mag[F]) \in DOMAIN mag[F]
  BY <1>1
<1>8. \A l \in Slots : src[l] = F => Len(mag[F]) \notin DOMAIN mag'[l]
  BY <1>1, <1>2, <1>3
<1>9. mag[F][Len(mag[F])] \in Stored /\ mag[F][Len(mag[F])] \notin Stored'
  BY <1>3, <1>4, <1>7, <1>8, TakeOut, Zenon
<1> QED
  BY <1>1, <1>6, <1>9

\* A magazine moved to another slot, leaving an empty one behind.
LEMMA TransferStep ==
  ASSUME IInv, NEW A \in Slots, NEW F \in Slots, A # F,
         mag' = [mag EXCEPT ![A] = mag[F], ![F] = << >>]
  PROVE  StoredOnce' /\ Stored' \subseteq Stored
<1> DEFINE src == [l \in Slots |-> IF l = A THEN F ELSE l]
<1>2. /\ mag'[A] = mag[F] /\ DOMAIN mag'[F] = {}
      /\ \A l \in Slots : l # A /\ l # F => mag'[l] = mag[l]
  BY MagFacts
<1>3. /\ src \in [Slots -> Slots] /\ src[A] = F
      /\ \A l \in Slots : l # A => src[l] = l
  OBVIOUS
<1> HIDE DEF src
<1>4. \A l \in Slots : \A i \in DOMAIN mag'[l] :
        i \in DOMAIN mag[src[l]] /\ mag'[l][i] = mag[src[l]][i]
  BY <1>2, <1>3, Zenon
<1>5. \A l1, l2 \in Slots : \A i \in DOMAIN mag'[l1] :
        i \in DOMAIN mag'[l2] /\ src[l1] = src[l2] => l1 = l2
  BY <1>2, <1>3, ZenonT(40)
<1> QED
  BY <1>3, <1>4, <1>5, Shuffle, Zenon

\* A region that is carved for the first time adds its blocks to those in
\* circulation; none of them was anywhere before.
LEMMA CarveStep ==
  ASSUME IInv, NEW t \in Threads, NEW p \in FreshPages, NEW k \in 0 .. Capacity,
         NEW s \in Sizes, NEW c \in Classes,
         StoredOnce', Stored' \subseteq Stored \cup {<<p, i>> : i \in 1 .. k},
         pages' = [pages EXCEPT ![p] = [class |-> c, n |-> 1 + k]],
         HandOut(<<p, 0>>, s), blk' = [blk EXCEPT ![t] = Null]
  PROVE  BlocksCarved' /\ ExclusiveBlocks'
<1>1. BlocksCarved /\ ExclusiveBlocks /\ TypeOK /\ p \in Pages /\ Capacity \in Nat
  BY ConstantsAssumption DEF IInv, StackInv, FreshPages
<1>2. /\ \A j : <<p, j>> \notin InCirculation
      /\ InCirculation \subseteq Blocks
  BY <1>1 DEF InCirculation, FreshPages, Blocks, TypeOK
<1>3. InCirculation \subseteq InCirculation'
  <2> SUFFICES ASSUME NEW b \in InCirculation PROVE b \in InCirculation'
    OBVIOUS
  <2>1. b \in Blocks /\ b[2] < pages[b[1]].n /\ b[1] \in Pages
    BY DEF InCirculation, Blocks
  <2>2. b[1] # p
    BY <2>1 DEF FreshPages, Blocks
  <2>3. pages'[b[1]] = pages[b[1]]
    BY <1>1, <2>1, <2>2, Zenon DEF TypeOK
  <2> QED
    BY <2>1, <2>3, Zenon DEF InCirculation
<1>4. \A i \in 0 .. k : <<p, i>> \in InCirculation'
  <2> SUFFICES ASSUME NEW i \in 0 .. k PROVE <<p, i>> \in InCirculation'
    OBVIOUS
  <2>1. <<p, i>> \in Blocks
    BY <1>1 DEF Blocks
  <2>2. pages'[p].n = 1 + k
    BY <1>1, Zenon DEF TypeOK
  <2>3. i < pages'[p].n
    BY <2>2, <1>1
  <2> QED
    BY <2>1, <2>3 DEF InCirculation
<1>5. Freeing' \subseteq Freeing /\ FreedOnce'
  BY FreeingFacts, Zenon
<1>6. live' = live \cup {<<p, 0>>} /\ header' = [header EXCEPT ![<<p, 0>>] = s]
  BY DEF HandOut
<1>7. <<p, 0>> \in Blocks /\ \A b \in live' : header'[b] \in Sizes
  BY <1>1, <1>2, <1>6, FirstBlock, Zenon DEF BlocksCarved, TypeOK
<1>8. <<p, 0>> \notin {<<p, i>> : i \in 1 .. k} /\ 0 \in 0 .. k
  BY <1>1
<1>9. {<<p, i>> : i \in 1 .. k} \subseteq InCirculation'
  BY <1>4, <1>1
<1>10. {<<p, i>> : i \in 1 .. k} \cap InCirculation = {} /\ <<p, 0>> \notin InCirculation
  BY <1>2
<1> HIDE DEF InCirculation
<1>11. BlocksCarved'
  BY <1>1, <1>3, <1>4, <1>5, <1>6, <1>7, <1>8, <1>9 DEF BlocksCarved
<1>12. ExclusiveBlocks'
  <2> DEFINE R == {<<p, i>> : i \in 1 .. k}
             z == <<p, 0>>
  <2>1. /\ Stored \subseteq InCirculation /\ live \subseteq InCirculation
        /\ Freeing \subseteq InCirculation
        /\ Stored \cap live = {} /\ Stored \cap Freeing = {} /\ live \cap Freeing = {}
    BY <1>1 DEF BlocksCarved, ExclusiveBlocks
  <2>2. /\ Stored' \subseteq Stored \cup R /\ live' = live \cup {z} /\ Freeing' \subseteq Freeing
        /\ z \notin R /\ R \cap InCirculation = {} /\ z \notin InCirculation
    BY <1>5, <1>6, <1>8, <1>10
  <2> HIDE DEF R, z
  <2>3. Stored' \cap live' = {} /\ Stored' \cap Freeing' = {} /\ live' \cap Freeing' = {}
    BY <2>1, <2>2
  <2> QED
    BY <2>3, <1>5 DEF ExclusiveBlocks
<1> QED
  BY <1>11, <1>12

\* Every step keeps every block in one place, and only carved blocks anywhere.
LEMMA BlocksStep ==
  ASSUME IInv, NEW t \in Threads, Step(t)
  PROVE  BlocksCarved' /\ ExclusiveBlocks'
<1> DEFINE Goal == BlocksCarved' /\ ExclusiveBlocks'
<1>0. TypeOK /\ ControlInv /\ BlocksCarved /\ ExclusiveBlocks
  BY DEF IInv, StackInv
<1>1. ASSUME NEW s \in Sizes, AllocHit(t, s) PROVE Goal
  <2> DEFINE A == AllocMag(t, ClassOf[s])
  <2>1. /\ A \in Slots /\ mag[A] # << >> /\ mag' = [mag EXCEPT ![A] = Pop(mag[A])]
        /\ HandOut(Top(mag[A]), s) /\ pages' = pages /\ blk' = blk
    BY <1>1, SlotFacts, ConstantsAssumption DEF AllocHit
  <2> QED
    BY <2>1, PopStep, HandOutStep, Zenon
<1>2. ASSUME NEW s \in Sizes, AllocSwap(t, s) PROVE Goal
  <2> DEFINE A == AllocMag(t, ClassOf[s])
             F == FreeMag(t, ClassOf[s])
  <2>1. /\ A \in Slots /\ F \in Slots /\ A # F
        /\ mag[A] = << >> /\ mag[F] # << >>
        /\ mag' = [mag EXCEPT ![A] = Pop(mag[F]), ![F] = mag[A]]
        /\ HandOut(Top(mag[F]), s) /\ pages' = pages /\ blk' = blk
    BY <1>2, SlotFacts, ConstantsAssumption DEF AllocSwap
  <2> HIDE DEF A, F
  <2> QED
    BY <2>1, SwapStep, HandOutStep, Zenon
<1>a. ASSUME UNCHANGED <<mag, live, header, pages>>,
             blk' = blk \/ blk' = [blk EXCEPT ![t] = Null]
      PROVE  Goal
  <2>1. StoredOnce' /\ Stored' \subseteq Stored
    BY <1>0, <1>a DEF ExclusiveBlocks, StoredOnce, Stored
  <2> QED
    BY <2>1, <1>a, MoveStep
<1>3. CASE \/ \E s \in Sizes : AllocPopFull(t, s)
           \/ PopRead(t) \/ PopCasOk(t) \/ PopCasFail(t)
           \/ PushEmptyLink(t) \/ PushEmptyCasOk(t) \/ PushEmptyCasFail(t)
           \/ MissFail(t) \/ NodeNull(t) \/ PushFullLink(t) \/ PushFullCasFail(t)
  <2>1. UNCHANGED <<mag, live, header, pages>> /\ (blk' = blk \/ blk' = [blk EXCEPT ![t] = Null])
    BY <1>3, Zenon DEF AllocPopFull, PopRead, PopCasOk, PopCasFail, PushEmptyLink, PushEmptyCasOk,
                PushEmptyCasFail, MissFail, NodeNull, PushFullLink, PushFullCasFail, Return
  <2> QED
    BY <2>1, <1>a
<1>4. CASE Refill(t)
  <2> DEFINE A == AllocMag(t, Cls(t))
             N == NodeMag(node[t])
  <2>1. Cls(t) \in Classes /\ node[t] \in Nodes
    BY <1>4, <1>0, ClassFacts DEF Refill, ControlInv, HoldsNode, TypeOK, Pointers
  <2>2. A \in Slots /\ N \in Slots /\ A # N
    BY <2>1, SlotFacts
  <2>3. /\ mag' = [mag EXCEPT ![A] = mag[N], ![N] = << >>]
        /\ UNCHANGED <<live, header, pages, blk>>
    BY <1>4 DEF Refill
  <2> HIDE DEF A, N
  <2> QED
    BY <2>2, <2>3, TransferStep, MoveStep, Zenon
<1>5. CASE Finish(t)
  <2> DEFINE A == AllocMag(t, Cls(t))
  <2>1. A \in Slots /\ size[t] \in Sizes
    BY <1>5, ClassFacts, SlotFacts DEF Finish
  <2>2. CASE mag[A] # << >>
    <3>1. /\ mag' = [mag EXCEPT ![A] = Pop(mag[A])] /\ HandOut(Top(mag[A]), size[t])
          /\ pages' = pages /\ blk' = [blk EXCEPT ![t] = Null]
      BY <1>5, <2>2 DEF Finish, Return
    <3> HIDE DEF A
    <3> QED
      BY <2>1, <2>2, <3>1, PopStep, HandOutStep, Zenon
  <2>3. CASE mag[A] = << >>
    BY <1>5, <2>3, <1>a DEF Finish
  <2> QED
    BY <2>2, <2>3
<1>6. ASSUME NEW p \in FreshPages, MissCarve(t, p) PROVE Goal
  <2> DEFINE c == Cls(t)
             A == AllocMag(t, c)
             k == PerPage[c] - 1
             n == BulkCount(mag[A], k)
  <2>1. c \in Classes /\ size[t] \in Sizes /\ A \in Slots /\ p \in Pages
    BY <1>6, ClassFacts, SlotFacts, Zenon DEF MissCarve, FreshPages
  <2>2. k \in Nat
    BY <1>6, <2>1, ConstantsAssumption DEF MissCarve
  <2>3. /\ pages' = [pages EXCEPT ![p] = [class |-> c, n |-> 1 + n]]
        /\ mag' = [mag EXCEPT ![A] = BulkInit(mag[A], p, k)]
        /\ HandOut(<<p, 0>>, size[t]) /\ blk' = [blk EXCEPT ![t] = Null]
    BY <1>6 DEF MissCarve, Return
  <2> HIDE DEF A, k, c
  <2>4. n \in 0 .. Capacity
    BY <2>1, <2>2, MagFacts, BulkFacts, Zenon
  <2>5. StoredOnce' /\ Stored' \subseteq Stored \cup {<<p, i>> : i \in 1 .. n}
    BY <2>1, <2>2, <2>3, StoreBulk, Zenon
  <2> HIDE DEF n
  <2> QED
    BY <2>1, <2>3, <2>4, <2>5, CarveStep, Zenon
<1>7. ASSUME NEW p \in FreshPages, MissSingle(t, p) PROVE Goal
  <2>1. /\ Cls(t) \in Classes /\ size[t] \in Sizes
        /\ pages' = [pages EXCEPT ![p] = [class |-> Cls(t), n |-> 1 + 0]]
        /\ HandOut(<<p, 0>>, size[t]) /\ blk' = [blk EXCEPT ![t] = Null] /\ mag' = mag
    BY <1>7, ClassFacts DEF MissSingle, Return
  <2>2. StoredOnce' /\ Stored' \subseteq Stored \cup {<<p, i>> : i \in 1 .. 0}
    BY <2>1, <1>0 DEF ExclusiveBlocks, StoredOnce, Stored
  <2>3. 0 \in 0 .. Capacity
    BY ConstantsAssumption
  <2> QED
    BY <2>1, <2>2, <2>3, CarveStep, Zenon
<1>8. ASSUME NEW b \in live, DeallocLocal(t, b) PROVE Goal
  <2> DEFINE F == FreeMag(t, ClassOf[header[b]])
  <2>1. F \in Slots /\ b \in Blocks /\ b \notin Stored
    BY <1>0, HeaderFacts, SlotFacts, Zenon DEF ExclusiveBlocks
  <2>2. /\ ~IsFull(mag[F]) /\ mag' = [mag EXCEPT ![F] = Append(mag[F], b)]
        /\ live' = live \ {b} /\ UNCHANGED <<header, pages, blk>>
    BY <1>8, Zenon DEF DeallocLocal
  <2> HIDE DEF F
  <2>3. StoredOnce' /\ Stored' \subseteq Stored \cup {b}
    BY <2>1, <2>2, Store, Zenon
  <2>4. InCirculation' = InCirculation /\ Freeing' = Freeing /\ FreedOnce'
    BY <2>2, FreeingFacts DEF InCirculation
  <2> QED
    BY <1>0, <2>2, <2>3, <2>4 DEF BlocksCarved, ExclusiveBlocks
<1>9. ASSUME NEW b \in live, DeallocOverflow(t, b) PROVE Goal
  <2>1. /\ live' = live \ {b} /\ blk' = [blk EXCEPT ![t] = b]
        /\ UNCHANGED <<mag, header, pages>>
    BY <1>9 DEF DeallocOverflow
  <2>2. b \in Blocks /\ b \notin Freeing
    BY <1>0, HeaderFacts DEF ExclusiveBlocks
  <2>3. Freeing' \subseteq Freeing \cup {b} /\ FreedOnce'
    BY <2>1, <2>2, FreeingFacts, Zenon
  <2>4. InCirculation' = InCirculation /\ Stored' = Stored /\ StoredOnce'
    BY <1>0, <2>1 DEF InCirculation, Stored, StoredOnce, ExclusiveBlocks
  <2> QED
    BY <1>0, <2>1, <2>3, <2>4 DEF BlocksCarved, ExclusiveBlocks
<1>10. ASSUME NEW n \in Nodes, NodeTake(t, n) PROVE Goal
  <2> DEFINE F == FreeMag(t, Cls(t))
             N == NodeMag(n)
  <2>1. Cls(t) \in Classes
    BY <1>10, ClassFacts DEF NodeTake
  <2>2. F \in Slots /\ N \in Slots /\ N # F
    BY <2>1, SlotFacts
  <2>3. /\ mag' = [mag EXCEPT ![N] = mag[F], ![F] = << >>]
        /\ UNCHANGED <<live, header, pages, blk>>
    BY <1>10 DEF NodeTake
  <2> HIDE DEF F, N
  <2> QED
    BY <2>2, <2>3, TransferStep, MoveStep, Zenon
<1>11. CASE PushFullCasOk(t)
  <2> DEFINE F == FreeMag(t, Cls(t))
  <2>1. Cls(t) \in Classes /\ blk[t] \in Blocks /\ blk[t] # Null /\ mag[F] = << >>
    BY <1>11, <1>0, ClassFacts DEF PushFullCasOk, ControlInv, TypeOK
  <2>2. F \in Slots /\ ~IsFull(mag[F])
    BY <2>1, SlotFacts, EmptyFacts, ConstantsAssumption DEF IsFull
  <2>3. /\ mag' = [mag EXCEPT ![F] = Append(mag[F], blk[t])]
        /\ blk' = [blk EXCEPT ![t] = Null] /\ UNCHANGED <<live, header, pages>>
    BY <1>11 DEF PushFullCasOk, Return
  <2> HIDE DEF F
  <2>4. /\ Freeing' \subseteq Freeing /\ FreedOnce'
        /\ blk[t] \in Freeing /\ blk[t] \notin Freeing'
    BY <2>1, <2>3, FreeingFacts, Zenon
  <2>5. blk[t] \notin Stored /\ blk[t] \notin live
    BY <2>4, <1>0 DEF ExclusiveBlocks
  <2>6. StoredOnce' /\ Stored' \subseteq Stored \cup {blk[t]}
    BY <2>1, <2>2, <2>3, <2>5, Store, Zenon
  <2>7. InCirculation' = InCirculation
    BY <2>3, Zenon DEF InCirculation
  <2> QED
    BY <1>0, <2>3, <2>4, <2>5, <2>6, <2>7 DEF BlocksCarved, ExclusiveBlocks
<1> QED
  BY <1>1, <1>2, <1>3, <1>4, <1>5, <1>6, <1>7, <1>8, <1>9, <1>10, <1>11 DEF Step

-----------------------------------------------------------------------------
(* The theorems. *)

\* The inductive invariant: no step of any thread, at any interleaving, of any
\* number of threads, classes, pages and nodes, leaves it.
THEOREM Invariance == Spec => []IInv
<1>1. IInv /\ [Next]_vars => IInv'
  <2> SUFFICES ASSUME IInv, [Next]_vars PROVE IInv'
    OBVIOUS
  <2>1. CASE Next
    <3>1. PICK t \in Threads : Step(t)
      BY <2>1 DEF Next
    <3>2. TypeOK' /\ ControlInv' /\ NodesOwned' /\ FullSeqDistinct' /\ FullStackIntact'
      BY <3>1, TypeStep, ControlStep, OwnedStep, DistinctStep, IntactStep
    <3>3. BlocksCarved' /\ ExclusiveBlocks'
      BY <3>1, BlocksStep
    <3> QED
      BY <3>2, <3>3 DEF IInv, StackInv
  <2>2. CASE UNCHANGED vars
    <3>0. /\ UNCHANGED <<mag, header, live, pages, fullHead, emptyHead, next, stage, fullSeq>>
          /\ UNCHANGED <<pc, size, blk, node, cur, nxt, dropped>>
          /\ StackInv /\ BlocksCarved /\ ExclusiveBlocks
      BY <2>2, Zenon DEF vars, pool, IInv
    <3>1. /\ NodesOwned' /\ FullSeqDistinct' /\ FullStackIntact'
          /\ StoredOnce' /\ FreedOnce'
      <4>1. NodesOwned'
        BY <3>0, Zenon DEF StackInv, NodesOwned
      <4>2. FullSeqDistinct'
        BY <3>0 DEF StackInv, FullSeqDistinct
      <4>3. FullStackIntact'
        BY <3>0, Zenon DEF StackInv, FullStackIntact
      <4>4. FreedOnce'
        BY <3>0, Zenon DEF ExclusiveBlocks, FreedOnce
      <4>5. StoredOnce'
        BY <3>0 DEF ExclusiveBlocks, StoredOnce
      <4> QED
        BY <4>1, <4>2, <4>3, <4>4, <4>5
    <3>2. TypeOK'
      BY <3>0 DEF StackInv, TypeOK
    <3>3. ControlInv'
      BY <3>0, Zenon DEF StackInv, ControlInv, Cls
    <3>4. Stored' = Stored /\ Freeing' = Freeing /\ InCirculation' = InCirculation
      <4>1. mag' = mag /\ blk' = blk /\ pages' = pages
        BY <3>0, Zenon
      <4>2. Stored' = Stored
        BY <4>1 DEF Stored
      <4>3. Freeing' = Freeing
        BY <4>1 DEF Freeing
      <4>4. InCirculation' = InCirculation
        BY <4>1 DEF InCirculation
      <4> QED
        BY <4>2, <4>3, <4>4
    <3>5. BlocksCarved' /\ ExclusiveBlocks'
      BY <3>0, <3>1, <3>4, Zenon DEF BlocksCarved, ExclusiveBlocks
    <3> QED
      BY <3>1, <3>2, <3>3, <3>5 DEF IInv, StackInv
  <2> QED
    BY <2>1, <2>2
<1> QED
  BY <1>1, InitIInv, PTL DEF Spec

\* Magazines never exceed MAGAZINE_CAPACITY and every pointer the code follows
\* is a node.
THEOREM TypeCorrect == Spec => []TypeOK
BY Invariance, PTL DEF IInv, StackInv

\* alloc never hands out a block that is held, stored or being freed elsewhere.
THEOREM BlocksAreExclusive == Spec => []ExclusiveBlocks
BY Invariance, PTL DEF IInv

\* push_full and pop_full keep the list from full_head a stack of exactly the
\* nodes pushed and not popped.
THEOREM StackIsIntact == Spec => []FullStackIntact
BY Invariance, PTL DEF IInv, StackInv

\* The CAS of pop_full never installs a stale next: no ABA, although the head
\* carries no tag.
THEOREM NoStaleNext == Spec => []PopSeesCurrentNext
<1>1. IInv => PopSeesCurrentNext
  <2> SUFFICES ASSUME IInv, NEW t \in Threads, pc[t] = "pop_cas", fullHead[Cls(t)] = cur[t]
               PROVE  nxt[t] = next[cur[t]]
    BY DEF PopSeesCurrentNext
  <2>1. Cls(t) \in Classes /\ cur[t] # Null
    BY ClassFacts DEF IInv, StackInv, ControlInv
  <2>2. stage[cur[t]] = "full"
    BY <2>1, HeadFacts, Zenon
  <2> QED
    BY <2>2 DEF IInv, StackInv, ControlInv
<1> QED
  BY <1>1, Invariance, PTL
=============================================================================
