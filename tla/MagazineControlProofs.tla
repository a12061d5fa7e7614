----------------------- MODULE MagazineControlProofs ------------------------
(***************************************************************************)
(* MagazineCache, continued: what each thread may rely on at each point of *)
(* alloc and dealloc is kept by every step of every thread.                *)
(***************************************************************************)
EXTENDS MagazineTypeProofs

\* The head of a full stack is null exactly when the stack is empty, and
\* otherwise the first node of it.
LEMMA HeadFacts ==
  ASSUME IInv, NEW c \in Classes, fullHead[c] # Null
  PROVE  /\ fullHead[c] \in Nodes /\ stage[fullHead[c]] = "full"
         /\ fullSeq[c] \in Seq(Nodes) /\ fullSeq[c] # << >>
         /\ Len(fullSeq[c]) \in Nat /\ Len(fullSeq[c]) > 0
         /\ DOMAIN fullSeq[c] = 1 .. Len(fullSeq[c])
         /\ fullSeq[c][1] = fullHead[c]
<1>1. fullSeq[c] \in Seq(Nodes) /\ fullSeq[c] # << >> /\ fullSeq[c][1] = fullHead[c]
  BY DEF IInv, StackInv, TypeOK, FullStackIntact
<1>2. Len(fullSeq[c]) \in Nat /\ Len(fullSeq[c]) > 0 /\ DOMAIN fullSeq[c] = 1 .. Len(fullSeq[c])
  BY <1>1, EmptySeq
<1> QED
  BY <1>1, <1>2 DEF IInv, StackInv, TypeOK, Pointers, FullSeqDistinct

\* Every step keeps what each thread may rely on where it stands.
LEMMA ControlStep ==
  ASSUME IInv, NEW t \in Threads, Step(t)
  PROVE  ControlInv'
<1>0. /\ mag \in [Slots -> Magazines] /\ next \in [Nodes -> Pointers] /\ stage \in [Nodes -> Stages]
      /\ pc \in [Threads -> PcValues] /\ size \in [Threads -> Sizes \cup {Null}]
      /\ blk \in [Threads -> Blocks \cup {Null}] /\ node \in [Threads -> Pointers]
      /\ cur \in [Threads -> Pointers] /\ nxt \in [Threads -> Pointers]
      /\ ControlInv /\ NodesOwned
  BY DEF IInv, StackInv, TypeOK
<1>a. /\ Null \notin Nodes /\ Null \notin Sizes /\ Null \notin Blocks
      /\ \A s \in Sizes : ClassOf[s] \in Classes
  BY ConstantsAssumption DEF Blocks
<1>b. \A u \in Threads : /\ node[u] # Null => node[u] \in Nodes
                         /\ cur[u] # Null => cur[u] \in Nodes
  BY <1>0 DEF Pointers
<1> USE <1>0, <1>a, <1>b, SlotFacts DEF ControlInv, HoldsNode, pool, Cls
<1>1. ASSUME NEW s \in Sizes, AllocHit(t, s) PROVE ControlInv'
  BY <1>1 DEF AllocHit, HandOut
<1>2. ASSUME NEW s \in Sizes, AllocSwap(t, s) PROVE ControlInv'
  BY <1>2 DEF AllocSwap, HandOut
<1>3. ASSUME NEW s \in Sizes, AllocPopFull(t, s) PROVE ControlInv'
  BY <1>3, HeadFacts DEF AllocPopFull, PopLoaded
<1>4. ASSUME PopRead(t) PROVE ControlInv'
  BY <1>4 DEF PopRead
<1>5. ASSUME PopCasOk(t) PROVE ControlInv'
  BY <1>5, HeadFacts, ClassFacts DEF PopCasOk
<1>6. ASSUME PopCasFail(t) PROVE ControlInv'
  BY <1>6, HeadFacts, ClassFacts DEF PopCasFail, PopLoaded
<1>7. ASSUME Refill(t) PROVE ControlInv'
  BY <1>7 DEF Refill
<1>8. ASSUME PushEmptyLink(t) PROVE ControlInv'
  BY <1>8 DEF PushEmptyLink, NodesOwned
<1>9. ASSUME PushEmptyCasOk(t) PROVE ControlInv'
  BY <1>9 DEF PushEmptyCasOk, NodesOwned
<1>10. ASSUME PushEmptyCasFail(t) PROVE ControlInv'
  BY <1>10 DEF PushEmptyCasFail
<1>11. ASSUME Finish(t) PROVE ControlInv'
  <2>1. CASE mag[AllocMag(t, Cls(t))] # << >>
    <3>1. /\ mag' = [mag EXCEPT ![AllocMag(t, Cls(t))] = Pop(@)]
          /\ Return(t) /\ UNCHANGED pool
      BY <1>11, <2>1, Zenon DEF Finish
    <3> QED
      BY <3>1, ClassFacts, <1>11 DEF Return, Finish
  <2>2. CASE mag[AllocMag(t, Cls(t))] = << >>
    <3>1. /\ pc' = [pc EXCEPT ![t] = "miss"]
          /\ UNCHANGED <<mag, size, blk, node, cur, nxt, pool>>
      BY <1>11, <2>2, Zenon DEF Finish
    <3> QED
      BY <3>1, <1>11 DEF Finish
  <2> QED
    BY <2>1, <2>2, Zenon
<1>12. ASSUME NEW p \in FreshPages, MissCarve(t, p) PROVE ControlInv'
  BY <1>12 DEF MissCarve, HandOut, Return
<1>13. ASSUME NEW p \in FreshPages, MissSingle(t, p) PROVE ControlInv'
  BY <1>13 DEF MissSingle, HandOut, Return
<1>14. ASSUME MissFail(t) PROVE ControlInv'
  BY <1>14 DEF MissFail, Return
<1>15. ASSUME NEW b \in live, DeallocLocal(t, b) PROVE ControlInv'
  BY <1>15, HeaderFacts DEF DeallocLocal
<1>16. ASSUME NEW b \in live, DeallocOverflow(t, b) PROVE ControlInv'
  BY <1>16, HeaderFacts DEF DeallocOverflow, Blocks
<1>17. ASSUME NodeNull(t) PROVE ControlInv'
  BY <1>17 DEF NodeNull, Return
<1>18. ASSUME NEW n \in Nodes, stage[n] = "fresh", NodeTake(t, n) PROVE ControlInv'
  BY <1>18 DEF NodeTake, NodesOwned
<1>19. ASSUME PushFullLink(t) PROVE ControlInv'
  <2>1. /\ pc[t] = "pf_link" /\ pc' = [pc EXCEPT ![t] = "pf_cas"]
        /\ next' = [next EXCEPT ![node[t]] = cur[t]]
        /\ UNCHANGED <<mag, stage, size, blk, node, cur, nxt>>
    BY <1>19, Zenon DEF PushFullLink
  <2>2. node[t] \in Nodes /\ stage[node[t]] = "filled"
    BY <2>1
  <2> QED
    BY <2>1, <2>2 DEF NodesOwned
<1>20. ASSUME PushFullCasOk(t) PROVE ControlInv'
  <2>1. /\ pc[t] = "pf_cas" /\ Return(t) /\ next' = next
        /\ stage' = [stage EXCEPT ![node[t]] = "full"]
        /\ mag' = [mag EXCEPT ![FreeMag(t, Cls(t))] = Append(@, blk[t])]
    BY <1>20, Zenon DEF PushFullCasOk
  <2>2. node[t] \in Nodes /\ stage[node[t]] = "filled" /\ Cls(t) \in Classes
    BY <2>1, ClassFacts
  <2>3. \A u \in Threads, c \in Classes : u # t => mag'[FreeMag(u, c)] = mag[FreeMag(u, c)]
    BY <2>1, <2>2
  <2>4. \A n \in Nodes : n # node[t] => stage'[n] = stage[n]
    BY <2>1
  <2> HIDE <1>20
  <2> QED
    BY <2>1, <2>2, <2>3, <2>4 DEF Return, NodesOwned
<1>21. ASSUME PushFullCasFail(t) PROVE ControlInv'
  BY <1>21 DEF PushFullCasFail
<1> QED
  BY <1>1, <1>2, <1>3, <1>4, <1>5, <1>6, <1>7, <1>8, <1>9, <1>10, <1>11, <1>12, <1>13,
     <1>14, <1>15, <1>16, <1>17, <1>18, <1>19, <1>20, <1>21, Zenon DEF Step
=============================================================================
