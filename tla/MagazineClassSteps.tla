------------------------- MODULE MagazineClassSteps -------------------------
(***************************************************************************)
(* MagazineCache, continued: what a step leaves alone, and that the blocks *)
(* in the magazines of the threads and in the program keep their class.    *)
(***************************************************************************)
EXTENDS MagazineCacheProofs

-----------------------------------------------------------------------------
(* What a step of thread t leaves alone. *)

\* What the invariant says about the locals of a thread.
LEMMA ThreadFacts ==
  ASSUME IInv, NEW t \in Threads
  PROVE  /\ pc[t] = "pop_cas" => cur[t] # Null
         /\ pc[t] \in {"refill", "pf_link", "pf_cas"} => node[t] \in Nodes
         /\ pc[t] = "refill" => stage[node[t]] = "taken"
         /\ pc[t] \in {"pf_link", "pf_cas"} =>
              stage[node[t]] = "filled" /\ mag[FreeMag(t, Cls(t))] = << >>
         /\ pc[t] \in {"need_node", "pf_link", "pf_cas"} =>
              blk[t] \in Blocks /\ blk[t] \in InCirculation
<1>1. ControlInv /\ Freeing \subseteq InCirculation
  BY DEF IInv, StackInv, BlocksCarved
<1>2. node[t] \in Nodes \cup {Null} /\ blk[t] \in Blocks \cup {Null}
  BY DEF IInv, StackInv, TypeOK, Pointers
<1>3. blk[t] # Null => blk[t] \in Freeing
  BY DEF Freeing
<1> QED
  BY <1>1, <1>2, <1>3 DEF ControlInv, HoldsNode

\* The locals of the other threads.
LEMMA LocalsKept ==
  ASSUME IInv, NEW t \in Threads, Step(t), NEW u \in Threads, u # t
  PROVE  pc'[u] = pc[u] /\ size'[u] = size[u] /\ blk'[u] = blk[u] /\ node'[u] = node[u]
<1>1. /\ DOMAIN pc = Threads /\ DOMAIN size = Threads /\ DOMAIN blk = Threads
      /\ DOMAIN node = Threads
  BY DEF IInv, StackInv, TypeOK
<1>2. /\ pc' = pc \/ \E x : pc' = [pc EXCEPT ![t] = x]
      /\ size' = size \/ \E x : size' = [size EXCEPT ![t] = x]
      /\ blk' = blk \/ \E x : blk' = [blk EXCEPT ![t] = x]
      /\ node' = node \/ \E x : node' = [node EXCEPT ![t] = x]
  <2>1. CASE \E s \in Sizes : AllocHit(t, s) \/ AllocSwap(t, s) \/ AllocPopFull(t, s)
    BY <2>1, Zenon DEF AllocHit, AllocSwap, AllocPopFull, PopLoaded
  <2>2. CASE PopRead(t) \/ PopCasOk(t) \/ PopCasFail(t) \/ Refill(t)
    BY <2>2, Zenon DEF PopRead, PopCasOk, PopCasFail, PopLoaded, Refill
  <2>3. CASE PushEmptyLink(t) \/ PushEmptyCasOk(t) \/ PushEmptyCasFail(t) \/ Finish(t)
    BY <2>3, Zenon DEF PushEmptyLink, PushEmptyCasOk, PushEmptyCasFail, Finish, Return
  <2>4. CASE (\E p \in FreshPages : MissCarve(t, p) \/ MissSingle(t, p)) \/ MissFail(t)
    BY <2>4, Zenon DEF MissCarve, MissSingle, MissFail, Return
  <2>5. CASE \E b \in live : DeallocLocal(t, b) \/ DeallocOverflow(t, b)
    BY <2>5, Zenon DEF DeallocLocal, DeallocOverflow
  <2>6. CASE NodeNull(t) \/ \E n \in Nodes : NodeTake(t, n)
    BY <2>6, Zenon DEF NodeNull, NodeTake, Return
  <2>7. CASE PushFullLink(t) \/ PushFullCasOk(t) \/ PushFullCasFail(t)
    BY <2>7, Zenon DEF PushFullLink, PushFullCasOk, PushFullCasFail, Return
  <2> QED
    BY <2>1, <2>2, <2>3, <2>4, <2>5, <2>6, <2>7 DEF Step
<1> QED
  BY <1>1, <1>2, Zenon

\* The class of every region in use.
LEMMA ClassKept ==
  ASSUME IInv, NEW t \in Threads, Step(t), NEW b \in InCirculation
  PROVE  pages'[b[1]].class = pages[b[1]].class
<1>1. b[1] \in Pages /\ b[1] \notin FreshPages /\ DOMAIN pages = Pages
  BY DEF IInv, StackInv, TypeOK, InCirculation, Blocks, FreshPages
<1>2. pages' = pages \/ \E p \in FreshPages : \E x : pages' = [pages EXCEPT ![p] = x]
  <2>1. CASE \E p \in FreshPages : MissCarve(t, p) \/ MissSingle(t, p)
    BY <2>1, Zenon DEF MissCarve, MissSingle
  <2>2. CASE ~\E p \in FreshPages : MissCarve(t, p) \/ MissSingle(t, p)
    BY <2>2, Zenon DEF Step, AllocHit, AllocSwap, AllocPopFull, PopRead, PopCasOk, PopCasFail,
              Refill, PushEmptyLink, PushEmptyCasOk, PushEmptyCasFail, Finish, MissFail,
              DeallocLocal, DeallocOverflow, NodeNull, NodeTake, PushFullLink,
              PushFullCasOk, PushFullCasFail
  <2> QED
    BY <2>1, <2>2
<1> QED
  BY <1>1, <1>2, Zenon

\* The magazines of the other threads, and of every node but the one that t
\* takes from the metadata pages or empties.
LEMMA SlotsKept ==
  ASSUME IInv, NEW t \in Threads, Step(t), NEW l \in Slots
  PROVE  \/ mag'[l] = mag[l]
         \/ \E c \in Classes : l = AllocMag(t, c) \/ l = FreeMag(t, c)
         \/ \E n \in Nodes : /\ l = NodeMag(n)
                             /\ \/ stage[n] = "fresh" /\ stage'[n] = "filled"
                                \/ pc[t] = "refill" /\ n = node[t]
<1>0. DOMAIN mag = Slots /\ \A s \in Sizes : ClassOf[s] \in Classes
  BY ConstantsAssumption DEF IInv, StackInv, TypeOK
<1>a. \A b \in live : ClassOf[header[b]] \in Classes
  BY HeaderFacts
<1>b. pc[t] # "idle" => Cls(t) \in Classes
  BY ClassFacts
<1>c. pc[t] = "refill" => node[t] \in Nodes
  BY ThreadFacts
<1>1. CASE \E s \in Sizes : AllocHit(t, s) \/ AllocSwap(t, s) \/ AllocPopFull(t, s)
  BY <1>0, <1>1, Zenon DEF AllocHit, AllocSwap, AllocPopFull
<1>2. CASE Refill(t)
  BY <1>0, <1>b, <1>c, <1>2, Zenon DEF Refill
<1>3. CASE Finish(t) \/ \E p \in FreshPages : MissCarve(t, p)
  <2>1. \/ mag' = mag
        \/ pc[t] # "idle" /\ \E x : mag' = [mag EXCEPT ![AllocMag(t, Cls(t))] = x]
    BY <1>3, Zenon DEF Finish, MissCarve
  <2> QED
    BY <1>0, <1>b, <2>1, Zenon
<1>4. CASE \E b \in live : DeallocLocal(t, b)
  BY <1>0, <1>a, <1>4, Zenon DEF DeallocLocal
<1>5. CASE \E n \in {m \in Nodes : stage[m] = "fresh"} : NodeTake(t, n)
  <2>1. PICK n \in Nodes : stage[n] = "fresh" /\ NodeTake(t, n)
    BY <1>5
  <2>2. Cls(t) \in Classes
    BY <1>b, <2>1 DEF NodeTake
  <2>3. \E x, y : mag' = [mag EXCEPT ![NodeMag(n)] = x, ![FreeMag(t, Cls(t))] = y]
    BY <2>1, Zenon DEF NodeTake
  <2>4. l = NodeMag(n) \/ l = FreeMag(t, Cls(t)) \/ mag'[l] = mag[l]
    BY <1>0, <2>3, Zenon
  <2>5. CASE l = FreeMag(t, Cls(t))
    BY <2>2, <2>5, Zenon
  <2>6. stage'[n] = "filled"
    BY <2>1 DEF NodeTake, IInv, StackInv, TypeOK
  <2>7. CASE l = NodeMag(n)
    BY <2>1, <2>6, <2>7, Zenon
  <2> QED
    BY <2>4, <2>5, <2>7, Zenon
<1>6. CASE PushFullCasOk(t)
  <2>1. Cls(t) \in Classes
    BY <1>b, <1>6 DEF PushFullCasOk
  <2> QED
    BY <1>0, <1>6, <2>1, Zenon DEF PushFullCasOk
<1>7. CASE \/ PopRead(t) \/ PopCasOk(t) \/ PopCasFail(t)
           \/ PushEmptyLink(t) \/ PushEmptyCasOk(t) \/ PushEmptyCasFail(t)
           \/ (\E p \in FreshPages : MissSingle(t, p)) \/ MissFail(t)
           \/ (\E b \in live : DeallocOverflow(t, b)) \/ NodeNull(t)
           \/ PushFullLink(t) \/ PushFullCasFail(t)
  BY <1>7, Zenon DEF PopRead, PopCasOk, PopCasFail, PushEmptyLink, PushEmptyCasOk,
            PushEmptyCasFail, MissSingle, MissFail, DeallocOverflow, NodeNull,
            PushFullLink, PushFullCasFail
<1> QED
  BY <1>1, <1>2, <1>3, <1>4, <1>5, <1>6, <1>7, Zenon DEF Step

\* Blocks that were together in a magazine of one class stay of that class.
LEMMA BlocksKept ==
  ASSUME IInv, NEW t \in Threads, Step(t), NEW l \in Slots, NEW c, OfClass(mag[l], c)
  PROVE  \A i \in DOMAIN mag[l] : pages'[mag[l][i][1]].class = c
<1> SUFFICES ASSUME NEW i \in DOMAIN mag[l] PROVE pages'[mag[l][i][1]].class = c
  OBVIOUS
<1>1. mag[l][i] \in InCirculation
  BY DEF IInv, BlocksCarved, Stored
<1> QED
  BY <1>1, ClassKept DEF OfClass

\* So a magazine whose blocks all come from one magazine stays of its class.
LEMMA MagKept ==
  ASSUME IInv, NEW t \in Threads, Step(t), NEW l \in Slots, NEW k \in Slots, NEW c,
         OfClass(mag[k], c),
         \A i \in DOMAIN mag'[l] : i \in DOMAIN mag[k] /\ mag'[l][i] = mag[k][i]
  PROVE  OfClass(mag[l], c)'
BY BlocksKept DEF OfClass

-----------------------------------------------------------------------------
(* What the other threads rely on. *)

\* The magazines of the other threads stay of their class.
LEMMA OtherMags ==
  ASSUME IInv, CInv, NEW t \in Threads, Step(t), NEW u \in Threads, u # t, NEW c \in Classes
  PROVE  /\ mag'[AllocMag(u, c)] = mag[AllocMag(u, c)] /\ OfClass(mag[AllocMag(u, c)], c)'
         /\ mag'[FreeMag(u, c)] = mag[FreeMag(u, c)] /\ OfClass(mag[FreeMag(u, c)], c)'
<1> DEFINE A == AllocMag(u, c)
           F == FreeMag(u, c)
<1>1. A \in Slots /\ F \in Slots /\ OfClass(mag[A], c) /\ OfClass(mag[F], c)
  BY SlotFacts DEF CInv, ClassesNeverMix
<1>2. mag'[A] = mag[A] /\ mag'[F] = mag[F]
  BY <1>1, SlotFacts, SlotsKept
<1>3. OfClass(mag[A], c)' /\ OfClass(mag[F], c)'
  BY <1>1, <1>2, MagKept
<1> QED
  BY <1>2, <1>3

\* So does the magazine of a node that t neither takes nor empties.
LEMMA OtherNodes ==
  ASSUME IInv, NEW t \in Threads, Step(t), NEW n \in Nodes, NEW c \in Classes,
         FullOf(mag[NodeMag(n)], c), stage[n] # "fresh", pc[t] = "refill" => n # node[t]
  PROVE  mag'[NodeMag(n)] = mag[NodeMag(n)] /\ FullOf(mag[NodeMag(n)], c)'
<1> DEFINE N == NodeMag(n)
<1>1. N \in Slots /\ OfClass(mag[N], c) /\ Len(mag[N]) = Capacity
  BY SlotFacts DEF FullOf
<1>2. mag'[N] = mag[N]
  BY <1>1, SlotFacts, SlotsKept
<1>3. OfClass(mag[N], c)'
  BY <1>1, <1>2, MagKept
<1> QED
  BY <1>1, <1>2, <1>3 DEF FullOf

\* What another thread has under way stays as it is.
LEMMA OtherTransit ==
  ASSUME IInv, CInv, NEW t \in Threads, Step(t), NEW u \in Threads, u # t
  PROVE  InTransit(u)'
<1>1. /\ pc'[u] = pc[u] /\ size'[u] = size[u] /\ blk'[u] = blk[u] /\ node'[u] = node[u]
      /\ Cls(u)' = Cls(u)
  BY LocalsKept DEF Cls
<1>2. InTransit(u) /\ NodesOwned /\ Null \notin Nodes
  BY ConstantsAssumption DEF CInv, IInv, StackInv
<1>3. CASE pc[u] = "idle"
  BY <1>1, <1>3 DEF InTransit
<1>4. CASE pc[u] # "idle"
  <2>1. Cls(u) \in Classes
    BY <1>4, ClassFacts
  <2>2. /\ mag'[AllocMag(u, Cls(u))] = mag[AllocMag(u, Cls(u))]
        /\ mag'[FreeMag(u, Cls(u))] = mag[FreeMag(u, Cls(u))]
    BY <2>1, OtherMags
  <2>3. ASSUME pc[u] \in {"refill", "pf_link", "pf_cas"}
        PROVE  FullOf(mag[NodeMag(node[u])], Cls(u))'
    <3>1. /\ node[u] \in Nodes /\ stage[node[u]] \in {"taken", "filled"}
          /\ pc[t] = "refill" => node[u] # node[t]
      <4>1. node[u] \in Nodes /\ stage[node[u]] \in {"taken", "filled"}
        BY <2>3, ThreadFacts
      <4> QED
        BY <1>2, <4>1 DEF NodesOwned
    <3>2. \A c \in Classes : FullOf(mag[NodeMag(node[u])], c) =>
            /\ mag'[NodeMag(node[u])] = mag[NodeMag(node[u])]
            /\ Len(mag'[NodeMag(node[u])]) = Capacity
            /\ \A i \in DOMAIN mag'[NodeMag(node[u])] :
                 pages'[mag'[NodeMag(node[u])][i][1]].class = c
      BY <3>1, OtherNodes DEF FullOf, OfClass
    <3>3. FullOf(mag[NodeMag(node[u])], Cls(u))
      BY <1>2, <2>3 DEF InTransit
    <3> QED
      BY <1>1, <2>1, <3>2, <3>3 DEF FullOf, OfClass
  <2>4. ASSUME pc[u] \in {"need_node", "pf_link", "pf_cas"}
        PROVE  pages'[blk[u][1]].class = pages[blk[u][1]].class
    <3>1. blk[u] \in InCirculation
      BY <2>4, ThreadFacts
    <3> QED
      BY <3>1, ClassKept
  <2> QED
    BY <1>1, <1>2, <2>2, <2>3, <2>4 DEF InTransit
<1> QED
  BY <1>3, <1>4

-----------------------------------------------------------------------------
(* What the thread that takes the step has after it. *)

\* The blocks the program holds carry a size of their class.
LEMMA LiveStep ==
  ASSUME IInv, CInv, NEW t \in Threads, Step(t), NEW b \in live'
  PROVE  header'[b] # Null /\ ClassOf[header'[b]] = pages'[b[1]].class
<1> DEFINE Goal == header'[b] # Null /\ ClassOf[header'[b]] = pages'[b[1]].class
<1>0. header \in [Blocks -> Sizes \cup {Null}] /\ live \subseteq Blocks /\ pages \in [Pages -> [class : Classes \cup {Null}, n : 0 .. Capacity + 1]]
  BY DEF IInv, StackInv, TypeOK
<1>1. ASSUME b \in live, header'[b] = header[b] PROVE Goal
  <2>1. b \in InCirculation
    BY <1>1 DEF IInv, BlocksCarved
  <2> QED
    BY <1>1, <2>1, ClassKept DEF CInv, ClassesNeverMix
<1>2. ASSUME NEW x \in Blocks, NEW s \in Sizes, HandOut(x, s), pages'[x[1]].class = ClassOf[s]
      PROVE  Goal
  <2>1. CASE b = x
    BY <1>0, <1>2, <2>1, ConstantsAssumption DEF HandOut
  <2>2. CASE b # x
    BY <1>0, <1>1, <1>2, <2>2 DEF HandOut
  <2> QED
    BY <2>1, <2>2
<1>3. ASSUME NEW l \in Slots, mag[l] # << >>, NEW s \in Sizes, OfClass(mag[l], ClassOf[s]),
             HandOut(Top(mag[l]), s)
      PROVE  Goal
  <2>1. Len(mag[l]) \in DOMAIN mag[l] /\ Top(mag[l]) = mag[l][Len(mag[l])] /\ Top(mag[l]) \in Blocks
    BY <1>3, MagFacts, PopFacts
  <2>2. pages'[Top(mag[l])[1]].class = ClassOf[s]
    BY <1>3, <2>1, BlocksKept
  <2> QED
    BY <1>2, <1>3, <2>1, <2>2
<1>4. ASSUME NEW s \in Sizes, AllocHit(t, s) \/ AllocSwap(t, s) PROVE Goal
  <2>1. ClassOf[s] \in Classes
    BY ConstantsAssumption
  <2>2. /\ OfClass(mag[AllocMag(t, ClassOf[s])], ClassOf[s])
        /\ OfClass(mag[FreeMag(t, ClassOf[s])], ClassOf[s])
        /\ AllocMag(t, ClassOf[s]) \in Slots /\ FreeMag(t, ClassOf[s]) \in Slots
    BY <2>1, SlotFacts DEF CInv, ClassesNeverMix
  <2> QED
    BY <1>3, <1>4, <2>2 DEF AllocHit, AllocSwap
<1>5. CASE Finish(t)
  <2>1. size[t] \in Sizes /\ Cls(t) = ClassOf[size[t]] /\ Cls(t) \in Classes
    BY <1>5, ClassFacts DEF Finish, Cls
  <2>2. OfClass(mag[AllocMag(t, Cls(t))], Cls(t)) /\ AllocMag(t, Cls(t)) \in Slots
    BY <2>1, SlotFacts DEF CInv, ClassesNeverMix
  <2>3. CASE mag[AllocMag(t, Cls(t))] # << >>
    BY <1>3, <1>5, <2>1, <2>2, <2>3 DEF Finish
  <2>4. CASE mag[AllocMag(t, Cls(t))] = << >>
    BY <1>1, <1>5, <2>4 DEF Finish
  <2> QED
    BY <2>3, <2>4
<1>6. ASSUME NEW p \in FreshPages, MissCarve(t, p) \/ MissSingle(t, p) PROVE Goal
  <2>1. size[t] \in Sizes /\ Cls(t) = ClassOf[size[t]]
    BY <1>6, ClassFacts DEF MissCarve, MissSingle, Cls
  <2>2. HandOut(<<p, 0>>, size[t]) /\ \E k : pages' = [pages EXCEPT ![p] = [class |-> Cls(t), n |-> k]]
    BY <1>6, Zenon DEF MissCarve, MissSingle
  <2>3. <<p, 0>> \in Blocks /\ p \in Pages
    BY FirstBlock DEF FreshPages
  <2>4. pages'[p].class = Cls(t)
    BY <1>0, <2>2, <2>3
  <2> QED
    BY <1>2, <2>1, <2>2, <2>3, <2>4
<1>7. ASSUME NEW x \in live, DeallocLocal(t, x) \/ DeallocOverflow(t, x) PROVE Goal
  BY <1>1, <1>7 DEF DeallocLocal, DeallocOverflow
<1>8. CASE \/ \E s \in Sizes : AllocPopFull(t, s)
           \/ PopRead(t) \/ PopCasOk(t) \/ PopCasFail(t) \/ Refill(t)
           \/ PushEmptyLink(t) \/ PushEmptyCasOk(t) \/ PushEmptyCasFail(t)
           \/ MissFail(t) \/ NodeNull(t) \/ \E n \in Nodes : NodeTake(t, n)
           \/ PushFullLink(t) \/ PushFullCasOk(t) \/ PushFullCasFail(t)
  <2>1. UNCHANGED <<live, header>>
    BY <1>8, Zenon DEF AllocPopFull, PopRead, PopCasOk, PopCasFail, Refill, PushEmptyLink,
              PushEmptyCasOk, PushEmptyCasFail, MissFail, NodeNull, NodeTake, PushFullLink,
              PushFullCasOk, PushFullCasFail
  <2> QED
    BY <1>1, <2>1
<1> QED
  BY <1>4, <1>5, <1>6, <1>7, <1>8 DEF Step

\* The magazines of t stay of their class.
LEMMA OwnMags ==
  ASSUME IInv, CInv, NEW t \in Threads, Step(t), NEW c \in Classes
  PROVE  OfClass(mag[AllocMag(t, c)], c)' /\ OfClass(mag[FreeMag(t, c)], c)'
<1> DEFINE Goal == OfClass(mag[AllocMag(t, c)], c)' /\ OfClass(mag[FreeMag(t, c)], c)'
<1>0. /\ AllocMag(t, c) \in Slots /\ FreeMag(t, c) \in Slots
      /\ OfClass(mag[AllocMag(t, c)], c) /\ OfClass(mag[FreeMag(t, c)], c)
      /\ mag \in [Slots -> Magazines]
  BY SlotFacts, MagFacts DEF CInv, ClassesNeverMix
<1>1. \A l \in Slots : OfClass(mag[l], c) /\ mag'[l] = mag[l] => OfClass(mag[l], c)'
  BY MagKept
<1>2. \A l, k \in Slots : OfClass(mag[k], c) /\ mag[k] # << >> /\ mag'[l] = Pop(mag[k])
                            => OfClass(mag[l], c)'
  <2> SUFFICES ASSUME NEW l \in Slots, NEW k \in Slots, OfClass(mag[k], c), mag[k] # << >>,
                      mag'[l] = Pop(mag[k])
               PROVE  OfClass(mag[l], c)'
    OBVIOUS
  <2>1. \A i \in DOMAIN mag'[l] : i \in DOMAIN mag[k] /\ mag'[l][i] = mag[k][i]
    BY <1>0, PopFacts
  <2> QED
    BY <2>1, MagKept
<1>3. \A l \in Slots : mag'[l] = << >> => OfClass(mag[l], c)'
  BY DEF OfClass
<1>4. \A l \in Slots : \A b \in Blocks :
        /\ OfClass(mag[l], c) /\ ~IsFull(mag[l]) /\ pages'[b[1]].class = c
        /\ mag'[l] = Append(mag[l], b)
        => OfClass(mag[l], c)'
  <2> SUFFICES ASSUME NEW l \in Slots, NEW b \in Blocks, OfClass(mag[l], c), ~IsFull(mag[l]),
                      pages'[b[1]].class = c, mag'[l] = Append(mag[l], b)
               PROVE  OfClass(mag[l], c)'
    BY Zenon
  <2>1. /\ Len(mag[l]) \in Nat /\ DOMAIN mag[l] = 1 .. Len(mag[l])
        /\ DOMAIN mag'[l] = 1 .. Len(mag[l]) + 1
        /\ \A i \in 1 .. Len(mag[l]) : mag'[l][i] = mag[l][i]
        /\ mag'[l][Len(mag[l]) + 1] = b
    BY <1>0, PushFacts
  <2>2. \A i \in DOMAIN mag[l] : pages'[mag[l][i][1]].class = c
    BY BlocksKept, Zenon
  <2> QED
    BY <2>1, <2>2 DEF OfClass
<1>5. ASSUME NEW s \in Sizes, AllocHit(t, s) PROVE Goal
  <2>1. mag' = [mag EXCEPT ![AllocMag(t, ClassOf[s])] = Pop(mag[AllocMag(t, ClassOf[s])])]
        /\ mag[AllocMag(t, ClassOf[s])] # << >> /\ ClassOf[s] \in Classes
    BY <1>5, ConstantsAssumption DEF AllocHit
  <2> QED
    BY <1>0, <1>1, <1>2, <2>1, SlotFacts
<1>6. ASSUME NEW s \in Sizes, AllocSwap(t, s) PROVE Goal
  <2> DEFINE d == ClassOf[s]
  <2>1. /\ mag' = [mag EXCEPT ![AllocMag(t, d)] = Pop(mag[FreeMag(t, d)]), ![FreeMag(t, d)] = << >>]
        /\ mag[FreeMag(t, d)] # << >> /\ d \in Classes
    BY <1>6, ConstantsAssumption DEF AllocSwap
  <2>2. CASE c = d
    <3>1. mag'[AllocMag(t, c)] = Pop(mag[FreeMag(t, c)]) /\ mag'[FreeMag(t, c)] = << >>
      BY <1>0, <2>1, <2>2, SlotFacts
    <3> QED
      BY <1>0, <1>2, <1>3, <2>1, <2>2, <3>1
  <2>3. CASE c # d
    <3>1. mag'[AllocMag(t, c)] = mag[AllocMag(t, c)] /\ mag'[FreeMag(t, c)] = mag[FreeMag(t, c)]
      BY <1>0, <2>1, <2>3, SlotFacts
    <3> QED
      BY <1>0, <1>1, <3>1
  <2> QED
    BY <2>2, <2>3
<1>7. CASE Refill(t)
  <2> DEFINE A == AllocMag(t, Cls(t))
             N == NodeMag(node[t])
  <2>1. /\ Cls(t) \in Classes /\ node[t] \in Nodes /\ OfClass(mag[N], Cls(t))
        /\ mag' = [mag EXCEPT ![A] = mag[N], ![N] = << >>]
    BY <1>7, ClassFacts DEF Refill, CInv, InTransit, FullOf, IInv, StackInv, ControlInv,
              HoldsNode, TypeOK, Pointers
  <2>2. mag'[FreeMag(t, c)] = mag[FreeMag(t, c)] /\ N \in Slots
    BY <1>0, <2>1, SlotFacts
  <2>3. mag'[AllocMag(t, c)] = IF c = Cls(t) THEN mag[N] ELSE mag[AllocMag(t, c)]
    BY <1>0, <2>1, SlotFacts
  <2>4. OfClass(mag[AllocMag(t, c)], c)'
    <3>1. CASE c = Cls(t)
      <4>1. mag'[AllocMag(t, c)] = mag[N] /\ OfClass(mag[N], c)
        BY <2>1, <2>3, <3>1
      <4> QED
        BY <1>0, <2>2, <4>1, MagKept
    <3>2. CASE c # Cls(t)
      BY <1>0, <1>1, <2>3, <3>2
    <3> QED
      BY <3>1, <3>2
  <2> QED
    BY <1>0, <1>1, <2>2, <2>4, Zenon
<1>8. CASE Finish(t)
  <2>1. /\ Cls(t) \in Classes
        /\ \/ mag' = mag
           \/ /\ mag[AllocMag(t, Cls(t))] # << >>
              /\ mag' = [mag EXCEPT ![AllocMag(t, Cls(t))] = Pop(mag[AllocMag(t, Cls(t))])]
    BY <1>8, ClassFacts DEF Finish
  <2> QED
    BY <1>0, <1>1, <1>2, <2>1, SlotFacts
<1>9. ASSUME NEW p \in FreshPages, MissCarve(t, p) PROVE Goal
  <2> DEFINE A == AllocMag(t, Cls(t))
             k == PerPage[Cls(t)] - 1
  <2>a. Cls(t) \in Classes /\ p \in Pages
    BY <1>9, ClassFacts DEF MissCarve, FreshPages
  <2>b. k \in Nat
    BY <1>9, <2>a, ConstantsAssumption DEF MissCarve
  <2>c. /\ mag' = [mag EXCEPT ![A] = BulkInit(mag[A], p, k)]
        /\ \E x : pages' = [pages EXCEPT ![p] = [class |-> Cls(t), n |-> x]]
    BY <1>9, Zenon DEF MissCarve
  <2>1. /\ Cls(t) \in Classes /\ p \in Pages /\ k \in Nat
        /\ mag' = [mag EXCEPT ![A] = BulkInit(mag[A], p, k)]
        /\ \E x : pages' = [pages EXCEPT ![p] = [class |-> Cls(t), n |-> x]]
    BY <2>a, <2>b, <2>c, Zenon
  <2> HIDE DEF k
  <2>2. pages'[p].class = Cls(t)
    BY <2>1 DEF IInv, StackInv, TypeOK
  <2>3. mag'[FreeMag(t, c)] = mag[FreeMag(t, c)]
    BY <1>0, <2>1, SlotFacts
  <2>4. OfClass(mag[AllocMag(t, c)], c)'
    <3>1. CASE c = Cls(t)
      <4>1. mag'[AllocMag(t, c)] = BulkInit(mag[AllocMag(t, c)], p, k)
        BY <1>0, <2>1, <3>1
      <4> DEFINE m == mag[AllocMag(t, c)]
                 q == mag'[AllocMag(t, c)]
      <4>2. /\ BulkCount(m, k) \in Nat /\ Len(m) \in Nat
            /\ DOMAIN m = 1 .. Len(m) /\ DOMAIN q = 1 .. Len(m) + BulkCount(m, k)
            /\ \A i \in 1 .. Len(m) : q[i] = m[i]
            /\ \A i \in 1 .. BulkCount(m, k) : q[Len(m) + i] = <<p, i>>
        <5>1. m \in Magazines /\ q = BulkInit(m, p, k) /\ Capacity \in Nat
          BY <1>0, <4>1, ConstantsAssumption
        <5> HIDE DEF m, q
        <5>2. /\ BulkCount(m, k) \in 0 .. Capacity /\ Len(m) \in Nat
              /\ DOMAIN m = 1 .. Len(m) /\ DOMAIN BulkInit(m, p, k) = 1 .. Len(m) + BulkCount(m, k)
              /\ \A i \in 1 .. Len(m) : BulkInit(m, p, k)[i] = m[i]
              /\ \A i \in 1 .. BulkCount(m, k) : BulkInit(m, p, k)[Len(m) + i] = <<p, i>>
          BY <2>a, <2>b, <5>1, BulkFacts, Zenon
        <5>3. BulkCount(m, k) \in Nat
          BY <5>1, <5>2
        <5> QED
          BY <5>1, <5>2, <5>3, Zenon
      <4>3. \A i \in DOMAIN m : pages'[m[i][1]].class = c
        BY <1>0, BlocksKept
      <4> HIDE DEF m, q
      <4>4. \A i \in DOMAIN q : i \in 1 .. Len(m) \/ \E j \in 1 .. BulkCount(m, k) : i = Len(m) + j
        <5> SUFFICES ASSUME NEW i \in DOMAIN q, i \notin 1 .. Len(m)
                     PROVE  i - Len(m) \in 1 .. BulkCount(m, k) /\ i = Len(m) + (i - Len(m))
          OBVIOUS
        <5> QED
          BY <4>2
      <4>5. \A i \in DOMAIN q : pages'[q[i][1]].class = c
        BY <2>2, <3>1, <4>2, <4>3, <4>4
      <4> QED
        BY <4>5 DEF q, OfClass
    <3>2. CASE c # Cls(t)
      <4>1. mag'[AllocMag(t, c)] = mag[AllocMag(t, c)]
        BY <1>0, <2>1, <3>2, SlotFacts
      <4> QED
        BY <1>0, <1>1, <4>1
    <3> QED
      BY <3>1, <3>2
  <2> QED
    BY <1>0, <1>1, <2>3, <2>4, Zenon
<1>10. ASSUME NEW b \in live, DeallocLocal(t, b) PROVE Goal
  <2> DEFINE d == ClassOf[header[b]]
  <2>1. /\ b \in Blocks /\ d \in Classes /\ pages[b[1]].class = d
        /\ ~IsFull(mag[FreeMag(t, d)]) /\ pages' = pages
        /\ mag' = [mag EXCEPT ![FreeMag(t, d)] = Append(mag[FreeMag(t, d)], b)]
    BY <1>10, HeaderFacts DEF DeallocLocal, CInv, ClassesNeverMix
  <2> HIDE DEF d
  <2>2. mag'[AllocMag(t, c)] = mag[AllocMag(t, c)] /\ (c # d => mag'[FreeMag(t, c)] = mag[FreeMag(t, c)])
    BY <1>0, <2>1, SlotFacts
  <2>3. c = d => mag'[FreeMag(t, c)] = Append(mag[FreeMag(t, c)], b)
    BY <1>0, <2>1
  <2> QED
    BY <1>0, <1>1, <1>4, <2>1, <2>2, <2>3, Zenon
<1>11. ASSUME NEW n \in Nodes, NodeTake(t, n) PROVE Goal
  <2>1. /\ Cls(t) \in Classes
        /\ mag' = [mag EXCEPT ![NodeMag(n)] = mag[FreeMag(t, Cls(t))], ![FreeMag(t, Cls(t))] = << >>]
    BY <1>11, ClassFacts DEF NodeTake
  <2>2. /\ mag'[AllocMag(t, c)] = mag[AllocMag(t, c)]
        /\ mag'[FreeMag(t, c)] = IF c = Cls(t) THEN << >> ELSE mag[FreeMag(t, c)]
    BY <1>0, <2>1, SlotFacts
  <2> QED
    BY <1>0, <1>1, <1>3, <2>2
<1>12. CASE PushFullCasOk(t)
  <2> DEFINE F == FreeMag(t, Cls(t))
  <2>1. /\ Cls(t) \in Classes /\ mag[F] = << >> /\ blk[t] \in Blocks
        /\ pages[blk[t][1]].class = Cls(t) /\ pages' = pages
        /\ mag' = [mag EXCEPT ![F] = Append(mag[F], blk[t])]
    <3>1. /\ pc[t] = "pf_cas" /\ pages' = pages
          /\ mag' = [mag EXCEPT ![F] = Append(mag[F], blk[t])]
      BY <1>12 DEF PushFullCasOk
    <3>2. pages[blk[t][1]].class = Cls(t)
      BY <3>1 DEF CInv, InTransit
    <3> QED
      BY <3>1, <3>2, ClassFacts, ThreadFacts, Zenon
  <2>2. /\ mag'[AllocMag(t, c)] = mag[AllocMag(t, c)]
        /\ c # Cls(t) => mag'[FreeMag(t, c)] = mag[FreeMag(t, c)]
        /\ c = Cls(t) => mag'[FreeMag(t, c)] = Append(mag[FreeMag(t, c)], blk[t])
    <3>1. F \in Slots /\ \A l \in Slots : mag'[l] = IF l = F THEN Append(mag[F], blk[t]) ELSE mag[l]
      BY <1>0, <2>1, SlotFacts
    <3>2. AllocMag(t, c) # F /\ (FreeMag(t, c) = F <=> c = Cls(t))
      BY <2>1, SlotFacts
    <3> QED
      BY <1>0, <3>1, <3>2, Zenon
  <2>3. ~IsFull(mag[F])
    BY <2>1, EmptyFacts, ConstantsAssumption DEF IsFull
  <2> QED
    BY <1>0, <1>1, <1>4, <2>1, <2>2, <2>3, Zenon
<1>13. CASE \/ (\E s \in Sizes : AllocPopFull(t, s)) \/ PopRead(t) \/ PopCasOk(t) \/ PopCasFail(t)
            \/ PushEmptyLink(t) \/ PushEmptyCasOk(t) \/ PushEmptyCasFail(t)
            \/ (\E p \in FreshPages : MissSingle(t, p)) \/ MissFail(t)
            \/ (\E b \in live : DeallocOverflow(t, b)) \/ NodeNull(t)
            \/ PushFullLink(t) \/ PushFullCasFail(t)
  <2>1. mag' = mag
    BY <1>13, Zenon DEF AllocPopFull, PopRead, PopCasOk, PopCasFail, PushEmptyLink,
              PushEmptyCasOk, PushEmptyCasFail, MissSingle, MissFail, DeallocOverflow, NodeNull,
              PushFullLink, PushFullCasFail
  <2> QED
    BY <1>0, <1>1, <2>1
<1> QED
  BY <1>5, <1>6, <1>7, <1>8, <1>9, <1>10, <1>11, <1>12, <1>13, Zenon DEF Step

=============================================================================
