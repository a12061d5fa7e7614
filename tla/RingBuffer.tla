----------------------------- MODULE RingBuffer -----------------------------
(***************************************************************************)
(* The single-producer, single-consumer ring of                            *)
(* aethalloc-amo/src/ring_buffer.rs, with the support core of              *)
(* support_core.rs as its consumer.  head is stored by the producer only,  *)
(* tail by the consumer only; each side keeps a shadow copy of the other's *)
(* index and reloads it only when the shadow says full or empty.           *)
(*                                                                         *)
(* Loads and stores of head, tail and the slots are one step each; a side  *)
(* reads its own index and shadow together with the next of these.         *)
(***************************************************************************)
EXTENDS Integers, Sequences

CONSTANTS
  Capacity,   \* CAPACITY, a power of two
  Entries,    \* RingEntry values
  None        \* no entry

ASSUME CapacityAssumption == Capacity \in Nat \ {0}
ASSUME EntriesAssumption == None \notin Entries

VARIABLES
  head, tail,               \* the shared indices
  shadowTail, shadowHead,   \* the producer's and the consumer's copies
  buffer,                   \* the slots; a slot never written holds zeroes, None here
  ppc, entry,               \* the producer: where it is, the entry it pushes
  cpc, read,                \* the consumer: where it is, the entry it read
  out,                      \* the entry handed to handle_command last
  pLen, cLen                \* len() as the producer, the consumer last saw it

producer == <<ppc, entry>>
consumer == <<cpc, read, out>>
vars == <<head, tail, shadowTail, shadowHead, buffer, producer, consumer, pLen, cLen>>

Index == 0 .. Capacity - 1

\* (i + 1) & (CAPACITY - 1)
Inc(i) == IF i = Capacity - 1 THEN 0 ELSE i + 1

\* h.wrapping_sub(t) & (CAPACITY - 1)
Dist(t, h) == IF t <= h THEN h - t ELSE h - t + Capacity

\* len() not called since the index last moved.
Unknown == -1

Init ==
  /\ head = 0 /\ tail = 0
  /\ shadowTail = 0 /\ shadowHead = 0
  /\ buffer = [i \in Index |-> None]
  /\ ppc = "idle" /\ entry = None
  /\ cpc = "idle" /\ read = None
  /\ out = None
  /\ pLen = Unknown /\ cLen = Unknown

-----------------------------------------------------------------------------
(* The producer *)

\* try_push: full by the shadow means the tail is loaded, otherwise the slot
\* is written.
PushStart(e) ==
  /\ ppc = "idle"
  /\ entry' = e
  /\ ppc' = IF Inc(head) = shadowTail THEN "reload" ELSE "write"
  /\ UNCHANGED <<head, tail, shadowTail, shadowHead, buffer, consumer, pLen, cLen>>

\* Mutants: a ring that is still full is not noticed; the wrong index is loaded.
PushReloadWrites ==
  /\ ppc = "reload"
  /\ shadowTail' = tail
  /\ ppc' = "write"
  /\ UNCHANGED <<head, tail, shadowHead, buffer, entry, consumer, pLen, cLen>>

PushReloadHead ==
  /\ ppc = "reload"
  /\ shadowTail' = head
  /\ ppc' = IF Inc(head) = tail THEN "retry" ELSE "write"
  /\ UNCHANGED <<head, tail, shadowHead, buffer, entry, consumer, pLen, cLen>>

\* tail.load; still full returns None and push spins, calling try_push again.
PushReload ==
  /\ ppc = "reload"
  /\ shadowTail' = tail
  /\ ppc' = IF Inc(head) = tail THEN "retry" ELSE "write"
  /\ UNCHANGED <<head, tail, shadowHead, buffer, entry, consumer, pLen, cLen>>

\* Mutant: push spins on the shadow and does not call try_push again.
PushRetrySpins == ppc = "retry" /\ UNCHANGED vars

PushRetry ==
  /\ ppc = "retry"
  /\ ppc' = IF Inc(head) = shadowTail THEN "reload" ELSE "write"
  /\ UNCHANGED <<head, tail, shadowTail, shadowHead, buffer, entry, consumer, pLen, cLen>>

\* The caller of try_push may give up instead.
PushGiveUp ==
  /\ ppc = "retry"
  /\ ppc' = "idle"
  /\ entry' = None
  /\ UNCHANGED <<head, tail, shadowTail, shadowHead, buffer, consumer, pLen, cLen>>

PushWrite ==
  /\ ppc = "write"
  /\ buffer' = [buffer EXCEPT ![head] = entry]
  /\ ppc' = "publish"
  /\ UNCHANGED <<head, tail, shadowTail, shadowHead, entry, consumer, pLen, cLen>>

\* head.store(next_head)
PushPublish ==
  /\ ppc = "publish"
  /\ head' = Inc(head)
  /\ ppc' = "idle"
  /\ entry' = None
  /\ pLen' = Unknown
  /\ UNCHANGED <<tail, shadowTail, shadowHead, buffer, consumer, cLen>>

\* Mutant: the consumer's shadow of the head is used for the head.
ProducerLenShadow ==
  /\ ppc = "idle"
  /\ pLen' = Dist(tail, shadowHead)
  /\ UNCHANGED <<head, tail, shadowTail, shadowHead, buffer, producer, consumer, cLen>>

\* len(), is_full() and is_empty() called by the producer: the head is its own,
\* the tail is loaded.
ProducerLen ==
  /\ ppc = "idle"
  /\ pLen' = Dist(tail, head)
  /\ UNCHANGED <<head, tail, shadowTail, shadowHead, buffer, producer, consumer, cLen>>

-----------------------------------------------------------------------------
(* The consumer: the loop of SupportCore::run *)

\* try_pop: empty by the shadow means the head is loaded, otherwise the slot
\* is read.
PopStart ==
  /\ cpc = "idle"
  /\ cpc' = IF tail = shadowHead THEN "reload" ELSE "read"
  /\ UNCHANGED <<head, tail, shadowTail, shadowHead, buffer, producer, read, out, pLen, cLen>>

\* Mutant: the head is compared and the shadow left as it was.
PopReloadForgets ==
  /\ cpc = "reload"
  /\ cpc' = "idle"
  /\ UNCHANGED <<head, tail, shadowTail, shadowHead, buffer, producer, read, out, pLen, cLen>>

\* head.load; still empty returns None, and run yields and tries again.
PopReload ==
  /\ cpc = "reload"
  /\ shadowHead' = head
  /\ cpc' = IF tail = head THEN "idle" ELSE "read"
  /\ UNCHANGED <<head, tail, shadowTail, buffer, producer, read, out, pLen, cLen>>

PopRead ==
  /\ cpc = "read"
  /\ read' = buffer[tail]
  /\ cpc' = "release"
  /\ UNCHANGED <<head, tail, shadowTail, shadowHead, buffer, producer, out, pLen, cLen>>

\* Mutant: every entry seen is released, not the one that was read.
PopReleaseAll ==
  /\ cpc = "release"
  /\ tail' = shadowHead
  /\ out' = read
  /\ read' = None
  /\ cpc' = "idle"
  /\ cLen' = Unknown
  /\ UNCHANGED <<head, shadowTail, shadowHead, buffer, producer, pLen>>

\* tail.store(next_tail); handle_command gets the entry and changes nothing.
PopRelease ==
  /\ cpc = "release"
  /\ tail' = Inc(tail)
  /\ out' = read
  /\ read' = None
  /\ cpc' = "idle"
  /\ cLen' = Unknown
  /\ UNCHANGED <<head, shadowTail, shadowHead, buffer, producer, pLen>>

\* len(), is_full() and is_empty() called by the consumer: the head is loaded,
\* the tail is its own.
ConsumerLen ==
  /\ cpc = "idle"
  /\ cLen' = Dist(tail, head)
  /\ UNCHANGED <<head, tail, shadowTail, shadowHead, buffer, producer, consumer, pLen>>

-----------------------------------------------------------------------------
Produce ==
  \/ \E e \in Entries : PushStart(e)
  \/ PushReload \/ PushRetry \/ PushGiveUp \/ PushWrite \/ PushPublish \/ ProducerLen

Consume == PopStart \/ PopReload \/ PopRead \/ PopRelease \/ ConsumerLen

Next == Produce \/ Consume

Spec == Init /\ [][Next]_vars

\* Both sides are scheduled: a producer inside push keeps calling try_push,
\* SupportCore::run keeps calling try_pop.  Nobody has to give up.
Fairness ==
  /\ WF_vars(PushReload \/ PushRetry \/ PushWrite \/ PushPublish)
  /\ WF_vars(PopStart \/ PopReload \/ PopRead \/ PopRelease)

FairSpec == Spec /\ Fairness

-----------------------------------------------------------------------------
(* Properties *)

\* Indices stay inside the buffer; each side is at one of its points.
TypeOK ==
  /\ head \in Index /\ tail \in Index
  /\ shadowTail \in Index /\ shadowHead \in Index
  /\ buffer \in [Index -> Entries \cup {None}]
  /\ ppc \in {"idle", "reload", "retry", "write", "publish"}
  /\ entry \in Entries \cup {None}
  /\ cpc \in {"idle", "reload", "read", "release"}
  /\ read \in Entries \cup {None}
  /\ out \in Entries \cup {None}
  /\ pLen \in {Unknown} \cup Index
  /\ cLen \in {Unknown} \cup Index

\* "Producer owns slots[head], consumer never reads it" and "Consumer owns
\* slots[tail], producer never writes it": no slot is written and read at the
\* same time, nor overwritten before its entry was taken.
SlotsOwned == ppc \in {"write", "publish"} /\ cpc \in {"read", "release"} => head # tail

\* The shadows are stale on the safe side only: the producer sees at least as
\* many entries as there are, the consumer at most as many.
ShadowsSafe ==
  /\ Dist(tail, head) <= Dist(shadowTail, head)
  /\ Dist(tail, shadowHead) <= Dist(tail, head)

\* A producer that saw !is_full() can push, a consumer that saw !is_empty()
\* can pop, whatever the other side did since.
LenSafe ==
  /\ pLen # Unknown /\ pLen # Capacity - 1 => Inc(head) # tail
  /\ cLen # Unknown /\ cLen # 0 => tail # head

\* The slot of the i-th entry from tail, wrapping round the end of the buffer.
SlotAt(i) == IF tail + i <= Capacity THEN tail + i - 1 ELSE tail + i - 1 - Capacity

\* The entries between tail and head, oldest first.
Contents == [i \in 1 .. Dist(tail, head) |-> buffer[SlotAt(i)]]

Fifo == INSTANCE BoundedFifo WITH queue <- Contents, Bound <- Capacity - 1

\* The ring is a bounded FIFO queue of CAPACITY - 1 entries: nothing is lost,
\* duplicated, reordered or torn.
IsBoundedFifo == Fifo!Spec

\* A blocked push ends once the support core runs.
PushEnds == ppc # "idle" ~> ppc = "idle"

\* Everything pushed is handed to the support core: the entry in any slot
\* between tail and head is consumed, however full the ring stays.
EntriesHandled ==
  \A i \in Index : (Dist(tail, i) < Dist(tail, head)) ~> (tail = Inc(i))

-----------------------------------------------------------------------------
(* The inductive invariant behind the safety properties. *)

\* What each side may rely on at each point of try_push and try_pop.
ControlInv ==
  /\ ppc # "idle" => entry \in Entries
  /\ ppc \in {"write", "publish"} => Inc(head) # shadowTail
  /\ ppc = "publish" => buffer[head] = entry
  /\ cpc \in {"read", "release"} => tail # shadowHead
  /\ cpc = "release" => read = buffer[tail]

\* A length seen by the producer can only be too large, by the consumer only
\* too small.
LenBounds ==
  /\ pLen # Unknown => Dist(tail, head) <= pLen
  /\ cLen # Unknown => cLen <= Dist(tail, head)

IInv == TypeOK /\ ControlInv /\ ShadowsSafe /\ LenBounds
=============================================================================
