-------------------------------- MODULE Slab --------------------------------
(***************************************************************************)
(* Slab of aethalloc-core/src/slab.rs: slots of one size, bumped out of    *)
(* pages and then linked through their own first word.  A method is one    *)
(* step: the slab is used through &mut self.                               *)
(***************************************************************************)
EXTENDS PageAllocator, Sequences, FiniteSets

CONSTANTS
  MaxSlabPages,   \* MAX_SLAB_PAGES
  SlotsPerPage    \* slots_per_page

ASSUME SlabAssumption == MaxSlabPages \in Nat \ {0} /\ SlotsPerPage \in 1 .. MaxSlots

VARIABLES
  freeHead,    \* free_head
  allocated,   \* allocated
  pages,       \* pages[0 .. num_pages - 1]
  nextSlot,    \* next_slot
  slabLive     \* the slots the program holds

slabVars == <<freeHead, allocated, pages, nextSlot, slabLive>>

SlabInit ==
  /\ freeHead = Nil
  /\ allocated = 0
  /\ pages = << >>
  /\ nextSlot = 0
  /\ slabLive = {}

\* The program receives slot w of memory mem, and writes to it.
Hand(w, mem) ==
  /\ allocated' = allocated + 1
  /\ slabLive' = slabLive \cup {w}
  /\ memory' = [mem EXCEPT ![w] = Data]

\* alloc from the free list.
SlabAllocFree ==
  /\ freeHead # Nil
  /\ freeHead' = memory[freeHead]
  /\ Hand(freeHead, memory)
  /\ UNCHANGED <<mapped, pages, nextSlot>>

\* alloc by bumping within the current page.
SlabAllocBump ==
  /\ freeHead = Nil
  /\ pages # << >> /\ nextSlot < SlotsPerPage
  /\ nextSlot' = nextSlot + 1
  /\ Hand(<<pages[Len(pages)], nextSlot>>, memory)
  /\ UNCHANGED <<mapped, pages, freeHead>>

\* Mutant: the bump pointer is not reset for the new page.
SlabAllocPageKeepsSlot(p) ==
  /\ freeHead = Nil
  /\ pages = << >> \/ nextSlot >= SlotsPerPage
  /\ Len(pages) < MaxSlabPages
  /\ Map(p, 1)
  /\ pages' = Append(pages, p)
  /\ nextSlot' = nextSlot + 1
  /\ Hand(<<p, nextSlot>>, Fresh(p, memory))
  /\ UNCHANGED freeHead

\* alloc with alloc_new_page.  (At MAX_SLAB_PAGES, and when mmap fails, alloc
\* returns None and nothing changes.)
SlabAllocPage(p) ==
  /\ freeHead = Nil
  /\ pages = << >> \/ nextSlot >= SlotsPerPage
  /\ Len(pages) < MaxSlabPages
  /\ Map(p, 1)
  /\ pages' = Append(pages, p)
  /\ nextSlot' = 1
  /\ Hand(<<p, 0>>, Fresh(p, memory))
  /\ UNCHANGED freeHead

\* dealloc: the slot is in one of the pages, by the caller's contract.
SlabDealloc(w) ==
  /\ w \in slabLive
  /\ slabLive' = slabLive \ {w}
  /\ IF \E i \in DOMAIN pages : pages[i] = w[1]
       THEN /\ memory' = [memory EXCEPT ![w] = freeHead]
            /\ freeHead' = w
            /\ allocated' = allocated - 1
       ELSE UNCHANGED <<memory, freeHead, allocated>>
  /\ UNCHANGED <<mapped, pages, nextSlot>>

\* Drop, by a program that holds no slot; a new slab may follow.
SlabDrop ==
  /\ pages # << >> /\ slabLive = {}
  /\ mapped' = [p \in Pages |-> IF \E i \in DOMAIN pages : pages[i] = p
                                  THEN mapped[p] - 1 ELSE mapped[p]]
  /\ freeHead' = Nil /\ allocated' = 0 /\ pages' = << >> /\ nextSlot' = 0
  /\ UNCHANGED <<memory, slabLive>>

SlabNext ==
  \/ SlabAllocFree \/ SlabAllocBump
  \/ \E p \in Pages : SlabAllocPage(p)
  \/ \E w \in slabLive : SlabDealloc(w)
  \/ SlabDrop
=============================================================================
