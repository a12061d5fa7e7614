----------------------------- MODULE Compactor -----------------------------
(***************************************************************************)
(* Compactor::try_relocate_page of aethalloc-vmpc/src/compactor.rs, over   *)
(* the regions the process has mapped.  A relocation gives a region new    *)
(* physical pages at the same address: it copies the region to a temporary *)
(* one, unmaps it, maps it again and copies it back.  Each system call may *)
(* fail, and the other threads of the process map and unmap other regions  *)
(* between any two of them.                                                *)
(***************************************************************************)
EXTENDS Integers

CONSTANTS
  Pages,      \* addresses at which regions may be mapped
  NoPage,
  Zeroes      \* the contents of a region just mapped

ASSUME NoPageAssumption == NoPage \notin Pages

VARIABLES
  mapped,     \* how many pages of the region at each address are mapped
  contents,   \* the contents of each region
  relocation  \* what try_relocate_page is doing, to which region

Idle == [pc |-> "idle", src |-> NoPage, temp |-> NoPage, pages |-> 0]

CompactorInit == relocation = Idle

\* mmap at an address of the kernel's choice.  The address being relocated is
\* not chosen while it is unmapped: try_relocate_page relies on that.
Map(p, n) ==
  /\ mapped[p] = 0
  /\ p # relocation.src
  /\ mapped' = [mapped EXCEPT ![p] = n]

\* munmap of n pages at p.
Unmapped(map, p, n) == [map EXCEPT ![p] = @ - n]

\* The caller ensures that nothing accesses the region meanwhile.
Accessible(p) == p # relocation.src

\* Steps 1 and 2.  Without memory for the temporary region, or for an empty
\* region, nothing happens at all.
RelocateCopy(src, temp) ==
  /\ relocation = Idle
  /\ mapped[src] > 0
  /\ Map(temp, mapped[src])
  /\ contents' = [contents EXCEPT ![temp] = contents[src]]
  /\ relocation' = [pc |-> "copied", src |-> src, temp |-> temp, pages |-> mapped[src]]

\* Step 3.
RelocateUnmap ==
  /\ relocation.pc = "copied"
  /\ mapped' = Unmapped(mapped, relocation.src, relocation.pages)
  /\ contents' = [contents EXCEPT ![relocation.src] = Zeroes]
  /\ relocation' = [relocation EXCEPT !.pc = "unmapped"]

\* Its error path: the mapping is made anew over the old one.
RelocateUnmapFails ==
  /\ relocation.pc = "copied"
  /\ contents' = [contents EXCEPT ![relocation.src] = Zeroes]
  /\ relocation' = [relocation EXCEPT !.pc = "mapped"]
  /\ UNCHANGED mapped

\* That failed too: the old mapping is as it was, and only the temporary one goes.
RelocateRestoreFails ==
  /\ relocation.pc = "copied"
  /\ mapped' = Unmapped(mapped, relocation.temp, relocation.pages)
  /\ contents' = [contents EXCEPT ![relocation.temp] = Zeroes]
  /\ relocation' = Idle

\* Step 4.
RelocateMap ==
  /\ relocation.pc = "unmapped"
  /\ mapped' = [mapped EXCEPT ![relocation.src] = relocation.pages]
  /\ relocation' = [relocation EXCEPT !.pc = "mapped"]
  /\ UNCHANGED contents

\* Its error path: the temporary region, with the only copy, is unmapped.
RelocateMapFails ==
  /\ relocation.pc = "unmapped"
  /\ mapped' = Unmapped(mapped, relocation.temp, relocation.pages)
  /\ contents' = [contents EXCEPT ![relocation.temp] = Zeroes]
  /\ relocation' = Idle

\* Mutant: the copy back is forgotten.
RelocateFinishBare ==
  /\ relocation.pc = "mapped"
  /\ contents' = [contents EXCEPT ![relocation.temp] = Zeroes]
  /\ mapped' = Unmapped(mapped, relocation.temp, relocation.pages)
  /\ relocation' = Idle

\* Step 5 and the end of both paths that mapped the region again.
RelocateFinish ==
  /\ relocation.pc = "mapped"
  /\ contents' = [contents EXCEPT ![relocation.src] = contents[relocation.temp],
                                  ![relocation.temp] = Zeroes]
  /\ mapped' = Unmapped(mapped, relocation.temp, relocation.pages)
  /\ relocation' = Idle

\* The steps after which the region has, or will have again, what it held.
RelocateStep ==
  \/ RelocateUnmap \/ RelocateUnmapFails \/ RelocateRestoreFails
  \/ RelocateMap \/ RelocateFinish

\* Where the contents of the region at p are found: in the temporary copy as
\* long as there is one.
Kept(p) == IF p = relocation.src THEN contents[relocation.temp] ELSE contents[p]
=============================================================================
