------------------------- MODULE MetadataAllocator -------------------------
(***************************************************************************)
(* MetadataAllocator::alloc_node of aethalloc-core/src/magazine.rs: nodes  *)
(* are cut from the current page by advancing `offset`; when the page is   *)
(* used up a new one is mapped and installed.  Page and offset are two     *)
(* words, read and written by separate atomic operations, one step each.   *)
(*                                                                         *)
(* Offsets count nodes: every offset the code stores is a multiple of      *)
(* NODE_SIZE = 528, itself a multiple of NODE_ALIGN = 8, so rounding up to *)
(* the alignment changes nothing; the initial PAGE_SIZE is "no room".      *)
(***************************************************************************)
EXTENDS Naturals

CONSTANTS
  Threads,
  Pages,      \* addresses mmap may return for a metadata page
  PerPage,    \* PAGE_SIZE / NODE_SIZE, 7 in the code
  Null

ASSUME ConstantsAssumption ==
  /\ PerPage \in Nat \ {0}
  /\ Null \notin Pages

VARIABLES
  currentPage, offset,             \* the two shared words
  mapped,                          \* pages mapped for metadata now
  pc, off, newPage, seen,          \* locals of each call
  given,                           \* history: times each node was returned
  installed,                       \* history: pages that became current_page
  overlapped                       \* history: two calls were once under way at a time

vars == <<currentPage, offset, mapped, pc, off, newPage, seen, given, installed, overlapped>>

Nodes == (Pages \cup {Null}) \X (0 .. PerPage - 1)

Init ==
  /\ currentPage = Null
  /\ offset = PerPage
  /\ mapped = {}
  /\ pc = [t \in Threads |-> "idle"]
  /\ off = [t \in Threads |-> 0]
  /\ newPage = [t \in Threads |-> Null]
  /\ seen = [t \in Threads |-> Null]
  /\ given = [n \in Nodes |-> 0]
  /\ installed = {}
  /\ overlapped = FALSE

\* alloc_node returns the node at slot k of page p.
GiveNode(t, p, k) ==
  /\ given' = [given EXCEPT ![<<p, k>>] = @ + 1]
  /\ pc' = [pc EXCEPT ![t] = "idle"]

\* offset.load: is there room in the current page?
LoadOffset(t) ==
  /\ off' = [off EXCEPT ![t] = offset]
  /\ pc' = [pc EXCEPT ![t] = IF offset + 1 <= PerPage THEN "cas_offset" ELSE "map"]
  /\ UNCHANGED <<currentPage, offset, mapped, newPage, seen, given, installed>>

\* A call starts.
Call(t) ==
  /\ pc[t] = "idle"
  /\ overlapped' = (overlapped \/ \E u \in Threads : pc[u] # "idle")
  /\ LoadOffset(t)

\* The loop starts again after a failed compare_exchange_weak.
Again(t) ==
  /\ pc[t] = "again"
  /\ LoadOffset(t)
  /\ UNCHANGED overlapped

CasOffsetOk(t) ==
  /\ pc[t] = "cas_offset"
  /\ offset = off[t]
  /\ offset' = off[t] + 1
  /\ pc' = [pc EXCEPT ![t] = "load_page"]
  /\ UNCHANGED <<currentPage, mapped, off, newPage, seen, given, installed, overlapped>>

\* Mutant: the exchange is retried with the offset it failed with.
CasOffsetFailStale(t) ==
  /\ pc[t] = "cas_offset"
  /\ UNCHANGED vars

CasOffsetFail(t) ==
  /\ pc[t] = "cas_offset"
  /\ pc' = [pc EXCEPT ![t] = "again"]
  /\ UNCHANGED <<currentPage, offset, mapped, off, newPage, seen, given, installed, overlapped>>

\* current_page.load, after the slot was won; the node is at page + aligned.
LoadPage(t) ==
  /\ pc[t] = "load_page"
  /\ GiveNode(t, currentPage, off[t])
  /\ UNCHANGED <<currentPage, offset, mapped, off, newPage, seen, installed, overlapped>>

\* alloc_metadata_page: mmap fails, alloc_node returns null ...
MapFail(t) ==
  /\ pc[t] = "map"
  /\ pc' = [pc EXCEPT ![t] = "idle"]
  /\ UNCHANGED <<currentPage, offset, mapped, off, newPage, seen, given, installed, overlapped>>

\* ... or returns a page that is not mapped.
MapPage(t, p) ==
  /\ pc[t] = "map"
  /\ p \notin mapped
  /\ mapped' = mapped \cup {p}
  /\ newPage' = [newPage EXCEPT ![t] = p]
  /\ pc' = [pc EXCEPT ![t] = "load_current"]
  /\ UNCHANGED <<currentPage, offset, off, seen, given, installed, overlapped>>

\* The expected value of the exchange: current_page.load.
LoadCurrent(t) ==
  /\ pc[t] = "load_current"
  /\ seen' = [seen EXCEPT ![t] = currentPage]
  /\ pc' = [pc EXCEPT ![t] = "cas_page"]
  /\ UNCHANGED <<currentPage, offset, mapped, off, newPage, given, installed, overlapped>>

CasPageOk(t) ==
  /\ pc[t] = "cas_page"
  /\ currentPage = seen[t]
  /\ currentPage' = newPage[t]
  /\ installed' = installed \cup {newPage[t]}
  /\ pc' = [pc EXCEPT ![t] = "store_offset"]
  /\ UNCHANGED <<offset, mapped, off, newPage, seen, given, overlapped>>

\* Mutants: the page installed by the winner is unmapped; no page is unmapped;
\* the page is unmapped and the exchange tried again with it.
CasPageFailUnmapsWinner(t) ==
  /\ pc[t] = "cas_page"
  /\ mapped' = mapped \ {currentPage}
  /\ newPage' = [newPage EXCEPT ![t] = Null]
  /\ pc' = [pc EXCEPT ![t] = "again"]
  /\ UNCHANGED <<currentPage, offset, off, seen, given, installed, overlapped>>

CasPageFailLeaks(t) ==
  /\ pc[t] = "cas_page"
  /\ newPage' = [newPage EXCEPT ![t] = Null]
  /\ pc' = [pc EXCEPT ![t] = "again"]
  /\ UNCHANGED <<currentPage, offset, mapped, off, seen, given, installed, overlapped>>

\* The page is given back to the system and the loop starts again.
CasPageFail(t) ==
  /\ pc[t] = "cas_page"
  /\ mapped' = mapped \ {newPage[t]}
  /\ newPage' = [newPage EXCEPT ![t] = Null]
  /\ pc' = [pc EXCEPT ![t] = "again"]
  /\ UNCHANGED <<currentPage, offset, off, seen, given, installed, overlapped>>

\* Mutant: the first node of the page is not marked as taken.
StoreOffsetZero(t) ==
  /\ pc[t] = "store_offset"
  /\ offset' = 0
  /\ GiveNode(t, newPage[t], 0)
  /\ newPage' = [newPage EXCEPT ![t] = Null]
  /\ UNCHANGED <<currentPage, mapped, off, seen, installed, overlapped>>

\* offset.store(NODE_SIZE); the caller gets the first node of its page.
StoreOffset(t) ==
  /\ pc[t] = "store_offset"
  /\ offset' = 1
  /\ GiveNode(t, newPage[t], 0)
  /\ newPage' = [newPage EXCEPT ![t] = Null]
  /\ UNCHANGED <<currentPage, mapped, off, seen, installed, overlapped>>

Step(t) ==
  \/ Call(t) \/ Again(t) \/ CasOffsetOk(t) \/ CasOffsetFail(t) \/ LoadPage(t)
  \/ MapFail(t) \/ \E p \in Pages : MapPage(t, p)
  \/ LoadCurrent(t) \/ CasPageOk(t) \/ CasPageFail(t) \/ StoreOffset(t)

Next == \E t \in Threads : Step(t)

Spec == Init /\ [][Next]_vars

\* An exchange fails although the word has the expected value.
Spurious(t) ==
  \/ CasOffsetFail(t) /\ offset = off[t]
  \/ CasPageFail(t) /\ currentPage = seen[t]

\* A call under way is scheduled; spurious failures come to an end (on x86-64
\* there are none).  Losing to another thread over and over is not excluded.
Fairness ==
  \A t \in Threads :
    /\ WF_vars(pc[t] # "idle" /\ Step(t))
    /\ <>[][~Spurious(t)]_vars

FairSpec == Spec /\ Fairness

-----------------------------------------------------------------------------
(* Properties *)

\* No node is handed out twice: what push_full asks of its callers, that a
\* node is not already in a pool and is theirs alone, needs this of alloc_node.
NodesUnique == \A n \in Nodes : given[n] <= 1

\* Calls that never overlapped, from any threads in turn, get distinct nodes.
SerialCallsUnique == ~overlapped => NodesUnique

\* Every node handed out lies in a page that is mapped and stays mapped, never
\* at a null page: losing the exchange unmaps the loser's own page only.
NodesMapped == \A n \in Nodes : given[n] > 0 => n[1] \in installed /\ n[1] \in mapped

\* Every mapped page is reachable: it became the current page or one call is
\* about to install it.  A page that is neither is lost to the process.
PagesReachable ==
  \A p \in mapped : p \in installed \/ \E t \in Threads : newPage[t] = p

Returns == \E t \in Threads : pc[t] # "idle" /\ pc'[t] = "idle"

\* alloc_node is lock-free: as long as calls are under way, calls return.  The
\* losers of an exchange never keep each other in the loop.
LockFree == []<>(\E t \in Threads : pc[t] # "idle") => []<><<Returns>>_vars
=============================================================================
