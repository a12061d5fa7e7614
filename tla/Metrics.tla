------------------------------ MODULE Metrics ------------------------------
(***************************************************************************)
(* The counters of aethalloc-abi/src/global.rs.  Every thread counts its   *)
(* own calls in ThreadMetrics and now and then adds its counts to          *)
(* GLOBAL_METRICS, one atomic addition per counter; the exporter of        *)
(* aethalloc-metrics reads the five global counters one after the other.   *)
(* Additions of several threads and the loads of a snapshot interleave.    *)
(***************************************************************************)
EXTENDS Integers, FiniteSetsExt

CONSTANTS
  Threads,
  METRICS_FLUSH_THRESHOLD,
  MaxCalls    \* bound: calls of alloc and dealloc in a behaviour

ASSUME ConstantsAssumption == METRICS_FLUSH_THRESHOLD \in Nat \ {0} /\ MaxCalls \in Nat

\* The counters, in the order in which they are flushed.
Counters == 1 .. 5
allocs == 1
frees == 2
cache_hits == 3
cache_misses == 4
direct_allocs == 5

VARIABLES
  global,     \* GLOBAL_METRICS
  local,      \* the ThreadMetrics of each thread
  flushing,   \* the counter a thread is about to add, 0 outside a flush
  snapshot,   \* the counters the exporter has read
  reading,    \* the counter it reads next; 6 when it has them all
  happened,   \* history: every count ever made
  lost,       \* history: counts that went away with their thread
  live,       \* history: the blocks the program holds
  failed,     \* history: allocations that were counted and returned null
  ceiling     \* history: what a snapshot may report, taken when it begins

counts == <<global, lost, happened, live, failed>>
export == <<snapshot, reading, ceiling>>
vars == <<counts, local, flushing, export>>

Zero == [k \in Counters |-> 0]

Plus(c, d) == [k \in Counters |-> c[k] + d[k]]

One(ks) == [k \in Counters |-> IF k \in ks THEN 1 ELSE 0]

Init ==
  /\ global = Zero
  /\ local = [t \in Threads |-> Zero]
  /\ flushing = [t \in Threads |-> 0]
  /\ snapshot = Zero
  /\ reading = allocs
  /\ happened = Zero
  /\ lost = Zero
  /\ live = 0
  /\ failed = 0
  /\ ceiling = 0

-----------------------------------------------------------------------------
(* Threads *)

\* maybe_flush flushes when enough was counted.
Due(c) == c[allocs] + c[frees] >= METRICS_FLUSH_THRESHOLD

\* A call of alloc or dealloc adds one to the counters ks.
Count(t, ks) ==
  /\ flushing[t] = 0
  /\ happened[allocs] + happened[frees] < MaxCalls
  /\ local' = [local EXCEPT ![t] = Plus(@, One(ks))]
  /\ happened' = Plus(happened, One(ks))
  /\ UNCHANGED <<global, lost, export>>

\* The additions begin, with the counts of this call included.
MaybeFlush(t) ==
  flushing' = [flushing EXCEPT ![t] = IF Due(local'[t]) THEN allocs ELSE 0]

\* alloc counts a hit, a miss that found pages, or a large block.
Alloc(t, kind) ==
  /\ Count(t, {allocs, kind})
  /\ MaybeFlush(t)
  /\ live' = live + 1
  /\ UNCHANGED failed

\* A large block is counted before PageAllocator is asked, which may fail.
DirectFails(t) ==
  /\ Count(t, {allocs, direct_allocs})
  /\ MaybeFlush(t)
  /\ failed' = failed + 1
  /\ UNCHANGED live

\* A miss without memory returns null past the call of maybe_flush.
MissFails(t) ==
  /\ Count(t, {allocs, cache_misses})
  /\ failed' = failed + 1
  /\ UNCHANGED <<flushing, live>>

\* dealloc of a block any thread may have allocated.
Dealloc(t) ==
  /\ live > 0
  /\ Count(t, {frees})
  /\ MaybeFlush(t)
  /\ live' = live - 1
  /\ UNCHANGED failed

\* Mutant: the counters are flushed in the opposite order.
FlushAddBackwards(t) ==
  LET k == 6 - flushing[t] IN
  /\ flushing[t] # 0
  /\ global' = [global EXCEPT ![k] = @ + local[t][k]]
  /\ local' = [local EXCEPT ![t] = IF flushing[t] = direct_allocs THEN Zero ELSE @]
  /\ flushing' = [flushing EXCEPT ![t] = IF @ = direct_allocs THEN 0 ELSE @ + 1]
  /\ UNCHANGED <<lost, happened, live, failed, export>>

\* Mutant: the thread's counters are not reset after the last addition.
FlushAddKeeps(t) ==
  LET k == flushing[t] IN
  /\ k # 0
  /\ global' = [global EXCEPT ![k] = @ + local[t][k]]
  /\ flushing' = [flushing EXCEPT ![t] = IF k = direct_allocs THEN 0 ELSE k + 1]
  /\ UNCHANGED <<local, lost, happened, live, failed, export>>

\* One fetch_add; after the last one the thread's own counters are reset.
FlushAdd(t) ==
  LET k == flushing[t] IN
  /\ k # 0
  /\ global' = [global EXCEPT ![k] = @ + local[t][k]]
  /\ local' = [local EXCEPT ![t] = IF k = direct_allocs THEN Zero ELSE @]
  /\ flushing' = [flushing EXCEPT ![t] = IF k = direct_allocs THEN 0 ELSE k + 1]
  /\ UNCHANGED <<lost, happened, live, failed, export>>

\* flush_thread_metrics flushes whatever there is.
FlushThreadMetrics(t) ==
  /\ flushing[t] = 0
  /\ flushing' = [flushing EXCEPT ![t] = allocs]
  /\ UNCHANGED <<counts, local, export>>

\* A thread ends: the cache in its thread-local storage has no destructor.  The
\* next thread of this name starts with a new one.
Exit(t) ==
  /\ flushing[t] = 0
  /\ lost' = Plus(lost, local[t])
  /\ local' = [local EXCEPT ![t] = Zero]
  /\ UNCHANGED <<global, happened, live, failed, flushing, export>>

-----------------------------------------------------------------------------
(* The exporter *)

\* What a thread has counted and not yet added to the global counter k.
Pending(t, k) == IF k < flushing[t] THEN 0 ELSE local[t][k]

Unflushed(k) == MapThenSumSet(LAMBDA t : Pending(t, k), Threads)

\* Mutant: frees is loaded before allocs.
LoadOrderSwapped == [k \in Counters |-> IF k <= frees THEN 3 - k ELSE k]

\* snapshot: the order in which the counters are loaded.
LoadOrder == [k \in Counters |-> k]

\* One load of GlobalMetrics::snapshot.
Load ==
  LET k == LoadOrder[reading] IN
  /\ reading \in Counters
  /\ snapshot' = [snapshot EXCEPT ![k] = global[k]]
  /\ reading' = reading + 1
  /\ ceiling' = IF reading = allocs
                  THEN live + failed + Unflushed(frees) + lost[frees]
                  ELSE ceiling
  /\ UNCHANGED <<counts, local, flushing>>

\* format_metrics: aethalloc_active_blocks, a saturating difference.
ActiveBlocks ==
  IF snapshot[allocs] > snapshot[frees] THEN snapshot[allocs] - snapshot[frees] ELSE 0

\* The report is sent; the next request takes a new snapshot.
Report ==
  /\ reading \notin Counters
  /\ reading' = allocs
  /\ snapshot' = Zero
  /\ ceiling' = 0
  /\ UNCHANGED <<counts, local, flushing>>

Step(t) ==
  \/ \E kind \in {cache_hits, cache_misses, direct_allocs} : Alloc(t, kind)
  \/ DirectFails(t) \/ MissFails(t) \/ Dealloc(t)
  \/ FlushAdd(t) \/ FlushThreadMetrics(t) \/ Exit(t)

Next == (\E t \in Threads : Step(t)) \/ Load \/ Report

Spec == Init /\ [][Next]_vars

-----------------------------------------------------------------------------
(* Properties *)

\* No count is lost or made twice while threads flush at the same time: each
\* is in the global counter, pending with one thread, or went away with a
\* thread that ended.
CountsConserved ==
  \A k \in Counters : global[k] + Unflushed(k) + lost[k] = happened[k]

\* In the global counters the hits, misses and large allocations never exceed
\* the allocations they are kinds of, although five additions publish them;
\* between flushes the sums agree.
KindsAddUp ==
  LET kinds == global[cache_hits] + global[cache_misses] + global[direct_allocs] IN
  /\ kinds <= global[allocs]
  /\ (\A t \in Threads : flushing[t] = 0) => kinds = global[allocs]

\* The exported number of active blocks, read by separate loads, exceeds the
\* blocks the program held when the snapshot began by no more than the
\* allocations that failed and the frees still pending or lost by then.
ActiveNotOverstated == reading \notin Counters => ActiveBlocks <= ceiling

=============================================================================
