------------------------------ MODULE HeapScan ------------------------------
(***************************************************************************)
(* The two nested loops with which memheap_alloc (kernel/mm/heap.c) looks   *)
(* for `blocks_needed` contiguous free blocks in one bitmap, step by step:  *)
(* the inner loop counts free blocks from i on and, when there are too few, *)
(* i skips over all of them.  Module Heap uses the loops' result, FirstFit. *)
(***************************************************************************)
EXTENDS Integers

CONSTANTS
    block_count,  \* bytes of the bitmap
    Needed        \* values of blocks_needed

ASSUME BlockCountAssumption == block_count \in Nat \ {0}
ASSUME NeededAssumption == Needed \subseteq Nat \ {0}

VARIABLES
    bitmap,         \* index -> byte, the byte after the bitmap included
    blocks_needed,
    i, n,           \* the two loop counters
    pc,             \* "outer", "inner" or "done"
    found           \* index the scan stopped at, or NoFit

scanVars == <<bitmap, blocks_needed, i, n, pc, found>>

FREE   == 0
InUse  == 1
NoFit  == -1

\* Bitmap bytes; index block_count is memory the scan reads but does not own.
Indices == 0 .. block_count

\* The first block holds the bitmap and is in use ("'i' cannot be 0").
ScanInit ==
    /\ bitmap \in [Indices -> {FREE, InUse}]
    /\ bitmap[0] = InUse
    /\ blocks_needed \in Needed
    /\ i = 0
    /\ n = 0
    /\ pc = "outer"
    /\ found = NoFit

\* i < block_count, and the byte decides.
OuterUsed ==
    /\ pc = "outer" /\ i < block_count
    /\ bitmap[i] # FREE
    /\ i' = i + 1
    /\ UNCHANGED <<bitmap, blocks_needed, n, pc, found>>

OuterFree ==
    /\ pc = "outer" /\ i < block_count
    /\ bitmap[i] = FREE
    /\ n' = 0
    /\ pc' = "inner"
    /\ UNCHANGED <<bitmap, blocks_needed, i, found>>

OuterEnd ==
    /\ pc = "outer" /\ i >= block_count
    /\ pc' = "done"
    /\ UNCHANGED <<bitmap, blocks_needed, i, n, found>>

InnerGuardNoBound == n < blocks_needed /\ bitmap[i + n] = FREE

\* The inner loop's condition reads the byte before it tests the bound.
InnerGuard ==
    bitmap[i + n] = FREE /\ n < blocks_needed /\ i + n < block_count

InnerCount ==
    /\ pc = "inner"
    /\ InnerGuard
    /\ n' = n + 1
    /\ UNCHANGED <<bitmap, blocks_needed, i, pc, found>>

InnerFound ==
    /\ pc = "inner"
    /\ ~InnerGuard
    /\ n = blocks_needed
    /\ found' = i
    /\ pc' = "done"
    /\ UNCHANGED <<bitmap, blocks_needed, i, n>>

SkipTooFar == i + blocks_needed

SkipTooShort == i + (n - 1)

\* i += (n - 1), then the outer loop's i++.
Skip == i + (n - 1) + 1

InnerSkip ==
    /\ pc = "inner"
    /\ ~InnerGuard
    /\ n # blocks_needed
    /\ i' = Skip
    /\ pc' = "outer"
    /\ UNCHANGED <<bitmap, blocks_needed, n, found>>

Done == pc = "done" /\ UNCHANGED scanVars

ScanNext ==
    \/ OuterUsed \/ OuterFree \/ OuterEnd
    \/ InnerCount \/ InnerFound \/ InnerSkip
    \/ Done

ScanSpec == ScanInit /\ [][ScanNext]_scanVars

\* A loop of the kernel runs on: interrupts delay it, they do not end it.
ScanFairSpec == ScanSpec /\ WF_scanVars(ScanNext)

-----------------------------------------------------------------------------
TypeOK ==
    /\ bitmap \in [Indices -> {FREE, InUse}]
    /\ blocks_needed \in Needed
    /\ i \in 0 .. block_count
    /\ n \in 0 .. block_count
    /\ pc \in {"outer", "inner", "done"}
    /\ found \in Indices \cup {NoFit}

\* blocks_needed free blocks start at j.
FitsAt(j) ==
    /\ j + blocks_needed <= block_count
    /\ \A b \in j .. j + blocks_needed - 1 : bitmap[b] = FREE

\* The scan finds the first place where the request fits, and says there is
\* none only if there is none: skipping over a run that is too short skips no
\* candidate, and the byte after the bitmap does not matter.
ScanIsFirstFit ==
    pc = "done" =>
        IF found = NoFit
        THEN \A j \in 0 .. block_count - 1 : ~FitsAt(j)
        ELSE FitsAt(found) /\ \A j \in 0 .. found - 1 : ~FitsAt(j)

\* The scan reads at most the one byte after the bitmap, which lies inside the
\* superblock: the byte is read before the bound is tested.
ReadsStayNear == pc = "inner" => i + n <= block_count

\* The scan ends: `i += (n - 1)` never moves i back or leaves it in place.
ScanTerminates == <>(pc = "done")
=============================================================================
