-------------------------------- MODULE Heap --------------------------------
(***************************************************************************)
(* The bitmap heap (kernel/mm/heap.c): a list of superblocks, each cut into *)
(* blocks of BlockSize bytes with one bitmap byte per block.  A block's     *)
(* byte is FREE or an identifier; the blocks of one allocation share an     *)
(* identifier that differs from its neighbours' - that, and nothing else,   *)
(* tells memheap_free where an allocation ends.                             *)
(*                                                                         *)
(* A superblock is known by its address.  All superblocks have one size, as *)
(* they do in the kernel, whose only caller adds 4 MB pages (mem.c).        *)
(***************************************************************************)
EXTENDS Integers, Sequences, FiniteSets

CONSTANTS
    Superblocks,  \* addresses at which a superblock may be added
    NULL,         \* the address the list uses as its end marker
    TotalSize,    \* bytes of a superblock after its header
    BlockSize,    \* bytes of a block
    Sizes         \* sizes callers ask for

ASSUME GeometryAssumption ==
    BlockSize \in Nat \ {0} /\ TotalSize \in Nat /\ TotalSize >= BlockSize

ASSUME SizesAssumption == Sizes \subseteq Nat

VARIABLES
    chain,   \* the list from heap->head on, newest superblock first
    bitmap,  \* superblock -> block -> byte
    used,    \* superblock -> its used counter
    added,   \* history: the superblocks added so far
    live     \* history: allocations returned and not yet freed

vars == <<chain, bitmap, used, added, live>>

FREE == 0

\* CEILING of helpers.h.
CEILING(x, y) == (x + y - 1) \div y

BlockCount == TotalSize \div BlockSize
Blocks     == 0 .. BlockCount - 1

\* Blocks memheap_add_block keeps for the bitmap itself.
Reserved == CEILING(BlockCount, BlockSize)

\* What a bitmap byte, or the byte after the last one, can hold as far as
\* identifiers are concerned: a larger value behaves like 0.
Bytes == 0 .. 3

Run(i, n) == i .. i + n - 1

Allocation == [sb : Superblocks, start : Blocks, len : 0 .. BlockCount]
BlocksOf(a) == Run(a.start, a.len)

-----------------------------------------------------------------------------
(* Pieces of heap.c.  A definition whose name ends in a fault (OnlyLeft,    *)
(* OffByOne...) is a faulty variant of the one after it, used to see that   *)
(* the properties notice the fault.                                        *)

generate_identifier_OnlyLeft(x, y) == CHOOSE z \in {1, 2} : z # x

generate_identifier_OnlyRight(x, y) == CHOOSE z \in {1, 2} : z # y

\* The least identifier from 1 on that is neither x nor y.
generate_identifier(x, y) ==
    CHOOSE z \in 1 .. 3 :
        /\ z # x /\ z # y
        /\ \A w \in 1 .. z - 1 : w = x \/ w = y

\* n contiguous free blocks start at i.
FitsAt(bm, n, i) ==
    /\ bm[i] = FREE
    /\ i + n <= BlockCount
    /\ \A b \in Run(i, n) : bm[b] = FREE

FirstFitOffByOne(bm, n, i) ==
    /\ bm[i] = FREE
    /\ i + n <= BlockCount
    /\ \A b \in Run(i, n - 1) : bm[b] = FREE

\* Where memheap_alloc's scan of one bitmap stops (the scan itself, with its
\* skips, is module HeapScan).
FirstFit(bm, n, i) ==
    /\ FitsAt(bm, n, i)
    /\ \A j \in 0 .. i - 1 : ~FitsAt(bm, n, j)

\* memheap_alloc's first test on a superblock.
LargeEnough(s, size) == size <= TotalSize - used[s] * BlockSize

Serves(s, size, i) ==
    LargeEnough(s, size) /\ FirstFit(bitmap[s], CEILING(size, BlockSize), i)

\* The superblock at position k of the list is the first that serves.
FirstServer(size, k) ==
    /\ \E i \in Blocks : Serves(chain[k], size, i)
    /\ \A j \in 1 .. k - 1 : \A i \in Blocks : ~Serves(chain[j], size, i)

CanServe(size) == \E k \in 1 .. Len(chain) : FirstServer(size, k)

\* The blocks memheap_free clears from block `start` on: as long as the byte
\* equals the first one.
SameIdRun(bm, start) ==
    {b \in start .. BlockCount - 1 : \A c \in start .. b : bm[c] = bm[start]}

-----------------------------------------------------------------------------
(* memheap_init: no superblocks.  Bitmaps are memory not yet written.       *)
Init ==
    /\ chain = <<>>
    /\ bitmap = [s \in Superblocks |-> [b \in Blocks |-> FREE]]
    /\ used = [s \in Superblocks |-> 0]
    /\ added = {}
    /\ live = {}

memheap_add_block_NothingReserved(s) ==
    /\ s \notin added
    /\ added' = added \cup {s}
    /\ chain' = IF s = NULL THEN <<>> ELSE <<s>> \o chain
    /\ bitmap' = [bitmap EXCEPT ![s] = [b \in Blocks |-> FREE]]
    /\ used' = [used EXCEPT ![s] = Reserved]
    /\ UNCHANGED live

memheap_add_block_DropsNext(s) ==
    /\ s \notin added
    /\ added' = added \cup {s}
    /\ chain' = IF s = NULL THEN <<>> ELSE <<s>>
    /\ bitmap' = [bitmap EXCEPT ![s] =
                     [b \in Blocks |-> IF b < Reserved THEN 1 ELSE FREE]]
    /\ used' = [used EXCEPT ![s] = Reserved]
    /\ UNCHANGED live

\* The memory is the caller's, so it has not been added before.  A superblock
\* at address NULL makes heap->head the end marker: the list is then empty.
memheap_add_block(s) ==
    /\ s \notin added
    /\ added' = added \cup {s}
    /\ chain' = IF s = NULL THEN <<>> ELSE <<s>> \o chain
    /\ bitmap' = [bitmap EXCEPT ![s] =
                     [b \in Blocks |-> IF b < Reserved THEN 1 ELSE FREE]]
    /\ used' = [used EXCEPT ![s] = Reserved]
    /\ UNCHANGED live

\* memheap_alloc marks n blocks at i of superblock s.  The byte after the last
\* block is not part of the bitmap: whatever is there is `past`.
Mark(s, i, n, past) ==
    LET next == IF i + n < BlockCount THEN bitmap[s][i + n] ELSE past
        id   == generate_identifier(bitmap[s][i - 1], next)
    IN  /\ bitmap' = [bitmap EXCEPT ![s] =
                         [b \in Blocks |-> IF b \in Run(i, n) THEN id ELSE @[b]]]
        /\ used' = [used EXCEPT ![s] = @ + n]
        /\ live' = live \cup {[sb |-> s, start |-> i, len |-> n]}

\* memheap_alloc that returns a block.
memheap_alloc(size) ==
    /\ \E k \in 1 .. Len(chain), i \in Blocks, past \in Bytes :
          /\ FirstServer(size, k)
          /\ Serves(chain[k], size, i)
          /\ Mark(chain[k], i, CEILING(size, BlockSize), past)
    /\ UNCHANGED <<chain, added>>

\* memheap_alloc that returns NULL.
memheap_alloc_fails(size) == ~CanServe(size) /\ UNCHANGED vars

memheap_free_CounterKept(a) ==
    /\ a \in live
    /\ live' = live \ {a}
    /\ bitmap' = [bitmap EXCEPT ![a.sb] =
                     [b \in Blocks |-> IF b \in SameIdRun(bitmap[a.sb], a.start)
                                       THEN FREE ELSE @[b]]]
    /\ UNCHANGED <<chain, used, added>>

\* memheap_free of a pointer memheap_alloc returned: the superblock is looked up
\* in the list by address range; a pointer into no superblock of it is ignored.
memheap_free(a) ==
    /\ a \in live
    /\ live' = live \ {a}
    /\ IF \E k \in 1 .. Len(chain) : chain[k] = a.sb
       THEN LET run == SameIdRun(bitmap[a.sb], a.start)
            IN  /\ bitmap' = [bitmap EXCEPT ![a.sb] =
                      [b \in Blocks |-> IF b \in run THEN FREE ELSE @[b]]]
                /\ used' = [used EXCEPT ![a.sb] = @ - Cardinality(run)]
       ELSE UNCHANGED <<bitmap, used>>
    /\ UNCHANGED <<chain, added>>

Next ==
    \/ \E s \in Superblocks : memheap_add_block(s)
    \/ \E size \in Sizes : memheap_alloc(size) \/ memheap_alloc_fails(size)
    \/ \E a \in live : memheap_free(a)

Spec == Init /\ [][Next]_vars

-----------------------------------------------------------------------------
TypeOK ==
    /\ chain \in Seq(added)
    /\ bitmap \in [Superblocks -> [Blocks -> Bytes]]
    /\ used \in [Superblocks -> 0 .. BlockCount]
    /\ added \subseteq Superblocks
    /\ live \subseteq Allocation

InUse(s) == {b \in Blocks : bitmap[s][b] # FREE}

\* No two live allocations overlap and none overlaps the bitmap: two pointers
\* memheap_alloc returned never reach the same byte, whatever was freed between.
LiveDisjoint ==
    \A a \in live :
        /\ BlocksOf(a) \subseteq Reserved .. BlockCount - 1
        /\ \A b \in live : a.sb = b.sb /\ a # b => BlocksOf(a) \cap BlocksOf(b) = {}

\* Every live allocation is one run of a single identifier, ended by another
\* identifier or the end of the bitmap: what memheap_free relies on, although
\* the neighbours come and go after the identifier was chosen.
Delimited ==
    \A a \in live :
        LET bm == bitmap[a.sb]
            end == a.start + a.len
        IN  /\ \A b \in BlocksOf(a) : bm[b] # FREE /\ bm[b] = bm[a.start]
            /\ end < BlockCount => bm[end] # bm[a.start]

\* Nothing leaks: a block in use holds bitmap or belongs to a live allocation.
NoLeak ==
    \A k \in 1 .. Len(chain) : \A b \in InUse(chain[k]) :
        b < Reserved \/ \E a \in live : a.sb = chain[k] /\ b \in BlocksOf(a)

\* A block of a listed superblock is in use for the bitmap, for one live
\* allocation, or not at all (memheap_alloc, memheap_free).
OwnershipExact == LiveDisjoint /\ NoLeak

\* The used counter is exactly the number of blocks in use (heap.h: "Number of
\* blocks used"), so the size test of memheap_alloc never wraps below zero.
UsedExact == \A s \in added : used[s] = Cardinality(InUse(s))

\* memheap_alloc never gives up on a superblock that has room: the quick test on
\* the counter rejects no request the scan would satisfy.
NoFalseRejection ==
    \A k \in 1 .. Len(chain), size \in Sizes :
        (\E i \in Blocks : FitsAt(bitmap[chain[k]], CEILING(size, BlockSize), i))
            => CanServe(size)

\* The heap implements an allocator that owns blocks explicitly: a free releases
\* the blocks of the allocation freed, all of them and no others.
Abstract == INSTANCE BlockPool WITH
    Arenas <- Superblocks,
    Usable <- Reserved .. BlockCount - 1,
    busy   <- {p \in added \X Blocks :
                  p[2] >= Reserved /\ bitmap[p[1]][p[2]] # FREE},
    owned  <- {<<a.sb, a.start, a.len>> : a \in live},
    arenas <- added

RefinesBlockPool == Abstract!PoolSpec
=============================================================================
