--------------------------- MODULE KernelMemProofs ---------------------------
(***************************************************************************)
(* kmalloc on top of the heap on top of the page allocator, for every size   *)
(* of the address space, of a page and of a block, and for requests of at    *)
(* least one byte.  The two layers' own invariants are taken over from       *)
(* FrameAllocProofs and HeapProofs; what is added is how the pages of one    *)
(* are used by the other.                                                    *)
(***************************************************************************)
EXTENDS KernelMem, TLAPS

FP == INSTANCE FrameAllocProofs
HP == INSTANCE HeapProofs WITH
        Superblocks <- F!Pages, NULL <- 0, TotalSize <- PageSize - HeaderSize

\* While a call is under way it is one of the callers' requests.
CallProper ==
    /\ call \in {"idle", "first", "grow", "retry"}
    /\ call # "idle" => pending \in Sizes

\* Superblocks and stacks are mapped pages, other than the kernel's and each
\* other, and there are none before alloc_init.
PagesApart ==
    /\ added \cap stacks = {}
    /\ {KernelIndex, KernelIndex + 1} \cap (added \cup stacks) = {}
    /\ added \cup stacks \subseteq FP!Present
    /\ phase = "paging" => added \cup stacks = {}

\* When memheap_alloc is tried again, the page more_memory added heads the list
\* and only its bitmap is taken.
FreshHead ==
    call = "retry" /\ 0 \notin added =>
        /\ Len(chain) >= 1
        /\ \A b \in HP!Blocks : b >= HP!Reserved => bitmap[chain[1]][b] = HP!FREE

MemInv ==
    /\ FP!IInv
    /\ HP!HInv
    /\ HP!AllListed
    /\ CallProper
    /\ PagesApart
    /\ FreshHead
    /\ FreshPageSuffices

-----------------------------------------------------------------------------
(* KernelMem's instances of the two components and the ones their proofs are  *)
(* about have the same definitions.                                          *)

LEMMA SameFrameAlloc ==
    /\ F!Pages = FP!Pages /\ F!Present = FP!Present /\ F!Panics = FP!Panics
    /\ F!Init <=> FP!Init
    /\ F!UnmapIdentity <=> FP!UnmapIdentity
    /\ F!alloc_init <=> FP!alloc_init
    /\ \A i : F!AllocBlockHole(i) <=> FP!AllocBlockHole(i)
    /\ \A i : F!Probe(virtual_addr, i) = FP!Probe(virtual_addr, i)
    /\ F!AllocBlockFull <=> FP!AllocBlockFull
    /\ F!NoSharedFrame <=> FP!NoSharedFrame
BY DEF F!Pages, FP!Pages, F!Frames, FP!Frames, F!Present, FP!Present,
       F!Panics, FP!Panics, F!NotPresent, FP!NotPresent, F!PageErr, FP!PageErr,
       F!Init, FP!Init, F!BootDirectory, FP!BootDirectory,
       F!UnmapIdentity, FP!UnmapIdentity, F!alloc_init, FP!alloc_init,
       F!AllocBlockHole, FP!AllocBlockHole, F!AllocBlockFull, FP!AllocBlockFull,
       F!FirstHole, FP!FirstHole, F!Probe, FP!Probe, F!NextPage, FP!NextPage,
       F!first_free_frame, FP!first_free_frame, F!NoSharedFrame, FP!NoSharedFrame

LEMMA SameHeap ==
    /\ H!Blocks = HP!Blocks /\ H!BlockCount = HP!BlockCount /\ H!Reserved = HP!Reserved
    /\ H!Init <=> HP!Init
    /\ \A s : H!memheap_add_block(s) <=> HP!memheap_add_block(s)
    /\ \A size : H!memheap_alloc(size) <=> HP!memheap_alloc(size)
    /\ \A size : H!CanServe(size) <=> HP!CanServe(size)
    /\ \A a : H!memheap_free(a) <=> HP!memheap_free(a)
<1>1. /\ H!Blocks = HP!Blocks /\ H!BlockCount = HP!BlockCount /\ H!Reserved = HP!Reserved
      /\ H!FREE = HP!FREE /\ H!Bytes = HP!Bytes
      /\ \A x, y : H!CEILING(x, y) = HP!CEILING(x, y)
      /\ \A i, n : H!Run(i, n) = HP!Run(i, n)
  BY DEF H!Blocks, HP!Blocks, H!BlockCount, HP!BlockCount, H!Reserved, HP!Reserved,
         H!CEILING, HP!CEILING, H!FREE, HP!FREE, H!Bytes, HP!Bytes, H!Run, HP!Run
<1>2. H!Init <=> HP!Init
  BY <1>1 DEF H!Init, HP!Init
<1>3. \A s : H!memheap_add_block(s) <=> HP!memheap_add_block(s)
  BY <1>1 DEF H!memheap_add_block, HP!memheap_add_block
<1>4. \A s, size, i : H!Serves(s, size, i) <=> HP!Serves(s, size, i)
  BY <1>1 DEF H!Serves, HP!Serves, H!LargeEnough, HP!LargeEnough,
              H!FirstFit, HP!FirstFit, H!FitsAt, HP!FitsAt
<1>5. /\ \A size, k : H!FirstServer(size, k) <=> HP!FirstServer(size, k)
      /\ \A size : H!CanServe(size) <=> HP!CanServe(size)
  BY <1>1, <1>4 DEF H!CanServe, HP!CanServe, H!FirstServer, HP!FirstServer
<1>6. \A s, i, n, past : H!Mark(s, i, n, past) <=> HP!Mark(s, i, n, past)
  BY <1>1 DEF H!Mark, HP!Mark, H!generate_identifier, HP!generate_identifier
<1>7. \A size : H!memheap_alloc(size) <=> HP!memheap_alloc(size)
  BY <1>1, <1>4, <1>5, <1>6 DEF H!memheap_alloc, HP!memheap_alloc
<1>8. \A a : H!memheap_free(a) <=> HP!memheap_free(a)
  <2>1. \A bm, start : H!SameIdRun(bm, start) = HP!SameIdRun(bm, start)
    BY <1>1 DEF H!SameIdRun, HP!SameIdRun
  <2>2. \A S : H!Cardinality(S) = HP!Cardinality(S)
    BY Zenon DEF H!Cardinality, HP!Cardinality
  <2> QED
    BY <1>1, <2>1, <2>2 DEF H!memheap_free, HP!memheap_free
<1> QED
  BY <1>1, <1>2, <1>3, <1>5, <1>7, <1>8

-----------------------------------------------------------------------------
(* What the layers below do, as kmalloc sees it.                             *)

\* alloc_block grants a page that was not mapped and maps no other.
LEMMA AllocGrants ==
    ASSUME FP!IInv, NEW i \in 0 .. NumFrames - 1, F!AllocBlockHole(i)
    PROVE  LET idx == F!Probe(virtual_addr, i)
           IN  /\ idx \in F!Pages /\ idx \notin FP!Present
               /\ FP!Present' = FP!Present \cup {idx}
               /\ phase = "ready" /\ phase' = "ready"
<1> DEFINE idx == FP!Probe(virtual_addr, i)
           frame_idx == FP!first_free_frame(frame_bitmap)
<1>0. FP!AllocBlockHole(i)
  BY SameFrameAlloc
<1>1. idx \in FP!Pages /\ page_directory[idx] = FP!NotPresent
  BY <1>0, FP!ProbeType, FrameAssumption
     DEF FP!AllocBlockHole, FP!FirstHole, FP!IInv, FP!TypeOK
<1>2. /\ phase = "ready" /\ FP!TypeOK
      /\ frame_bitmap = {page_directory[p] : p \in FP!Present}
  BY <1>0 DEF FP!AllocBlockHole, FP!BitmapExact, FP!IInv
<1>3. frame_idx \in FP!Frames \ frame_bitmap
  BY <1>1, <1>2, FP!FreeFrameForHole, FrameAssumption
<1>4. frame_idx # FP!PageErr /\ frame_idx # FP!NotPresent
  BY <1>3, FrameAssumption DEF FP!Frames, FP!PageErr, FP!NotPresent
<1>5. /\ page_directory' = [page_directory EXCEPT ![idx] = frame_idx]
      /\ phase' = phase
  BY <1>0, <1>4 DEF FP!AllocBlockHole
<1>6. FP!Present' = FP!Present \cup {idx} /\ idx \notin FP!Present
  BY <1>1, <1>2, <1>4, <1>5 DEF FP!Present, FP!TypeOK
<1>7. F!Probe(virtual_addr, i) = idx /\ F!Pages = FP!Pages
  BY SameFrameAlloc
<1> HIDE DEF idx
<1> QED
  BY <1>1, <1>2, <1>5, <1>6, <1>7

\* Whatever the page allocator does here, it keeps its invariant.
LEMMA FrameSteps ==
    ASSUME FP!IInv,
           \/ F!UnmapIdentity \/ F!alloc_init \/ F!AllocBlockFull
           \/ \E i \in 0 .. NumFrames - 1 : F!AllocBlockHole(i)
           \/ UNCHANGED frameVars
    PROVE  FP!IInv'
<1>1. FP!Next \/ UNCHANGED FP!vars
  BY SameFrameAlloc DEF FP!Next, FP!vars, frameVars
<1> QED
  BY <1>1, FP!NextIInv, FrameAssumption

\* ... and so does the heap, for requests of at least one byte; its list leads to
\* every superblock as long as there is none at page 0.
LEMMA HeapSteps ==
    ASSUME 0 \notin Sizes, HP!HInv, HP!AllListed,
           \/ \E s \in F!Pages : H!memheap_add_block(s)
           \/ \E size \in Sizes : H!memheap_alloc(size)
           \/ \E a \in live : H!memheap_free(a)
           \/ UNCHANGED heapVars
    PROVE  HP!HInv' /\ HP!AllListed'
<1>1. HP!Next \/ UNCHANGED HP!vars
  BY SameHeap DEF HP!Next, HP!vars, heapVars
<1>2. Sizes \subseteq Nat /\ BlockSize \in Nat \ {0}
      /\ PageSize - HeaderSize \in Nat /\ PageSize - HeaderSize >= BlockSize
  BY RequestAssumption, PageAssumption
<1>3. HP!HInv'
  BY <1>1, <1>2, HP!NextHInv
<1>4. HP!AllListed'
  BY <1>1, <1>2, HP!AllListedStep
<1> QED
  BY <1>3, <1>4

\* A request no larger than MaxServable fits behind the bitmap of a superblock
\* that holds nothing else.
LEMMA FreshServes ==
    ASSUME HP!HInv, NEW size \in Nat, size # 0, size <= MaxServable,
           Len(chain) >= 1,
           \A b \in HP!Blocks : b >= HP!Reserved => bitmap[chain[1]][b] = HP!FREE
    PROVE  H!CanServe(size)
<1> DEFINE n == HP!CEILING(size, BlockSize)
<1>1. /\ Sizes \subseteq Nat /\ BlockSize \in Nat \ {0}
      /\ PageSize - HeaderSize \in Nat /\ PageSize - HeaderSize >= BlockSize
  BY RequestAssumption, PageAssumption
<1>2. /\ HP!BlockCount \in Nat /\ HP!Reserved \in 1 .. HP!BlockCount
  BY <1>1, HP!BlockCountPositive, HP!ReservedRange
<1>3. n \in Nat /\ n >= 1
  BY <1>1, HP!CeilingPositive
<1>4. n <= HP!BlockCount - HP!Reserved
  <2> DEFINE room == HP!BlockCount - HP!Reserved
  <2>1. size <= room * BlockSize /\ room \in Nat
    BY <1>2, SameHeap DEF MaxServable
  <2>2. BlockSize * n <= size + BlockSize - 1
    BY <1>1, HP!DivFacts DEF HP!CEILING
  <2>3. ASSUME n >= room + 1 PROVE FALSE
    <3>1. BlockSize * n >= BlockSize * (room + 1)
      BY <1>1, <1>3, <2>1, <2>3
    <3>2. BlockSize * (room + 1) = room * BlockSize + BlockSize
      BY <1>1, <2>1
    <3>3. room * BlockSize \in Nat /\ BlockSize * n \in Nat
      BY <1>1, <1>3, <2>1
    <3> HIDE DEF n, room
    <3> QED
      BY <1>1, <2>1, <2>2, <3>1, <3>2, <3>3
  <2> QED
    BY <1>3, <2>1, <2>3
<1>5. HP!Reserved \in HP!Blocks /\ HP!FitsAt(bitmap[chain[1]], n, HP!Reserved)
  BY <1>2, <1>3, <1>4 DEF HP!FitsAt, HP!Run, HP!Blocks
<1>6. 1 \in 1 .. Len(chain)
  BY DEF HP!HInv, HP!TypeOK
<1>7. HP!CanServe(size)
  BY <1>1, <1>5, <1>6, HP!RoomIsServed
<1> QED
  BY <1>7, SameHeap

-----------------------------------------------------------------------------
LEMMA InitMemInv == Init => MemInv
<1> SUFFICES ASSUME Init PROVE MemInv
  OBVIOUS
<1>1. FP!Init /\ HP!Init
  BY SameFrameAlloc, SameHeap DEF Init
<1>2. FP!IInv
  BY <1>1, FP!InitIInv, FrameAssumption
<1>3. /\ Sizes \subseteq Nat /\ BlockSize \in Nat \ {0}
      /\ PageSize - HeaderSize \in Nat /\ PageSize - HeaderSize >= BlockSize
  BY RequestAssumption, PageAssumption
<1>4. HP!HInv
  BY <1>1, <1>3, HP!InitHInv
<1>5. added = {} /\ Len(chain) = 0
  BY <1>1 DEF HP!Init
<1>6. HP!AllListed
  <2>1. HP!Listed = {}
    BY <1>5 DEF HP!Listed
  <2> QED
    BY <1>5, <2>1 DEF HP!AllListed
<1>7. CallProper /\ PagesApart /\ FreshHead /\ FreshPageSuffices
  BY <1>5 DEF Init, CallProper, PagesApart, FreshHead, FreshPageSuffices
<1> QED
  BY <1>2, <1>4, <1>6, <1>7 DEF MemInv

\* The kernel's two pages are mapped from the boot code on.
LEMMA KernelPresent ==
    ASSUME FP!IInv
    PROVE  {KernelIndex, KernelIndex + 1} \subseteq FP!Present
BY FrameAssumption
   DEF FP!IInv, FP!KernelMapped, FP!Present, FP!Pages, FP!NotPresent

LEMMA MoreMemoryMemInv ==
    ASSUME 0 \notin Sizes, MemInv, more_memory
    PROVE  MemInv'
<1>1. PICK i \in 0 .. NumFrames - 1 :
         F!AllocBlockHole(i) /\ H!memheap_add_block(F!Probe(virtual_addr, i))
  BY DEF more_memory
<1> DEFINE idx == F!Probe(virtual_addr, i)
<1>2. /\ idx \in F!Pages /\ idx \notin FP!Present
      /\ FP!Present' = FP!Present \cup {idx}
      /\ phase = "ready" /\ phase' = "ready"
  BY <1>1, AllocGrants DEF MemInv
<1> HIDE DEF idx
<1>3. FP!IInv'
  BY <1>1, FrameSteps DEF MemInv
<1>4. HP!HInv' /\ HP!AllListed'
  BY <1>1, <1>2, HeapSteps DEF MemInv, idx
<1>5. /\ HP!memheap_add_block(idx)
      /\ call' = "retry" /\ call = "grow" /\ UNCHANGED <<pending, panic, stacks>>
      /\ panic = "none"
  BY <1>1, SameHeap DEF more_memory, idx, Running
<1>6. CallProper'
  BY <1>5 DEF MemInv, CallProper
<1>7. PagesApart'
  BY <1>2, <1>5, KernelPresent DEF MemInv, PagesApart, HP!memheap_add_block
<1>8. FreshHead'
  <2> SUFFICES ASSUME 0 \notin added'
               PROVE  /\ Len(chain') >= 1
                      /\ \A b \in HP!Blocks :
                            b >= HP!Reserved => bitmap'[chain'[1]][b] = HP!FREE
    BY DEF FreshHead
  <2>1. chain' = <<idx>> \o chain
    BY <1>5 DEF HP!memheap_add_block
  <2>2. chain \in Seq(added)
    BY DEF MemInv, HP!HInv, HP!TypeOK
  <2>3. Len(chain') >= 1 /\ chain'[1] = idx
    BY <2>1, <2>2
  <2>4. bitmap'[idx] = [b \in HP!Blocks |-> IF b < HP!Reserved THEN 1 ELSE HP!FREE]
    BY <1>2, <1>5 DEF HP!memheap_add_block, MemInv, HP!HInv, HP!TypeOK
  <2>5. HP!Reserved \in Nat /\ HP!Blocks \subseteq Nat
    BY HP!ReservedRange, HP!BlockCountPositive, PageAssumption, RequestAssumption
       DEF HP!Blocks
  <2> QED
    BY <2>3, <2>4, <2>5
<1>9. FreshPageSuffices'
  BY <1>5 DEF FreshPageSuffices
<1> QED
  BY <1>3, <1>4, <1>6, <1>7, <1>8, <1>9 DEF MemInv

LEMMA StackMemInv ==
    ASSUME 0 \notin Sizes, MemInv, copy_stack_alloc
    PROVE  MemInv'
<1>1. PICK i \in 0 .. NumFrames - 1 :
         /\ F!AllocBlockHole(i)
         /\ stacks' = stacks \cup {F!Probe(virtual_addr, i)}
  BY DEF copy_stack_alloc
<1> DEFINE idx == F!Probe(virtual_addr, i)
<1>2. /\ idx \in F!Pages /\ idx \notin FP!Present
      /\ FP!Present' = FP!Present \cup {idx}
      /\ phase = "ready" /\ phase' = "ready"
  BY <1>1, AllocGrants DEF MemInv
<1> HIDE DEF idx
<1>3. FP!IInv'
  BY <1>1, FrameSteps DEF MemInv
<1>4. /\ UNCHANGED heapVars /\ UNCHANGED <<pending, call, panic>>
      /\ stacks' = stacks \cup {idx} /\ added' = added
  BY <1>1 DEF copy_stack_alloc, heapVars, idx
<1>5. HP!HInv' /\ HP!AllListed'
  BY <1>4, HeapSteps DEF MemInv
<1>6. PagesApart'
  BY <1>2, <1>4, KernelPresent DEF MemInv, PagesApart
<1>7. CallProper' /\ FreshHead' /\ FreshPageSuffices'
  BY <1>4 DEF MemInv, CallProper, FreshHead, FreshPageSuffices, heapVars, MaxServable
<1> QED
  BY <1>3, <1>5, <1>6, <1>7 DEF MemInv

LEMMA HeapCallMemInv ==
    ASSUME 0 \notin Sizes, MemInv, Served \/ \E a \in live : kfree(a)
    PROVE  MemInv'
<1>1. /\ UNCHANGED frameVars /\ UNCHANGED <<panic, stacks>> /\ call' = "idle"
      /\ added' = added /\ panic = "none"
  <2>1. CASE Served
    BY <2>1 DEF Served, Running, H!memheap_alloc
  <2>2. ASSUME NEW a \in live, kfree(a)
        PROVE  /\ UNCHANGED frameVars /\ UNCHANGED <<panic, stacks>> /\ call' = "idle"
               /\ added' = added /\ panic = "none"
    BY <2>2 DEF kfree, Running, H!memheap_free
  <2> QED
    BY <2>1, <2>2
<1>2. FP!IInv'
  BY <1>1, FrameSteps DEF MemInv
<1>3. HP!HInv' /\ HP!AllListed'
  <2>1. CASE Served
    <3>1. pending \in Sizes /\ H!memheap_alloc(pending)
      BY <2>1 DEF Served, MemInv, CallProper
    <3> QED
      BY <3>1, HeapSteps DEF MemInv
  <2>2. CASE \E a \in live : kfree(a)
    BY <2>2, HeapSteps DEF kfree, MemInv
  <2> QED
    BY <2>1, <2>2
<1>4. PagesApart'
  BY <1>1 DEF MemInv, PagesApart, frameVars, FP!Present
<1>5. CallProper' /\ FreshHead' /\ FreshPageSuffices'
  BY <1>1 DEF CallProper, FreshHead, FreshPageSuffices
<1> QED
  BY <1>2, <1>3, <1>4, <1>5 DEF MemInv

\* "Heap Allocation Failed!" although a fresh page heads the list.
LEMMA RetryFailsMemInv ==
    ASSUME 0 \notin Sizes, MemInv, RetryFails
    PROVE  MemInv'
<1>1. /\ UNCHANGED <<frameVars, heapVars, pending, call, stacks>>
      /\ call = "retry" /\ ~H!CanServe(pending)
  BY DEF RetryFails
<1>2. FP!IInv' /\ HP!HInv' /\ HP!AllListed'
  BY <1>1, FrameSteps, HeapSteps DEF MemInv
<1>3. CallProper' /\ PagesApart' /\ FreshHead'
  BY <1>1 DEF MemInv, CallProper, PagesApart, FreshHead, frameVars, heapVars, FP!Present
<1>4. FreshPageSuffices'
  <2> SUFFICES ASSUME 0 \notin added PROVE pending > MaxServable
    BY <1>1 DEF FreshPageSuffices, heapVars, MaxServable
  <2>1. pending \in Nat /\ pending # 0
    BY <1>1, RequestAssumption DEF MemInv, CallProper
  <2>2. ~(pending <= MaxServable)
    BY <1>1, <2>1, FreshServes DEF MemInv, FreshHead
  <2>3. MaxServable \in Int
    BY SameHeap, HP!ReservedRange, HP!BlockCountPositive, PageAssumption, RequestAssumption
       DEF MaxServable
  <2> QED
    BY <2>1, <2>2, <2>3
<1> QED
  BY <1>2, <1>3, <1>4 DEF MemInv

\* Steps of the page allocator alone, and steps within a call that touch neither
\* layer.
LEMMA OtherMemInv ==
    ASSUME 0 \notin Sizes, MemInv,
           \/ Boot \/ mem_init \/ OutOfPages \/ FirstFails
           \/ \E sz \in Sizes : kmalloc(sz)
           \/ UNCHANGED vars
    PROVE  MemInv'
<1>1. UNCHANGED heapVars /\ UNCHANGED stacks /\ UNCHANGED added
  BY DEF Boot, mem_init, OutOfPages, FirstFails, kmalloc, vars, heapVars
<1>2. FP!IInv'
  BY FrameSteps
     DEF MemInv, Boot, mem_init, OutOfPages, FirstFails, kmalloc, vars
<1>3. HP!HInv' /\ HP!AllListed'
  BY <1>1, HeapSteps DEF MemInv
<1>4. PagesApart'
  <2>1. CASE Boot
    BY <1>1, <2>1 DEF MemInv, PagesApart, Boot, F!UnmapIdentity
  <2>2. CASE ~Boot
    <3>1. UNCHANGED page_directory /\ (phase' = "paging" => phase = "paging")
      BY <2>2 DEF mem_init, OutOfPages, FirstFails, kmalloc, vars, frameVars,
                  F!alloc_init, F!AllocBlockFull
    <3> QED
      BY <1>1, <3>1 DEF MemInv, PagesApart, FP!Present
  <2> QED
    BY <2>1, <2>2
<1>5. CallProper' /\ FreshHead' /\ FreshPageSuffices'
  <2>1. CASE UNCHANGED <<pending, call, panic>>
    BY <1>1, <2>1
       DEF MemInv, CallProper, FreshHead, FreshPageSuffices, heapVars, MaxServable
  <2>2. CASE FirstFails
    BY <2>2 DEF FirstFails, Running, MemInv, CallProper, FreshHead, FreshPageSuffices
  <2>3. ASSUME NEW sz \in Sizes, kmalloc(sz)
        PROVE  CallProper' /\ FreshHead' /\ FreshPageSuffices'
    BY <2>3 DEF kmalloc, Running, MemInv, CallProper, FreshHead, FreshPageSuffices
  <2> QED
    BY <2>1, <2>2, <2>3 DEF Boot, mem_init, OutOfPages, vars
<1> QED
  BY <1>2, <1>3, <1>4, <1>5 DEF MemInv

\* MemInv holds in every state of the kernel's memory management (mem.c, heap.c,
\* alloc.c and copy_stack's use of it), provided nobody asks for zero bytes.
THEOREM MemoryInvariance ==
    ASSUME 0 \notin Sizes
    PROVE  Spec => []MemInv
<1>1. MemInv /\ [Next]_vars => MemInv'
  BY MoreMemoryMemInv, StackMemInv, HeapCallMemInv, RetryFailsMemInv, OtherMemInv
     DEF Next, Halted
<1> QED
  BY <1>1, InitMemInv, PTL DEF Spec

\* Heap superblocks, thread stacks and the kernel never share a page or a frame:
\* the page alloc_block zeroes and returns is nobody else's.
THEOREM EveryPageOnePurpose ==
    ASSUME 0 \notin Sizes
    PROVE  Spec => []OnePurposePerPage
<1>1. MemInv => OnePurposePerPage
  BY SameFrameAlloc DEF MemInv, PagesApart, OnePurposePerPage, FP!IInv
<1> QED
  BY <1>1, MemoryInvariance, PTL

\* Until page 0 becomes a superblock the heap's list leads to every page kmalloc
\* ever gave it.
THEOREM HeapKeepsItsPages ==
    ASSUME 0 \notin Sizes
    PROVE  Spec => []HeapRemembers
<1>1. MemInv => HeapRemembers
  BY DEF MemInv, HP!AllListed, HP!Listed, HeapRemembers
<1> QED
  BY <1>1, MemoryInvariance, PTL

\* Until then kmalloc's panic "Heap Allocation Failed!" means the request was
\* larger than any superblock can serve; one retry with a fresh page is enough
\* for all others.
THEOREM OneRetryIsEnough ==
    ASSUME 0 \notin Sizes
    PROVE  Spec => []FreshPageSuffices
<1>1. MemInv => FreshPageSuffices
  BY DEF MemInv
<1> QED
  BY <1>1, MemoryInvariance, PTL
=============================================================================
