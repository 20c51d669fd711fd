----------------------------- MODULE KernelMem ------------------------------
(***************************************************************************)
(* kmalloc and kfree (kernel/kernel/mem.c): the heap on top of the page     *)
(* allocator, which thread stacks (sched/task.c) draw from as well.         *)
(*                                                                         *)
(* A call of kmalloc that has to grow the heap is three steps: the first    *)
(* memheap_alloc fails, more_memory adds a page, memheap_alloc is retried.  *)
(* No other memory operation comes between them: the kernel allocates with  *)
(* interrupts off or before any handler that allocates is registered.       *)
(***************************************************************************)
EXTENDS Integers, Sequences, FiniteSets

CONSTANTS
    NumFrames, KernelIndex,  \* see FrameAlloc
    HeaderSize,              \* sizeof(memblock_t)
    PageSize,                \* PAGE_SIZE
    BlockSize,               \* 16 in more_memory
    Sizes                    \* sizes given to kmalloc

ASSUME FrameAssumption ==
    NumFrames \in Nat /\ NumFrames >= 4 /\ KernelIndex \in 2 .. NumFrames - 2

\* A page holds the header of a superblock and at least one block.
ASSUME PageAssumption ==
    /\ BlockSize \in Nat \ {0} /\ HeaderSize \in Nat /\ PageSize \in Nat
    /\ PageSize >= HeaderSize + BlockSize

ASSUME RequestAssumption == Sizes \subseteq Nat

VARIABLES
    page_directory, frame_bitmap, virtual_addr, phase,  \* see FrameAlloc
    chain, bitmap, used, added, live,                   \* see Heap
    pending,  \* size of the kmalloc call under way, or NoCall
    call,     \* where that call is
    panic,    \* kmalloc's own panics, or "none"
    stacks    \* history: pages thread stacks were given

frameVars == <<page_directory, frame_bitmap, virtual_addr, phase>>
heapVars  == <<chain, bitmap, used, added, live>>
vars      == <<frameVars, heapVars, pending, call, panic, stacks>>

F == INSTANCE FrameAlloc

\* A superblock is a page; page 0 is address 0, the end of the list.
H == INSTANCE Heap WITH
        Superblocks <- F!Pages, NULL <- 0, TotalSize <- PageSize - HeaderSize

NoCall == -1

Running == panic = "none" /\ phase = "ready"

\* The largest request a fresh superblock can serve.
MaxServable == (H!BlockCount - H!Reserved) * BlockSize

-----------------------------------------------------------------------------
(* A definition with a fault in its name (NotAdded, Forever,                 *)
(* Unclaimed) is a faulty variant of the one that follows it.                *)

Init ==
    /\ F!Init
    /\ H!Init
    /\ pending = NoCall
    /\ call = "idle"
    /\ panic = "none"
    /\ stacks = {}

\* boot.asm, before the kernel proper.
Boot == F!UnmapIdentity /\ UNCHANGED <<heapVars, pending, call, panic, stacks>>

\* mem_init: memheap_init (the heap is empty already) and alloc_init.
mem_init == F!alloc_init /\ UNCHANGED <<heapVars, pending, call, panic, stacks>>

\* kmalloc is entered; a request above PAGE_SIZE panics.
kmalloc(sz) ==
    /\ Running /\ call = "idle"
    /\ pending' = sz
    /\ IF sz > PageSize
       THEN panic' = "bad_size" /\ UNCHANGED call
       ELSE call' = "first" /\ UNCHANGED panic
    /\ UNCHANGED <<frameVars, heapVars, stacks>>

\* memheap_alloc, first or second time, returns a block.
Served ==
    /\ Running /\ call \in {"first", "retry"}
    /\ H!memheap_alloc(pending)
    /\ pending' = NoCall
    /\ call' = "idle"
    /\ UNCHANGED <<frameVars, panic, stacks>>

\* The first memheap_alloc returns NULL.
FirstFails ==
    /\ Running /\ call = "first"
    /\ ~H!CanServe(pending)
    /\ call' = "grow"
    /\ UNCHANGED <<frameVars, heapVars, pending, panic, stacks>>

more_memory_NotAdded ==
    /\ Running /\ call = "grow"
    /\ \E i \in 0 .. NumFrames - 1 : F!AllocBlockHole(i)
    /\ call' = "retry"
    /\ UNCHANGED <<heapVars, pending, panic, stacks>>

\* more_memory: alloc_block, then memheap_add_block of the page it returned.
more_memory ==
    /\ Running /\ call = "grow"
    /\ \E i \in 0 .. NumFrames - 1 :
          /\ F!AllocBlockHole(i)
          /\ H!memheap_add_block(F!Probe(virtual_addr, i))
    /\ call' = "retry"
    /\ UNCHANGED <<pending, panic, stacks>>

RetryForever ==
    /\ Running /\ call = "retry"
    /\ ~H!CanServe(pending)
    /\ UNCHANGED vars

\* The second memheap_alloc returns NULL: "Heap Allocation Failed!"
RetryFails ==
    /\ Running /\ call = "retry"
    /\ ~H!CanServe(pending)
    /\ panic' = "heap_failed"
    /\ UNCHANGED <<frameVars, heapVars, pending, call, stacks>>

\* alloc_block inside more_memory, or for a stack, finds no page and panics.
OutOfPages ==
    /\ Running /\ call \in {"grow", "idle"}
    /\ F!AllocBlockFull
    /\ UNCHANGED <<heapVars, pending, call, panic, stacks>>

kfree(a) ==
    /\ Running /\ call = "idle"
    /\ H!memheap_free(a)
    /\ UNCHANGED <<frameVars, pending, call, panic, stacks>>

copy_stack_Unclaimed ==
    /\ Running /\ call = "idle"
    /\ stacks' = stacks \cup {virtual_addr}
    /\ UNCHANGED <<frameVars, heapVars, pending, call, panic>>

\* copy_stack takes a page of its own for a thread's stack.
copy_stack_alloc ==
    /\ Running /\ call = "idle"
    /\ \E i \in 0 .. NumFrames - 1 :
          /\ F!AllocBlockHole(i)
          /\ stacks' = stacks \cup {F!Probe(virtual_addr, i)}
    /\ UNCHANGED <<heapVars, pending, call, panic>>

Halted == (panic # "none" \/ phase \in F!Panics) /\ UNCHANGED vars

Next ==
    \/ Boot
    \/ mem_init
    \/ \E sz \in Sizes : kmalloc(sz)
    \/ Served \/ FirstFails \/ more_memory \/ RetryFails \/ OutOfPages
    \/ \E a \in live : kfree(a)
    \/ copy_stack_alloc
    \/ Halted

\* A call under way is code the CPU is executing: it goes on.
Fairness == WF_vars(Served \/ FirstFails \/ more_memory \/ RetryFails)
            /\ WF_vars(call = "grow" /\ OutOfPages)

Spec == Init /\ [][Next]_vars /\ Fairness

-----------------------------------------------------------------------------
\* A page serves one purpose: alloc_block, which zeroes the page it returns,
\* never returns one that holds a superblock, a thread's stack or the kernel.
OnePurposePerPage ==
    /\ added \cap stacks = {}
    /\ {KernelIndex, KernelIndex + 1} \cap (added \cup stacks) = {}
    /\ added \cup stacks \subseteq F!Present
    /\ F!NoSharedFrame

\* As long as address 0 has not become a superblock, the list still leads to
\* every superblock, so every live allocation can be freed.
HeapRemembers ==
    0 \notin added => added = {chain[k] : k \in 1 .. Len(chain)}

\* ... and kmalloc fails ("Heap Allocation Failed!") only for a request no
\* superblock can ever serve: a fresh page is always enough for the others.
FreshPageSuffices ==
    panic = "heap_failed" /\ 0 \notin added => pending > MaxServable

\* kmalloc does not hang: a call returns, or the kernel panics.
KmallocEnds ==
    (call # "idle") ~> (call = "idle" \/ panic # "none" \/ phase \in F!Panics)

\* alloc_init's comment, "0x0 is commonly used for NULL": no memory is handed
\* out at 0, so the list, which ends at NULL, never loses its superblocks.
HeapNeverForgets == added = {chain[k] : k \in 1 .. Len(chain)}
=============================================================================
