----------------------------- MODULE FrameAlloc -----------------------------
(***************************************************************************)
(* The 4 MB page allocator (kernel/mm/alloc.c) and the page directory it    *)
(* inherits from the boot code (kernel/x86/boot.asm).                       *)
(*                                                                         *)
(* An address is abstracted to the number of its 4 MB page.  The 32-bit     *)
(* address space is exactly NUM_FRAMES pages, so `virtual_addr += PAGE_SIZE`*)
(* wraps to page 0 after page NUM_FRAMES - 1, and                           *)
(* (virtual_addr / PAGE_SIZE) % NUM_FRAMES is the page number itself.       *)
(***************************************************************************)
EXTENDS Integers, FiniteSets

CONSTANTS
    NumFrames,    \* NUM_FRAMES: entries of the directory, bits of the bitmap
    KernelIndex   \* KERNEL_INDEX: directory entry of the higher-half kernel

ASSUME NumFramesAssumption == NumFrames \in Nat /\ NumFrames >= 4

\* The kernel entry is neither the identity-mapped entry 0 nor entry 1, and the
\* entry after it, the kernel stack, exists.
ASSUME KernelIndexAssumption == KernelIndex \in 2 .. NumFrames - 2

VARIABLES
    page_directory,  \* page -> frame it maps, or NotPresent
    frame_bitmap,    \* the frames whose bit is set
    virtual_addr,    \* page the next search starts from
    phase            \* how far the machine has come

vars == <<page_directory, frame_bitmap, virtual_addr, phase>>

Pages  == 0 .. NumFrames - 1
Frames == 0 .. NumFrames - 1

\* A directory entry whose PRESENT bit is clear.
NotPresent == -1

\* KPANIC of alloc_block: the machine is halted for good.
Panics == {"no_physical", "no_virtual"}
Phases == {"paging", "higher_half", "ready"} \cup Panics

NextPage(p) == (p + 1) % NumFrames

-----------------------------------------------------------------------------
(* The algorithm, as operators on a page directory and a bitmap.  A         *)
(* definition with a fault in its name is a faulty variant of the one that   *)
(* follows it: what the properties below must notice.                       *)

\* first_free_frame: the lowest clear bit, or none (PAGE_ERR).
PageErr == -1

first_free_frame(bitmap) ==
    IF Frames \subseteq bitmap
    THEN PageErr
    ELSE CHOOSE f \in Frames \ bitmap : \A g \in Frames \ bitmap : f <= g

\* The i-th page the loop of alloc_block looks at.
Probe(va, i) == (va + i) % NumFrames

FirstHoleShortScan(pd, va, i) ==
    /\ i \in 0 .. 1
    /\ pd[Probe(va, i)] = NotPresent
    /\ \A j \in 0 .. i - 1 : pd[Probe(va, j)] # NotPresent

FirstHoleIgnoresPresent(pd, va, i) == i = 0

\* The loop stops at the first page, from va on, whose entry is not present.
FirstHole(pd, va, i) ==
    /\ i \in 0 .. NumFrames - 1
    /\ pd[Probe(va, i)] = NotPresent
    /\ \A j \in 0 .. i - 1 : pd[Probe(va, j)] # NotPresent

-----------------------------------------------------------------------------
(* boot.asm: the directory the kernel is linked with.                      *)
BootDirectory ==
    [p \in Pages |-> CASE p = 0               -> 0
                       [] p = KernelIndex     -> 0
                       [] p = KernelIndex + 1 -> 1
                       [] OTHER               -> NotPresent]

Init ==
    /\ page_directory = BootDirectory
    /\ frame_bitmap = {}
    /\ virtual_addr = 0
    /\ phase = "paging"

UnmapIdentityForgotten ==
    /\ phase = "paging"
    /\ phase' = "higher_half"
    /\ UNCHANGED <<page_directory, frame_bitmap, virtual_addr>>

\* __start: the identity mapping of the first 4 MB is removed.
UnmapIdentity ==
    /\ phase = "paging"
    /\ page_directory' = [page_directory EXCEPT ![0] = NotPresent]
    /\ phase' = "higher_half"
    /\ UNCHANGED <<frame_bitmap, virtual_addr>>

alloc_init ==
    /\ phase = "higher_half"
    /\ virtual_addr' = 1
    /\ frame_bitmap' = {0, 1}
    /\ phase' = "ready"
    /\ UNCHANGED page_directory

(* alloc_block: the search stops at a hole, or has seen every page.        *)

\* A hole was found.  Without a free frame for it the kernel panics ("Could not
\* find a free physical address!"); else the frame is claimed and mapped, and
\* the cursor moves past the page returned.
AllocBlockHole(i) ==
    LET idx == Probe(virtual_addr, i)
        frame_idx == first_free_frame(frame_bitmap)
    IN  /\ phase = "ready"
        /\ FirstHole(page_directory, virtual_addr, i)
        /\ IF frame_idx = PageErr
           THEN /\ phase' = "no_physical"
                /\ virtual_addr' = idx
                /\ UNCHANGED <<page_directory, frame_bitmap>>
           ELSE /\ frame_bitmap' = frame_bitmap \cup {frame_idx}
                /\ page_directory' = [page_directory EXCEPT ![idx] = frame_idx]
                /\ virtual_addr' = NextPage(idx)
                /\ UNCHANGED phase

\* "Could not find a free virtual address!": NumFrames additions of PAGE_SIZE
\* have brought virtual_addr back to where it was.
AllocBlockFull ==
    /\ phase = "ready"
    /\ \A i \in 0 .. NumFrames - 1 : ~FirstHole(page_directory, virtual_addr, i)
    /\ phase' = "no_virtual"
    /\ UNCHANGED <<page_directory, frame_bitmap, virtual_addr>>

\* KPANIC spins in hlt with interrupts off.
Halted == phase \in Panics /\ UNCHANGED vars

Next ==
    \/ UnmapIdentity
    \/ alloc_init
    \/ \E i \in 0 .. NumFrames - 1 : AllocBlockHole(i)
    \/ AllocBlockFull
    \/ Halted

Spec == Init /\ [][Next]_vars

-----------------------------------------------------------------------------
Present == {p \in Pages : page_directory[p] # NotPresent}

TypeOK ==
    /\ page_directory \in [Pages -> Frames \cup {NotPresent}]
    /\ frame_bitmap \subseteq Frames
    /\ virtual_addr \in Pages
    /\ phase \in Phases

\* Once the boot identity mapping is gone (boot.asm) no two pages share a frame:
\* a frame alloc_block hands out is neither the kernel's, nor its stack's, nor
\* one handed out before, wherever the wrapping cursor found the hole.
NoSharedFrame ==
    phase # "paging" =>
        \A p, q \in Present :
            page_directory[p] = page_directory[q] => p = q

\* The bitmap and the directory, two records of the same fact that alloc_init
\* and alloc_block keep separately, never drift apart.
BitmapExact ==
    phase \notin {"paging", "higher_half"} =>
        frame_bitmap = {page_directory[p] : p \in Present}

\* A frame is handed out at most once, never while it is the kernel's or its
\* stack's, and its bit is set exactly while some page maps it (alloc_init,
\* alloc_block).
FramesExact == NoSharedFrame /\ BitmapExact

\* alloc_block's first panic is dead code: as long as the search finds a hole in
\* the directory there is a free frame for it.
NoPhysicalPanic == phase # "no_physical"

\* alloc_block gives up on virtual addresses only when memory is exhausted: no
\* hole is missed because of where the cursor stands, and every frame is in use.
PanicOnlyWhenExhausted ==
    phase = "no_virtual" => Present = Pages /\ frame_bitmap = Frames

\* alloc_block panics only for want of memory: never with a page or a frame to
\* spare, wherever the cursor stood.
PanicsHonest == NoPhysicalPanic /\ PanicOnlyWhenExhausted

\* The allocator implements the pool: a step of alloc_block grants a fresh page
\* with a fresh frame and changes no other entry, and a panic means exhaustion.
\* The identity mapping of the boot code is not part of the pool.
Pool == INSTANCE PagePool WITH
            Reserved  <- {<<KernelIndex, 0>>, <<KernelIndex + 1, 1>>},
            mapping   <- {<<p, page_directory[p]>> :
                             p \in IF phase = "paging" THEN Present \ {0}
                                                       ELSE Present},
            exhausted <- phase \in Panics

RefinesPool == Pool!PoolSpec
=============================================================================
