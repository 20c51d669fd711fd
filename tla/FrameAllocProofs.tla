-------------------------- MODULE FrameAllocProofs --------------------------
(***************************************************************************)
(* For every directory size and kernel position: the page allocator keeps   *)
(* its types, never shares a frame, keeps bitmap and directory in step,     *)
(* never runs into its first panic, and implements PagePool.                *)
(***************************************************************************)
EXTENDS FrameAlloc, FiniteSetTheorems, TLAPS

\* The strengthening that makes the safety properties inductive: while the boot
\* code runs, the directory is exactly the one it was linked with.
BootExact ==
    /\ phase = "paging" => page_directory = BootDirectory
    /\ phase = "higher_half" =>
          page_directory = [BootDirectory EXCEPT ![0] = NotPresent]

KernelMapped ==
    /\ page_directory[KernelIndex] = 0
    /\ page_directory[KernelIndex + 1] = 1

IInv ==
    /\ TypeOK
    /\ BootExact
    /\ KernelMapped
    /\ NoSharedFrame
    /\ BitmapExact
    /\ NoPhysicalPanic
    /\ PanicOnlyWhenExhausted

-----------------------------------------------------------------------------
\* Every non-empty set of naturals has a least element.
LEMMA NatLeast ==
    ASSUME NEW S, S \subseteq Nat, S # {}
    PROVE  \E x \in S : \A y \in S : x <= y
<1>1. PICK x \in S : \A y \in S : ~(<<y, x>> \in OpToRel(<, Nat))
  BY NatLessThanWellFounded, WFMin
<1>2. \A y \in S : ~(y < x)
  BY <1>1 DEF OpToRel
<1> QED
  BY <1>2

\* first_free_frame (alloc.c) returns a frame whose bit is clear, or PAGE_ERR
\* when there is none.
LEMMA FirstFreeFrame ==
    ASSUME NEW bitmap \in SUBSET Frames
    PROVE  \/ bitmap = Frames /\ first_free_frame(bitmap) = PageErr
           \/ first_free_frame(bitmap) \in Frames \ bitmap
<1>1. CASE Frames \subseteq bitmap
  BY <1>1 DEF first_free_frame
<1>2. CASE ~(Frames \subseteq bitmap)
  <2>1. Frames \ bitmap # {} /\ Frames \ bitmap \subseteq Nat
    BY <1>2, NumFramesAssumption DEF Frames
  <2>2. \E f \in Frames \ bitmap : \A g \in Frames \ bitmap : f <= g
    BY <2>1, NatLeast
  <2> QED
    BY <1>2, <2>2 DEF first_free_frame
<1> QED
  BY <1>1, <1>2

\* Modular arithmetic of the wrapping cursor.
LEMMA ModFacts ==
    ASSUME NEW x \in 0 .. NumFrames - 1
    PROVE  x % NumFrames = x /\ (x + NumFrames) % NumFrames = x
BY NumFramesAssumption

LEMMA ModRange ==
    ASSUME NEW x \in Nat
    PROVE  x % NumFrames \in 0 .. NumFrames - 1
BY NumFramesAssumption

\* The loop of alloc_block looks at every page, whatever page it starts from.
LEMMA ProbeCoversPages ==
    ASSUME NEW va \in Pages, NEW p \in Pages
    PROVE  \E i \in 0 .. NumFrames - 1 : Probe(va, i) = p
<1>1. CASE va <= p
  <2>1. p - va \in 0 .. NumFrames - 1 /\ va + (p - va) = p
    BY <1>1, NumFramesAssumption DEF Pages
  <2> QED
    BY <2>1, ModFacts DEF Probe, Pages
<1>2. CASE p < va
  <2>1. /\ p - va + NumFrames \in 0 .. NumFrames - 1
        /\ va + (p - va + NumFrames) = p + NumFrames
    BY <1>2, NumFramesAssumption DEF Pages
  <2> QED
    BY <2>1, ModFacts DEF Probe, Pages
<1> QED
  BY <1>1, <1>2, NumFramesAssumption DEF Pages

\* The page alloc_block stops at is a page of the directory.
LEMMA ProbeType ==
    ASSUME NEW va \in Pages, NEW i \in 0 .. NumFrames - 1
    PROVE  Probe(va, i) \in Pages
BY ModRange, NumFramesAssumption DEF Probe, Pages

\* A search that finds no hole has seen a directory without one.
LEMMA NoHoleNoAbsentPage ==
    ASSUME TypeOK,
           \A i \in 0 .. NumFrames - 1 :
              ~FirstHole(page_directory, virtual_addr, i)
    PROVE  Present = Pages
<1> DEFINE Holes == {i \in 0 .. NumFrames - 1 :
                        page_directory[Probe(virtual_addr, i)] = NotPresent}
<1>1. SUFFICES ASSUME NEW p \in Pages, page_directory[p] = NotPresent
               PROVE  FALSE
  BY DEF Present
<1>2. Holes # {} /\ Holes \subseteq Nat
  BY <1>1, ProbeCoversPages, NumFramesAssumption DEF TypeOK
<1>3. PICK i \in Holes : \A j \in Holes : i <= j
  BY <1>2, NatLeast
<1>4. \A j \in 0 .. i - 1 : page_directory[Probe(virtual_addr, j)] # NotPresent
  BY <1>3, NumFramesAssumption
<1> QED
  BY <1>3, <1>4 DEF FirstHole

\* Counting: as long as the directory has a hole, the frames it uses are not
\* all the frames there are.
LEMMA FreeFrameForHole ==
    ASSUME TypeOK, frame_bitmap = {page_directory[p] : p \in Present},
           NEW h \in Pages, page_directory[h] = NotPresent
    PROVE  first_free_frame(frame_bitmap) \in Frames \ frame_bitmap
<1>1. SUFFICES ASSUME frame_bitmap = Frames PROVE FALSE
  BY FirstFreeFrame DEF TypeOK
<1> DEFINE g == [p \in Present |-> page_directory[p]]
<1>2. IsFiniteSet(Pages) /\ Cardinality(Pages) = NumFrames
  BY FS_Interval, NumFramesAssumption DEF Pages
<1>3. Present \subseteq Pages /\ Present # Pages
  BY DEF Present
<1>4. IsFiniteSet(Present) /\ Cardinality(Present) < Cardinality(Pages)
  <2>1. IsFiniteSet(Present) /\ Cardinality(Present) <= Cardinality(Pages)
    BY <1>2, <1>3, FS_Subset
  <2>2. Cardinality(Present) \in Nat /\ Cardinality(Pages) \in Nat
    BY <1>2, <2>1, FS_CardinalityType
  <2>3. Cardinality(Present) # Cardinality(Pages)
    BY <1>2, <1>3, FS_Subset
  <2> QED
    BY <2>1, <2>2, <2>3
<1>5. g \in Surjection(Present, Frames)
  <2>1. g \in [Present -> Frames]
    BY DEF TypeOK, Present
  <2>2. \A f \in Frames : \E p \in Present : g[p] = f
    BY <1>1
  <2> QED
    BY <2>1, <2>2 DEF Surjection
<1>6. Cardinality(Frames) <= Cardinality(Present)
  BY <1>4, <1>5, FS_Surjection
<1>7. Cardinality(Frames) = NumFrames
  BY <1>2 DEF Pages, Frames
<1>8. Cardinality(Present) \in Nat
  BY <1>4, FS_CardinalityType
<1> QED
  BY <1>2, <1>4, <1>6, <1>7, <1>8, NumFramesAssumption

\* The converse count: a directory without holes, no two entries alike, uses
\* every frame.
LEMMA FullDirectoryFullBitmap ==
    ASSUME TypeOK, NoSharedFrame, phase = "ready", Present = Pages,
           frame_bitmap = {page_directory[p] : p \in Present}
    PROVE  frame_bitmap = Frames
<1>1. page_directory \in [Pages -> Frames]
  BY DEF TypeOK, Present
<1>2. page_directory \in Injection(Pages, Frames)
  BY <1>1 DEF NoSharedFrame, Injection, IsInjective
<1>3. IsFiniteSet(Pages) /\ Pages = Frames
  BY FS_Interval, NumFramesAssumption DEF Pages, Frames
<1>4. page_directory \in Surjection(Pages, Frames)
  BY <1>2, <1>3, FS_Injection
<1> QED
  BY <1>1, <1>4 DEF Surjection

-----------------------------------------------------------------------------
LEMMA InitIInv == Init => IInv
<1> SUFFICES ASSUME Init PROVE IInv
  OBVIOUS
<1>1. \A p \in Pages : BootDirectory[p] \in {0, 1, NotPresent}
  BY DEF BootDirectory
<1>2. 0 \in Pages /\ KernelIndex \in Pages /\ KernelIndex + 1 \in Pages
  BY NumFramesAssumption, KernelIndexAssumption DEF Pages
<1>3. TypeOK
  <2>1. BootDirectory \in [Pages -> Frames \cup {NotPresent}]
    BY <1>1, NumFramesAssumption DEF BootDirectory, Frames
  <2> QED
    BY <1>2, <2>1 DEF Init, TypeOK, Phases
<1>4. KernelMapped
  BY <1>2, KernelIndexAssumption DEF Init, KernelMapped, BootDirectory
<1> QED
  BY <1>3, <1>4
     DEF Init, IInv, BootExact, NoSharedFrame, BitmapExact, NoPhysicalPanic,
         PanicOnlyWhenExhausted

\* One step per action; alloc_block's two endings rest on the counting and the
\* coverage lemma.
LEMMA NextIInv == IInv /\ [Next]_vars => IInv'
<1> SUFFICES ASSUME IInv, [Next]_vars PROVE IInv'
  OBVIOUS
<1> USE DEF IInv
<1>0. /\ 0 \in Pages /\ 1 \in Pages
      /\ KernelIndex \in Pages /\ KernelIndex + 1 \in Pages
      /\ 0 # KernelIndex /\ 0 # KernelIndex + 1 /\ KernelIndex # KernelIndex + 1
      /\ 0 \in Frames /\ 1 \in Frames /\ NotPresent \notin Frames
  BY NumFramesAssumption, KernelIndexAssumption DEF Pages, Frames, NotPresent
<1>1. CASE UnmapIdentity
  <2>1. /\ page_directory' = [BootDirectory EXCEPT ![0] = NotPresent]
        /\ phase' = "higher_half"
        /\ UNCHANGED <<frame_bitmap, virtual_addr>>
    BY <1>1 DEF UnmapIdentity, BootExact
  <2>2. \A p \in Pages : page_directory'[p] =
           IF p = KernelIndex THEN 0
           ELSE IF p = KernelIndex + 1 THEN 1 ELSE NotPresent
    BY <1>0, <2>1 DEF BootDirectory
  <2>3. TypeOK'
    <3>1. page_directory' \in [Pages -> Frames \cup {NotPresent}]
      BY <1>0, <1>1 DEF UnmapIdentity, TypeOK
    <3> QED
      BY <2>1, <3>1 DEF TypeOK, Phases
  <2>4. NoSharedFrame'
    BY <2>1, <2>2 DEF NoSharedFrame, Present, NotPresent
  <2>5. KernelMapped'
    BY <1>0, <2>2 DEF KernelMapped
  <2> QED
    BY <2>1, <2>3, <2>4, <2>5
       DEF BootExact, BitmapExact, NoPhysicalPanic, PanicOnlyWhenExhausted
<1>2. CASE alloc_init
  <2>1. \A p \in Pages : page_directory[p] =
           IF p = KernelIndex THEN 0
           ELSE IF p = KernelIndex + 1 THEN 1 ELSE NotPresent
    BY <1>0, <1>2 DEF alloc_init, BootExact, BootDirectory
  <2>2. {page_directory[p] : p \in Present} = {0, 1}
    BY <1>0, <2>1 DEF Present, NotPresent
  <2>3. Present' = Present
    BY <1>2 DEF alloc_init, Present
  <2> QED
    BY <1>0, <1>2, <2>2, <2>3
       DEF alloc_init, TypeOK, Phases, BootExact, KernelMapped, NoSharedFrame,
           BitmapExact, NoPhysicalPanic, PanicOnlyWhenExhausted
<1>3. ASSUME NEW i \in 0 .. NumFrames - 1, AllocBlockHole(i)
      PROVE  IInv'
  <2> DEFINE idx == Probe(virtual_addr, i)
             frame_idx == first_free_frame(frame_bitmap)
  <2>1. idx \in Pages /\ page_directory[idx] = NotPresent
    BY <1>3, ProbeType DEF AllocBlockHole, FirstHole, TypeOK
  <2>2. phase = "ready" /\ frame_bitmap = {page_directory[p] : p \in Present}
    BY <1>3 DEF AllocBlockHole, BitmapExact
  <2>3. frame_idx \in Frames \ frame_bitmap
    BY <2>1, <2>2, FreeFrameForHole
  <2>4. /\ frame_bitmap' = frame_bitmap \cup {frame_idx}
        /\ page_directory' = [page_directory EXCEPT ![idx] = frame_idx]
        /\ virtual_addr' = NextPage(idx)
        /\ phase' = phase
    BY <1>0, <1>3, <2>3 DEF AllocBlockHole, PageErr, NotPresent
  <2>5. Present' = Present \cup {idx} /\ idx \notin Present
    BY <1>0, <2>1, <2>3, <2>4 DEF Present, TypeOK
  <2>6. TypeOK'
    <3>1. NextPage(idx) \in Pages
      BY <2>1, ModRange, NumFramesAssumption DEF NextPage, Pages
    <3> QED
      BY <2>1, <2>3, <2>4, <3>1 DEF TypeOK
  <2>7. KernelMapped'
    BY <1>0, <2>1, <2>4 DEF KernelMapped, TypeOK, NotPresent
  <2>8. \A p \in Present : page_directory'[p] = page_directory[p]
    BY <2>1, <2>4, <2>5 DEF Present, TypeOK
  <2>9. page_directory'[idx] = frame_idx
    BY <2>1, <2>4 DEF TypeOK
  <2>10. NoSharedFrame'
    <3>1. \A p \in Present : page_directory'[p] # frame_idx
      BY <2>2, <2>3, <2>8
    <3>2. \A p, q \in Present :
             page_directory'[p] = page_directory'[q] => p = q
      BY <2>2, <2>8 DEF NoSharedFrame
    <3>3. \A p, q \in Present \cup {idx} :
             page_directory'[p] = page_directory'[q] => p = q
      BY <2>9, <3>1, <3>2
    <3> QED
      BY <2>5, <3>3 DEF NoSharedFrame
  <2>11. frame_bitmap' = {page_directory'[p] : p \in Present'}
    BY <2>2, <2>4, <2>5, <2>8, <2>9
  <2> QED
    BY <2>2, <2>4, <2>6, <2>7, <2>10, <2>11
       DEF BootExact, BitmapExact, NoPhysicalPanic, PanicOnlyWhenExhausted
<1>4. CASE AllocBlockFull
  <2>1. Present = Pages
    BY <1>4, NoHoleNoAbsentPage DEF AllocBlockFull
  <2>2. /\ phase = "ready" /\ phase' = "no_virtual"
        /\ UNCHANGED <<page_directory, frame_bitmap, virtual_addr>>
    BY <1>4 DEF AllocBlockFull
  <2>3. frame_bitmap = {page_directory[p] : p \in Present}
    BY <2>2 DEF BitmapExact
  <2>4. frame_bitmap = Frames
    BY <2>1, <2>2, <2>3, FullDirectoryFullBitmap
  <2>5. Present' = Present
    BY <2>2 DEF Present
  <2> QED
    BY <2>1, <2>2, <2>3, <2>4, <2>5
       DEF TypeOK, Phases, Panics, BootExact, KernelMapped, NoSharedFrame,
           BitmapExact, NoPhysicalPanic, PanicOnlyWhenExhausted
<1>5. CASE UNCHANGED vars
  BY <1>5 DEF vars, TypeOK, BootExact, KernelMapped, NoSharedFrame, Present,
              BitmapExact, NoPhysicalPanic, PanicOnlyWhenExhausted
<1> QED
  BY <1>1, <1>2, <1>3, <1>4, <1>5 DEF Next, Halted

-----------------------------------------------------------------------------
\* IInv, the inductive invariant behind the theorems below, holds in every state of
\* the allocator (alloc_init, alloc_block) and of the boot code before it.
THEOREM Invariance == Spec => []IInv
BY InitIInv, NextIInv, PTL DEF Spec

\* alloc.c keeps the page directory, the bitmap and the cursor well typed: the
\* cursor stays inside the address space however often it wraps.
THEOREM TypeCorrect == Spec => []TypeOK
BY Invariance, PTL DEF IInv

\* Whatever the size of the directory, no two pages ever share a frame and the
\* bitmap is the set of frames the directory maps (alloc_init, alloc_block).
THEOREM FramesAreExact == Spec => []FramesExact
BY Invariance, PTL DEF IInv, FramesExact

\* Of alloc_block's two panics the one about physical addresses cannot happen,
\* and the one about virtual addresses means every page and frame is in use.
THEOREM PanicsAreHonest == Spec => []PanicsHonest
BY Invariance, PTL DEF IInv, PanicsHonest

-----------------------------------------------------------------------------
(* Refinement.                                                             *)
Mapped ==
    {<<p, page_directory[p]>> :
        p \in IF phase = "paging" THEN Present \ {0} ELSE Present}

ReservedPairs == {<<KernelIndex, 0>>, <<KernelIndex + 1, 1>>}

LEMMA InitRefines == Init => Pool!PoolInit
<1> SUFFICES ASSUME Init PROVE Pool!PoolInit
  OBVIOUS
<1>1. /\ 0 \in Pages /\ KernelIndex \in Pages /\ KernelIndex + 1 \in Pages
      /\ 0 # KernelIndex /\ 0 # KernelIndex + 1 /\ KernelIndex # KernelIndex + 1
  BY NumFramesAssumption, KernelIndexAssumption DEF Pages
<1>2. Present \ {0} = {KernelIndex, KernelIndex + 1}
  BY <1>1 DEF Init, Present, BootDirectory, NotPresent
<1>3. page_directory[KernelIndex] = 0 /\ page_directory[KernelIndex + 1] = 1
  BY <1>1 DEF Init, BootDirectory
<1>4. Mapped = ReservedPairs
  BY <1>2, <1>3 DEF Init, Mapped, ReservedPairs
<1>5. (phase \in Panics) = FALSE
  BY DEF Init, Panics
<1> QED
  BY <1>4, <1>5 DEF Pool!PoolInit, Mapped, ReservedPairs

LEMMA StepRefines ==
    IInv /\ [Next]_vars => [Pool!PoolNext]_(Pool!poolVars)
<1> SUFFICES ASSUME IInv, [Next]_vars
             PROVE  Pool!PoolNext \/ UNCHANGED Pool!poolVars
  OBVIOUS
<1> USE DEF IInv
<1>0. 0 \in Pages /\ NotPresent \notin Frames
  BY NumFramesAssumption DEF Pages, Frames, NotPresent
<1>1. CASE UnmapIdentity
  <2>1. /\ phase = "paging" /\ phase' = "higher_half"
        /\ page_directory' = [page_directory EXCEPT ![0] = NotPresent]
    BY <1>1 DEF UnmapIdentity
  <2>2. Present' = Present \ {0}
    BY <1>0, <2>1 DEF Present, TypeOK
  <2>3. \A p \in Present' : page_directory'[p] = page_directory[p]
    BY <2>1, <2>2 DEF Present, TypeOK
  <2>4. Mapped' = Mapped
    BY <2>1, <2>2, <2>3 DEF Mapped
  <2>5. (phase \in Panics)' = (phase \in Panics)
    BY <2>1 DEF Panics
  <2> QED
    BY <2>4, <2>5 DEF Pool!poolVars, Mapped
<1>2. CASE alloc_init
  <2>1. Mapped' = Mapped /\ (phase \in Panics)' = (phase \in Panics)
    BY <1>2 DEF alloc_init, Mapped, Present, Panics
  <2> QED
    BY <2>1 DEF Pool!poolVars, Mapped
<1>3. ASSUME NEW i \in 0 .. NumFrames - 1, AllocBlockHole(i)
      PROVE  Pool!Grant
  <2> DEFINE idx == Probe(virtual_addr, i)
             frame_idx == first_free_frame(frame_bitmap)
  <2>1. idx \in Pages /\ page_directory[idx] = NotPresent
    BY <1>3, ProbeType DEF AllocBlockHole, FirstHole, TypeOK
  <2>2. phase = "ready" /\ frame_bitmap = {page_directory[p] : p \in Present}
    BY <1>3 DEF AllocBlockHole, BitmapExact
  <2>3. frame_idx \in Frames \ frame_bitmap
    BY <2>1, <2>2, FreeFrameForHole
  <2>4. /\ page_directory' = [page_directory EXCEPT ![idx] = frame_idx]
        /\ phase' = phase
    BY <1>0, <1>3, <2>3 DEF AllocBlockHole, PageErr, NotPresent
  <2>5. Present' = Present \cup {idx} /\ idx \notin Present
    BY <1>0, <2>1, <2>3, <2>4 DEF Present, TypeOK
  <2>6. /\ \A p \in Present : page_directory'[p] = page_directory[p]
        /\ page_directory'[idx] = frame_idx
    BY <2>1, <2>4, <2>5 DEF Present, TypeOK
  <2>7. Mapped' = Mapped \cup {<<idx, frame_idx>>}
    BY <2>2, <2>4, <2>5, <2>6 DEF Mapped
  <2>8. Mapped = {<<p, page_directory[p]>> : p \in Present}
    BY <2>2 DEF Mapped
  <2>9. idx \notin {m[1] : m \in Mapped}
    BY <2>5, <2>8
  <2>10. frame_idx \notin {m[2] : m \in Mapped}
    BY <2>2, <2>3, <2>8
  <2>11. ~(phase \in Panics) /\ (phase \in Panics)' = (phase \in Panics)
    BY <2>2, <2>4 DEF Panics
  <2> HIDE DEF idx, frame_idx
  <2>12. \E p \in Pages \ {m[1] : m \in Mapped},
            f \in Frames \ {m[2] : m \in Mapped} :
               Mapped' = Mapped \cup {<<p, f>>}
    BY <2>1, <2>3, <2>7, <2>9, <2>10
  <2> QED
    BY <2>11, <2>12 DEF Pool!Grant, Pool!Taken, Pool!Claimed, Mapped
<1>4. CASE AllocBlockFull
  <2>1. Present = Pages
    BY <1>4, NoHoleNoAbsentPage DEF AllocBlockFull
  <2>2. /\ phase = "ready" /\ phase' = "no_virtual"
        /\ UNCHANGED page_directory
    BY <1>4 DEF AllocBlockFull
  <2>3. Mapped' = Mapped /\ Mapped = {<<p, page_directory[p]>> : p \in Present}
    BY <2>2 DEF Mapped, Present
  <2>4. Pages \subseteq {m[1] : m \in Mapped}
    <3> SUFFICES ASSUME NEW p \in Pages PROVE \E m \in Mapped : m[1] = p
      OBVIOUS
    <3>1. <<p, page_directory[p]>> \in Mapped
      BY <2>1, <2>3
    <3> QED
      BY <3>1
  <2>5. ~(phase \in Panics) /\ (phase \in Panics)' = TRUE
    BY <2>2 DEF Panics
  <2>6. Pool!Exhaust
    BY <2>3, <2>4, <2>5 DEF Pool!Exhaust, Pool!Taken, Mapped
  <2> QED
    BY <2>6 DEF Pool!PoolNext
<1>5. CASE UNCHANGED vars
  <2>1. Mapped' = Mapped /\ (phase \in Panics)' = (phase \in Panics)
    BY <1>5 DEF vars, Mapped, Present
  <2> QED
    BY <2>1 DEF Pool!poolVars, Mapped
<1> QED
  BY <1>1, <1>2, <1>3, <1>4, <1>5 DEF Next, Halted, Pool!PoolNext

\* The allocator of alloc.c, cursor, bitmap and all, implements the pool: every
\* grant is a fresh page with a fresh frame, no grant is ever revoked, and the
\* kernel panics only when no page is left.
THEOREM ImplementsPool == Spec => RefinesPool
BY InitRefines, StepRefines, Invariance, PTL DEF Spec, RefinesPool, Pool!PoolSpec
=============================================================================
