----------------------------- MODULE LoopProofs -----------------------------
(***************************************************************************)
(* The two loops that are modelled a step at a time.                        *)
(*                                                                         *)
(* For any bitmap of any length: the scan of memheap_alloc finds the first   *)
(* fit and reads no further than the byte after the bitmap.  For any page    *)
(* size and any depth of calls: move_stack and copy_stack put every word at  *)
(* its old distance from the top, and the stack copy_stack makes is the      *)
(* image of its parent's, pointers included.                                 *)
(***************************************************************************)
EXTENDS HeapScan, StackCopy, TLAPS

-----------------------------------------------------------------------------
(* The scan of memheap_alloc.                                              *)

\* What holds between two steps of the loops: nothing before i fits, the n
\* blocks counted from i on are free, and there are no more of them than needed.
ScanInv ==
    /\ TypeOK
    /\ pc # "done" => found = NoFit /\ \A j \in 0 .. i - 1 : ~FitsAt(j)
    /\ pc = "inner" => /\ i < block_count
                       /\ bitmap[i] = FREE
                       /\ i + n <= block_count
                       /\ n <= blocks_needed
                       /\ \A b \in i .. i + n - 1 : bitmap[b] = FREE
    /\ ScanIsFirstFit

LEMMA InitScanInv == ScanInit => ScanInv
BY BlockCountAssumption, NeededAssumption
   DEF ScanInit, ScanInv, TypeOK, ScanIsFirstFit, Indices, NoFit

\* A run of n free blocks at i that a used block or the end cuts short of
\* blocks_needed offers no fit to any of its blocks.
LEMMA ShortRunHasNoFit ==
    ASSUME TypeOK, pc = "inner", i < block_count, i + n <= block_count,
           n < blocks_needed, ~InnerGuard
    PROVE  \A j \in i .. i + n - 1 : ~FitsAt(j)
<1> SUFFICES ASSUME NEW j \in i .. i + n - 1, FitsAt(j) PROVE FALSE
  OBVIOUS
<1>1. /\ i \in Nat /\ n \in Nat /\ block_count \in Nat /\ blocks_needed \in Nat
      /\ j \in Int
  BY BlockCountAssumption, NeededAssumption DEF TypeOK
<1>2. i + n \in j .. j + blocks_needed - 1 /\ i + n < block_count
  BY <1>1 DEF FitsAt
<1>3. bitmap[i + n] = FREE
  BY <1>2 DEF FitsAt
<1> QED
  BY <1>1, <1>2, <1>3 DEF InnerGuard

LEMMA NextScanInv == ScanInv /\ [ScanNext]_scanVars => ScanInv'
<1> SUFFICES ASSUME ScanInv, [ScanNext]_scanVars PROVE ScanInv'
  OBVIOUS
<1> USE BlockCountAssumption, NeededAssumption DEF ScanInv
<1>0. /\ i \in Nat /\ n \in Nat /\ block_count \in Nat
      /\ blocks_needed \in Nat /\ blocks_needed > 0
  BY DEF TypeOK
<1>1. CASE OuterUsed
  <2>1. ~FitsAt(i)
    BY <1>0, <1>1 DEF OuterUsed, FitsAt
  <2>2. \A j \in 0 .. i : ~FitsAt(j)
    BY <1>0, <1>1, <2>1 DEF OuterUsed
  <2> QED
    BY <1>0, <1>1, <2>2 DEF OuterUsed, TypeOK, FitsAt, ScanIsFirstFit
<1>2. CASE OuterFree
  BY <1>0, <1>2 DEF OuterFree, TypeOK, FitsAt, ScanIsFirstFit
<1>3. CASE OuterEnd
  <2>1. \A j \in 0 .. block_count - 1 : ~FitsAt(j)
    BY <1>0, <1>3 DEF OuterEnd, TypeOK
  <2> QED
    BY <1>0, <1>3, <2>1 DEF OuterEnd, TypeOK, FitsAt, ScanIsFirstFit
<1>4. CASE InnerCount
  BY <1>0, <1>4 DEF InnerCount, InnerGuard, TypeOK, FitsAt, ScanIsFirstFit
<1>5. CASE InnerFound
  <2>1. FitsAt(i)
    BY <1>0, <1>5 DEF InnerFound, FitsAt
  <2>2. i # NoFit /\ i \in Indices
    BY <1>0, <1>5 DEF InnerFound, NoFit, Indices
  <2> QED
    BY <1>0, <1>5, <2>1, <2>2 DEF InnerFound, TypeOK, FitsAt, ScanIsFirstFit
<1>6. CASE InnerSkip
  <2>1. n < blocks_needed /\ i + n <= block_count /\ i < block_count
    BY <1>0, <1>6 DEF InnerSkip
  <2>2. \A j \in i .. i + n - 1 : ~FitsAt(j)
    BY <1>6, <2>1, ShortRunHasNoFit DEF InnerSkip
  <2>3. i' = i + n
    BY <1>0, <1>6 DEF InnerSkip, Skip
  <2>4. \A j \in 0 .. i' - 1 : ~FitsAt(j)
    BY <1>0, <1>6, <2>2, <2>3 DEF InnerSkip
  <2> QED
    BY <1>0, <1>6, <2>1, <2>3, <2>4 DEF InnerSkip, TypeOK, FitsAt, ScanIsFirstFit
<1>7. CASE UNCHANGED scanVars
  BY <1>7 DEF scanVars, TypeOK, FitsAt, ScanIsFirstFit, Indices
<1> QED
  BY <1>1, <1>2, <1>3, <1>4, <1>5, <1>6, <1>7 DEF ScanNext, Done

\* The scan of memheap_alloc is first fit, for every bitmap of every size.
THEOREM ScanFindsFirstFit == ScanSpec => []ScanIsFirstFit
BY InitScanInv, NextScanInv, PTL DEF ScanSpec, ScanInv

\* It reads at most one byte past the bitmap.
THEOREM ScanReadsStayNear == ScanSpec => []ReadsStayNear
<1>1. ScanInv => ReadsStayNear
  BY DEF ScanInv, ReadsStayNear
<1> QED
  BY <1>1, InitScanInv, NextScanInv, PTL DEF ScanSpec

-----------------------------------------------------------------------------
(* The copies of move_stack and copy_stack.                                *)

\* A stack below top in the memory m, with e in esp and b in ebp: d frames of two
\* words each, whose upper words lead from one to the next and whose words point
\* upwards, if they point anywhere.
OnStack(m, top, e, b) ==
    \E d \in 0 .. MaxFrames :
        /\ e = top - 2 * d
        /\ b = IF d = 0 THEN 0 ELSE e + 1
        /\ \A k \in 1 .. d : m[top - 2 * k + 1] = IF k = 1 THEN 0 ELSE top - 2 * k + 3
        /\ \A a \in e .. top - 1 : m[a] = 0 \/ m[a] \in a .. top - 1

\* The words below lo are copied: those that point nowhere as they are, those of
\* copy_stack as Image wants them.
CopiedBelow(lo) ==
    \A a \in from.esp .. lo - 1 :
        /\ mem[a] = 0 => mem[a + Shift] = 0
        /\ call = "copy_stack" => mem[a + Shift] = Image(mem[a])

CopyInv ==
    /\ call \in {"move_stack", "copy_stack"}
    /\ phase \in {"calls", "copying", "done"}
    /\ mem \in [Space -> Nat]
    /\ phase = "calls" => OnStack(mem, Top, esp, ebp)
    /\ phase # "calls" => /\ OnStack(mem, Top, from.esp, from.ebp)
                          /\ Top - from.esp >= 4
                          /\ addr \in from.esp .. Top
                          /\ CopiedBelow(addr)
    /\ phase = "copying" => esp = from.esp /\ ebp = from.ebp
    /\ phase = "done" =>
          /\ addr = Top
          /\ call = "move_stack" => esp = from.esp + Shift /\ ebp = from.ebp + Shift
          /\ call = "copy_stack" => /\ ebp = from.ebp + 2
                                    /\ child.esp = from.ebp + 1 + Shift
                                    /\ child.ebp = ebp + Shift

-----------------------------------------------------------------------------
(* Where the stacks lie.                                                   *)

LEMMA Geometry ==
    ASSUME call \in {"move_stack", "copy_stack"}
    PROVE  /\ Top \in Nat /\ new_stack \in Nat
           /\ Shift = PAGE_SIZE + 1
           /\ new_stack + PAGE_SIZE = Top + Shift
           /\ Top >= 2 * MaxFrames + 2 /\ PAGE_SIZE >= 2 * MaxFrames + 1
           /\ Top + Shift - 1 <= Child + PAGE_SIZE - 1
           /\ Child \in Nat
           /\ call = "copy_stack" => /\ Top = Main + PAGE_SIZE
                                     /\ new_stack = Main + Shift
                                     /\ Main \in Nat
                                     /\ Top + Shift = Child + PAGE_SIZE
BY SizeAssumption DEF Top, new_stack, Shift, STACK_START, Main, Child

LEMMA StackFacts ==
    ASSUME call \in {"move_stack", "copy_stack"}, NEW e, NEW b, OnStack(mem, Top, e, b)
    PROVE  /\ e \in 2 .. Top /\ b \in Nat
           /\ Top - e <= 2 * MaxFrames
           /\ call = "copy_stack" => e > Main
           /\ \A a \in e .. Top - 1 : /\ a \in Space /\ a + Shift \in Space
                                      /\ a + Shift >= Top
                                      /\ mem[a] = 0 \/ mem[a] \in a .. Top - 1
           /\ e # Top => b = e + 1 /\ b \in e .. Top - 1
           /\ Top - e >= 4 => mem[b] = b + 2 /\ b + 2 <= Top - 1
<1>1. PICK d \in 0 .. MaxFrames :
        /\ e = Top - 2 * d
        /\ b = IF d = 0 THEN 0 ELSE e + 1
        /\ \A k \in 1 .. d : mem[Top - 2 * k + 1] = IF k = 1 THEN 0 ELSE Top - 2 * k + 3
        /\ \A a \in e .. Top - 1 : mem[a] = 0 \/ mem[a] \in a .. Top - 1
    BY DEF OnStack
<1> HIDE DEF OnStack
<1>2. e \in 2 .. Top /\ b \in Nat /\ Top - e <= 2 * MaxFrames /\ d \in Nat
    BY <1>1, Geometry, SizeAssumption
<1>3. call = "copy_stack" => e > Main
    BY <1>2, Geometry, SizeAssumption
<1>4. \A a \in e .. Top - 1 : a \in Space /\ a + Shift \in Space /\ a + Shift >= Top
    BY <1>2, Geometry, SizeAssumption DEF Space
<1>5. e # Top => b = e + 1 /\ b \in e .. Top - 1
    BY <1>1, <1>2, Geometry
<1>6. ASSUME Top - e >= 4 PROVE mem[b] = b + 2 /\ b + 2 <= Top - 1
    <2>1. d >= 2 /\ d \in 1 .. d /\ b = Top - 2 * d + 1
        BY <1>1, <1>2, <1>6, Geometry
    <2>2. mem[Top - 2 * d + 1] = Top - 2 * d + 3
        BY <1>1, <2>1
    <2>3. Top - 2 * d + 3 = b + 2 /\ b + 2 <= Top - 1
        BY <2>1, <1>2, Geometry
    <2>4. QED
        BY <2>1, <2>2, <2>3
<1>7. QED
    BY <1>1, <1>2, <1>3, <1>4, <1>5, <1>6

\* A write below the stack or beyond it leaves it as it is.
LEMMA StackKept ==
    ASSUME NEW m, NEW w, NEW top \in Nat, NEW e, NEW b,
           OnStack(m, top, e, b), \A a \in e .. top - 1 : w[a] = m[a]
    PROVE  OnStack(w, top, e, b)
<1>1. PICK d \in 0 .. MaxFrames :
        /\ e = top - 2 * d
        /\ b = IF d = 0 THEN 0 ELSE e + 1
        /\ \A k \in 1 .. d : m[top - 2 * k + 1] = IF k = 1 THEN 0 ELSE top - 2 * k + 3
        /\ \A a \in e .. top - 1 : m[a] = 0 \/ m[a] \in a .. top - 1
    BY DEF OnStack
<1>2. \A k \in 1 .. d : top - 2 * k + 1 \in e .. top - 1
    BY <1>1
<1>3. QED
    BY <1>1, <1>2 DEF OnStack

LEMMA InitCopyInv == Init => CopyInv
<1> SUFFICES ASSUME Init PROVE CopyInv
    OBVIOUS
<1>1. OnStack(mem, Top, esp, ebp)
    <2>1. /\ Top \in Nat /\ esp = Top - 2 * 0 /\ ebp = 0 /\ 0 \in 0 .. MaxFrames
          /\ 1 .. 0 = {} /\ esp .. Top - 1 = {}
        BY Geometry, SizeAssumption DEF Init
    <2>2. QED
        BY <2>1 DEF OnStack
<1>2. QED
    BY <1>1 DEF Init, CopyInv

LEMMA CallCopyInv == CopyInv /\ Call => CopyInv'
<1> SUFFICES ASSUME CopyInv, Call PROVE CopyInv'
    OBVIOUS
<1>1. /\ call \in {"move_stack", "copy_stack"} /\ phase = "calls"
      /\ call' = call /\ phase' = "calls" /\ mem \in [Space -> Nat]
      /\ OnStack(mem, Top, esp, ebp) /\ Top - esp < 2 * MaxFrames
      /\ ebp' = esp - 1 /\ esp' = esp - 2
    BY DEF CopyInv, Call
<1>2. Top' = Top
    BY <1>1 DEF Top
<1>3. PICK local \in {0} \cup esp - 2 .. Top - 1 :
        mem' = [mem EXCEPT ![esp - 1] = ebp, ![esp - 2] = local]
    BY DEF Call
<1>4. PICK d \in 0 .. MaxFrames :
        /\ esp = Top - 2 * d
        /\ ebp = IF d = 0 THEN 0 ELSE esp + 1
        /\ \A k \in 1 .. d : mem[Top - 2 * k + 1] = IF k = 1 THEN 0 ELSE Top - 2 * k + 3
        /\ \A a \in esp .. Top - 1 : mem[a] = 0 \/ mem[a] \in a .. Top - 1
    BY <1>1 DEF OnStack
<1>5. /\ Top \in Nat /\ MaxFrames \in Nat /\ d + 1 \in 0 .. MaxFrames
      /\ esp \in Nat /\ ebp \in Nat /\ local \in Nat
      /\ esp - 1 \in Space /\ esp - 2 \in Space
    <2>1. Top \in Nat /\ MaxFrames \in Nat /\ Child + PAGE_SIZE - 1 >= Top
          /\ Child + PAGE_SIZE - 1 \in Int /\ Top >= 2 * MaxFrames + 2
        BY <1>1, Geometry, SizeAssumption
    <2>2. d + 1 \in 0 .. MaxFrames /\ esp \in Nat /\ esp > 2 /\ esp <= Top /\ ebp \in Nat
        BY <1>1, <1>4, <2>1
    <2>3. local \in Nat
        BY <2>1, <2>2
    <2>4. QED
        BY <2>1, <2>2, <2>3 DEF Space
<1>6. mem' \in [Space -> Nat]
    BY <1>1, <1>3, <1>5
<1>7. /\ mem'[esp - 1] = ebp /\ mem'[esp - 2] = local
      /\ \A a \in esp .. Top - 1 : mem'[a] = mem[a]
    <2>1. \A a \in esp .. Top - 1 : a \in Space /\ a # esp - 1 /\ a # esp - 2
        BY <1>1, <1>5, StackFacts
    <2>2. esp - 1 # esp - 2
        BY <1>5
    <2>3. QED
        BY <1>1, <1>3, <1>5, <2>1, <2>2
<1>8. OnStack(mem', Top, esp', ebp')
    <2>1. esp' = Top - 2 * (d + 1) /\ ebp' = esp' + 1 /\ d + 1 # 0
        BY <1>1, <1>4, <1>5
    <2>2. ASSUME NEW k \in 1 .. d + 1
          PROVE  mem'[Top - 2 * k + 1] = IF k = 1 THEN 0 ELSE Top - 2 * k + 3
        <3>1. CASE k = d + 1
            <4>1. Top - 2 * k + 1 = esp - 1 /\ (k # 1 => esp + 1 = Top - 2 * k + 3)
                BY <1>4, <1>5, <3>1
            <4>2. (k = 1) <=> (d = 0)
                BY <1>5, <3>1
            <4>3. QED
                BY <1>4, <1>7, <4>1, <4>2
        <3>2. CASE k \in 1 .. d
            <4>1. Top - 2 * k + 1 \in esp .. Top - 1
                BY <1>4, <1>5, <3>2
            <4>2. QED
                BY <1>4, <1>7, <3>2, <4>1
        <3>3. QED
            BY <1>5, <3>1, <3>2
    <2>3. ASSUME NEW a \in esp - 2 .. Top - 1
          PROVE  mem'[a] = 0 \/ mem'[a] \in a .. Top - 1
        <3>1. CASE a = esp - 2
            BY <1>3, <1>5, <1>7, <3>1
        <3>2. CASE a = esp - 1
            BY <1>4, <1>5, <1>7, <3>2
        <3>3. CASE a \in esp .. Top - 1
            BY <1>4, <1>7, <3>3
        <3>4. QED
            BY <1>5, <3>1, <3>2, <3>3
    <2>4. QED
        BY <1>1, <1>5, <2>1, <2>2, <2>3 DEF OnStack
<1>9. QED
    BY <1>1, <1>2, <1>6, <1>8 DEF CopyInv

LEMMA ReturnCopyInv == CopyInv /\ Return => CopyInv'
<1> SUFFICES ASSUME CopyInv, Return PROVE CopyInv'
    OBVIOUS
<1>1. /\ call \in {"move_stack", "copy_stack"} /\ phase = "calls"
      /\ call' = call /\ phase' = "calls" /\ mem \in [Space -> Nat]
      /\ OnStack(mem, Top, esp, ebp) /\ esp # Top /\ mem' = mem
      /\ esp' = ebp + 1 /\ ebp' = mem[ebp]
    BY DEF CopyInv, Return
<1>2. Top' = Top /\ Top \in Nat
    BY <1>1, Geometry DEF Top
<1>3. PICK d \in 0 .. MaxFrames :
        /\ esp = Top - 2 * d
        /\ ebp = IF d = 0 THEN 0 ELSE esp + 1
        /\ \A k \in 1 .. d : mem[Top - 2 * k + 1] = IF k = 1 THEN 0 ELSE Top - 2 * k + 3
        /\ \A a \in esp .. Top - 1 : mem[a] = 0 \/ mem[a] \in a .. Top - 1
    BY <1>1 DEF OnStack
<1>4. d >= 1 /\ d - 1 \in 0 .. MaxFrames /\ ebp = Top - 2 * d + 1
      /\ esp' = Top - 2 * (d - 1) /\ d \in 1 .. d
    BY <1>1, <1>2, <1>3, SizeAssumption
<1>5. ebp' = IF d - 1 = 0 THEN 0 ELSE esp' + 1
    <2>1. mem[ebp] = IF d = 1 THEN 0 ELSE Top - 2 * d + 3
        BY <1>3, <1>4
    <2>2. QED
        BY <1>1, <1>2, <1>4, <2>1, SizeAssumption
<1>6. OnStack(mem, Top, esp', ebp')
    <2>1. \A k \in 1 .. d - 1 : k \in 1 .. d
        BY <1>4
    <2>2. \A a \in esp' .. Top - 1 : a \in esp .. Top - 1
        BY <1>2, <1>3, <1>4
    <2>3. QED
        BY <1>3, <1>4, <1>5, <2>1, <2>2 DEF OnStack
<1>7. QED
    BY <1>1, <1>2, <1>6 DEF CopyInv

\* Copying one word: it goes beyond the old stack, to the place of its own.
LEMMA CopyWordCopyInv == CopyInv /\ CopyWord => CopyInv'
<1> SUFFICES ASSUME CopyInv, CopyWord PROVE CopyInv'
    OBVIOUS
<1> DEFINE e == from.esp
           word == IF call = "move_stack" THEN RedirectMoved(mem[addr])
                   ELSE RedirectCopied(mem[addr])
<1>1. /\ call \in {"move_stack", "copy_stack"} /\ phase = "copying"
      /\ phase' = "copying" /\ mem \in [Space -> Nat]
      /\ OnStack(mem, Top, from.esp, from.ebp) /\ Top - from.esp >= 4
      /\ addr \in from.esp .. Top /\ addr < Top /\ CopiedBelow(addr)
      /\ esp = from.esp /\ ebp = from.ebp
      /\ mem' = [mem EXCEPT ![Offset(addr)] = word] /\ addr' = addr + 1
      /\ UNCHANGED <<call, esp, ebp, from, child>>
    BY DEF CopyInv, CopyWord
<1>2. Top' = Top /\ Shift' = Shift
    BY <1>1 DEF Top, Shift, new_stack
<1>3. /\ Top \in Nat /\ Shift \in Nat /\ e \in Nat /\ e >= 2 /\ addr \in Nat
      /\ new_stack \in Nat
      /\ addr \in e .. Top - 1 /\ addr + 1 \in e .. Top
    BY <1>1, Geometry, StackFacts, SizeAssumption
<1>4. Offset(addr) = addr + Shift /\ addr + Shift \in Space
    BY <1>1, <1>3, Geometry, StackFacts, SizeAssumption DEF Offset
<1>5. addr \in Space /\ (mem[addr] = 0 \/ mem[addr] \in addr .. Top - 1)
    BY <1>1, <1>3, StackFacts
<1>6. word \in Nat /\ (mem[addr] = 0 => word = 0)
      /\ (call = "copy_stack" => word = Image(mem[addr]))
    <2>1. CASE call = "move_stack"
        BY <1>3, <1>5, <2>1 DEF RedirectMoved
    <2>2. CASE call = "copy_stack"
        <3>1. /\ Top = Main + PAGE_SIZE /\ new_stack = Main + Shift /\ Main \in Nat
              /\ e > Main /\ word = RedirectCopied(mem[addr])
            BY <1>1, <2>2, Geometry, StackFacts
        <3>2. CASE mem[addr] = 0
            BY <1>3, <2>2, <3>1, <3>2 DEF RedirectCopied, Image, OnOld
        <3>3. CASE mem[addr] \in addr .. Top - 1
            <4>1. mem[addr] \in e .. Top - 1 /\ mem[addr] > Main
                  /\ mem[addr] < Main + PAGE_SIZE
                BY <1>3, <3>1, <3>3
            <4>2. word = new_stack + (mem[addr] - Main) /\ Image(mem[addr]) = mem[addr] + Shift
                BY <3>1, <4>1 DEF RedirectCopied, Image, OnOld
            <4>3. QED
                BY <1>3, <2>2, <3>1, <4>1, <4>2
        <3>4. QED
            BY <1>5, <3>2, <3>3
    <2>3. QED
        BY <1>1, <2>1, <2>2
<1> HIDE DEF word
<1>7. mem' \in [Space -> Nat]
    BY <1>1, <1>4, <1>6
<1>8. /\ \A a \in e .. Top - 1 : mem'[a] = mem[a] /\ a \in Space
      /\ mem'[addr + Shift] = word
      /\ \A a \in e .. addr - 1 : mem'[a + Shift] = mem[a + Shift]
    <2>1. \A a \in e .. Top - 1 : a \in Space /\ a # addr + Shift /\ a + Shift \in Space
        BY <1>1, <1>3, StackFacts
    <2>2. \A a \in e .. addr - 1 : a \in e .. Top - 1 /\ a + Shift # addr + Shift
        BY <1>3
    <2>3. QED
        BY <1>1, <1>4, <2>1, <2>2
<1>9. OnStack(mem', Top, from.esp, from.ebp)
    BY <1>1, <1>3, <1>8, StackKept
<1>10. CopiedBelow(addr)'
    <2> SUFFICES ASSUME NEW a \in e .. addr
                 PROVE  /\ mem'[a] = 0 => mem'[a + Shift] = 0
                        /\ call = "copy_stack" => mem'[a + Shift] = Image(mem'[a])
        BY <1>1, <1>2, <1>3 DEF CopiedBelow, Image, OnOld
    <2>1. a \in e .. Top - 1 /\ mem'[a] = mem[a]
        BY <1>3, <1>8
    <2>2. CASE a = addr
        BY <1>6, <1>8, <2>1, <2>2
    <2>3. CASE a \in e .. addr - 1
        BY <1>1, <1>8, <2>1, <2>3 DEF CopiedBelow
    <2>4. QED
        BY <1>3, <2>2, <2>3
<1>11. QED
    BY <1>1, <1>2, <1>3, <1>7, <1>9, <1>10 DEF CopyInv

LEMMA InterruptCopyInv == CopyInv /\ Interrupt => CopyInv'
<1> SUFFICES ASSUME CopyInv, Interrupt PROVE CopyInv'
    OBVIOUS
<1>1. /\ call \in {"move_stack", "copy_stack"} /\ phase = "copying"
      /\ mem \in [Space -> Nat]
      /\ OnStack(mem, Top, from.esp, from.ebp) /\ Top - from.esp >= 4
      /\ addr \in from.esp .. Top /\ CopiedBelow(addr)
      /\ esp = from.esp /\ ebp = from.ebp
      /\ UNCHANGED <<call, esp, ebp, phase, addr, from, child>>
      /\ call = "move_stack"
    BY DEF CopyInv, Interrupt
<1>2. PICK w \in {0, esp, ebp} : mem' = [mem EXCEPT ![esp - 1] = w]
    BY DEF Interrupt
<1>3. Top' = Top /\ Shift' = Shift
    BY <1>1 DEF Top, Shift, new_stack
<1>4. /\ Top \in Nat /\ Shift \in Nat /\ esp \in Nat /\ ebp \in Nat /\ addr \in Nat
    BY <1>1, Geometry, StackFacts, SizeAssumption
<1>5. mem' \in [Space -> Nat]
    <2>1. w \in Nat /\ esp - 1 \in Space
        BY <1>4 DEF Interrupt
    <2>2. QED
        BY <1>1, <1>2, <2>1
<1>6. \A a \in from.esp .. Top - 1 : mem'[a] = mem[a] /\ mem'[a + Shift] = mem[a + Shift]
    <2>1. \A a \in from.esp .. Top - 1 : /\ a \in Space /\ a + Shift \in Space
                                         /\ a # esp - 1 /\ a + Shift # esp - 1
        BY <1>1, <1>4, StackFacts
    <2>2. QED
        BY <1>1, <1>2, <2>1
<1>7. OnStack(mem', Top, from.esp, from.ebp)
    BY <1>1, <1>4, <1>6, StackKept
<1>8. CopiedBelow(addr)'
    <2>1. \A a \in from.esp .. addr - 1 : a \in from.esp .. Top - 1
        BY <1>1, <1>4
    <2>2. QED
        BY <1>1, <1>3, <1>6, <2>1 DEF CopiedBelow
<1>9. QED
    BY <1>1, <1>3, <1>5, <1>7, <1>8 DEF CopyInv

LEMMA DoneCopyInv == CopyInv /\ (SwitchStack \/ ConfigureChild) => CopyInv'
<1> SUFFICES ASSUME CopyInv, SwitchStack \/ ConfigureChild PROVE CopyInv'
    OBVIOUS
<1>1. /\ call \in {"move_stack", "copy_stack"} /\ phase = "copying" /\ phase' = "done"
      /\ mem \in [Space -> Nat] /\ addr = Top
      /\ OnStack(mem, Top, from.esp, from.ebp) /\ Top - from.esp >= 4
      /\ addr \in from.esp .. Top /\ CopiedBelow(addr)
      /\ esp = from.esp /\ ebp = from.ebp
      /\ UNCHANGED <<call, mem, addr, from>>
    BY DEF CopyInv, SwitchStack, ConfigureChild
<1>2. Top' = Top /\ Shift' = Shift
    BY <1>1 DEF Top, Shift, new_stack
<1>3. CopiedBelow(addr)'
    BY <1>1, <1>2 DEF CopiedBelow, Image, OnOld
<1>4. /\ Top \in Nat /\ Shift \in Nat /\ esp \in Nat /\ ebp \in Nat
      /\ new_stack \in Nat /\ new_stack + PAGE_SIZE = Top + Shift
    BY <1>1, Geometry, StackFacts, SizeAssumption
<1>5. CASE SwitchStack
    <2>1. call = "move_stack" /\ Top = STACK_START
        BY <1>5 DEF SwitchStack, Top
    <2>2. esp' = from.esp + Shift /\ ebp' = from.ebp + Shift
        BY <1>1, <1>4, <1>5, <2>1, SizeAssumption DEF SwitchStack
    <2>3. QED
        BY <1>1, <1>2, <1>3, <2>1, <2>2 DEF CopyInv
<1>6. CASE ConfigureChild
    <2>1. /\ call = "copy_stack" /\ mem[ebp] = ebp + 2
          /\ new_stack = Main + Shift /\ Main \in Nat
        BY <1>1, <1>6, Geometry, StackFacts DEF ConfigureChild
    <2>2. /\ esp' = ebp + 1 /\ ebp' = ebp + 2
          /\ child'.esp = (new_stack - Main) + esp' /\ child'.ebp = (new_stack - Main) + ebp'
        BY <1>6, <2>1 DEF ConfigureChild
    <2>3. /\ ebp' = from.ebp + 2
          /\ child'.esp = from.ebp + 1 + Shift
          /\ child'.ebp = ebp' + Shift
        BY <1>1, <1>4, <2>1, <2>2
    <2>4. QED
        BY <1>1, <1>2, <1>3, <2>1, <2>3 DEF CopyInv
<1>7. QED
    BY <1>5, <1>6

LEMMA NextCopyInv == CopyInv /\ [Next]_vars => CopyInv'
<1> SUFFICES ASSUME CopyInv, [Next]_vars PROVE CopyInv'
    OBVIOUS
<1>1. CASE CopyBegins
    <2>1. /\ call \in {"move_stack", "copy_stack"} /\ phase = "calls"
          /\ phase' = "copying" /\ addr' = esp /\ from'.esp = esp /\ from'.ebp = ebp
          /\ mem \in [Space -> Nat] /\ OnStack(mem, Top, esp, ebp) /\ Top - esp >= 4
          /\ UNCHANGED <<call, mem, esp, ebp, child>>
        BY <1>1 DEF CopyInv, CopyBegins
    <2>2. Top' = Top
        BY <2>1 DEF Top
    <2>3. Top \in Nat /\ esp \in Nat /\ esp \in esp .. Top
        BY <2>1, Geometry, StackFacts
    <2>4. CopiedBelow(addr)'
        BY <2>1, <2>3 DEF CopiedBelow
    <2>5. QED
        BY <2>1, <2>2, <2>3, <2>4 DEF CopyInv
<1>2. CASE UNCHANGED vars
    <2>1. Top' = Top /\ Shift' = Shift
        BY <1>2 DEF vars, Top, Shift, new_stack
    <2>2. CopiedBelow(addr) => CopiedBelow(addr)'
        BY <1>2, <2>1 DEF vars, CopiedBelow, Image, OnOld
    <2>3. QED
        BY <1>2, <2>1, <2>2 DEF vars, CopyInv
<1>3. QED
    BY <1>1, <1>2, CallCopyInv, ReturnCopyInv, CopyWordCopyInv, InterruptCopyInv,
       DoneCopyInv DEF Next, Finished

\* CopyInv, the invariant behind the two theorems below, holds in every state.
THEOREM CopyInvariance == Spec => []CopyInv
BY InitCopyInv, NextCopyInv, PTL DEF Spec

\* Whatever was called before, every word that is no pointer arrives at its old
\* distance from the top, and the machine, or the child, goes on in the copied
\* frames (move_stack, copy_stack, thread_create).
THEOREM CopyPlacesAlike == Spec => []PlacedAlike
<1>1. CopyInv => PlacedAlike
    <2> SUFFICES ASSUME CopyInv, phase = "done" PROVE PlacedAlike
        BY DEF PlacedAlike
    <2>1. /\ call \in {"move_stack", "copy_stack"} /\ addr = Top /\ CopiedBelow(Top)
          /\ OnStack(mem, Top, from.esp, from.ebp)
        BY DEF CopyInv
    <2>2. \A a \in from.esp .. Top - 1 : ~OnOld(mem[a]) => mem[a] = 0
        BY <2>1, Geometry, StackFacts DEF OnOld
    <2>3. \A a \in from.esp .. Top - 1 : ~OnOld(mem[a]) => mem[a + Shift] = mem[a]
        BY <2>1, <2>2 DEF CopiedBelow
    <2>4. QED
        BY <2>3 DEF CopyInv, PlacedAlike
<1>2. QED
    BY <1>1, CopyInvariance, PTL

\* A child's stack is the image of its parent's: every pointer leads to the copy of
\* what it led to, no word of the child leads back to the parent, and the child's
\* ebp heads the copied chain of frames (copy_stack, thread_create).
THEOREM ChildStackIsImage == Spec => []CopyIsomorphic
<1>1. CopyInv => CopyIsomorphic
    <2> SUFFICES ASSUME CopyInv, phase = "done", call = "copy_stack"
                 PROVE  CopyIsomorphic
        BY DEF CopyIsomorphic
    <2>1. /\ addr = Top /\ CopiedBelow(Top)
          /\ OnStack(mem, Top, from.esp, from.ebp) /\ Top - from.esp >= 4
          /\ ebp = from.ebp + 2
          /\ child.esp = from.ebp + 1 + Shift
          /\ child.ebp = ebp + Shift
        BY DEF CopyInv
    <2>2. /\ Top \in Nat /\ Shift \in Nat /\ from.esp \in Nat /\ from.esp >= 2
          /\ from.ebp = from.esp + 1 /\ from.ebp + 2 <= Top - 1
          /\ Top + Shift = Child + PAGE_SIZE
        BY <2>1, Geometry, StackFacts, SizeAssumption
    <2>3. \A a \in from.esp .. Top - 1 : mem[a + Shift] = Image(mem[a])
        BY <2>1 DEF CopiedBelow
    <2>4. \A a \in from.esp .. Top - 1 : ~OnOld(mem[a + Shift])
        <3> SUFFICES ASSUME NEW a \in from.esp .. Top - 1
                     PROVE  ~OnOld(mem[a + Shift])
            OBVIOUS
        <3>1. mem[a] = 0 \/ mem[a] \in a .. Top - 1
            BY <2>1, StackFacts
        <3>2. CASE mem[a] = 0
            BY <2>2, <2>3, <3>2 DEF Image, OnOld
        <3>3. CASE mem[a] \in a .. Top - 1
            <4>1. mem[a] \in from.esp .. Top - 1
                BY <2>2, <3>3
            <4>2. mem[a + Shift] = mem[a] + Shift /\ mem[a] + Shift >= Top
                BY <2>1, <2>3, <4>1, StackFacts DEF Image, OnOld
            <4>3. QED
                BY <2>2, <4>1, <4>2 DEF OnOld
        <3>4. QED
            BY <3>1, <3>2, <3>3
    <2>5. ASSUME NEW a \in child.esp .. Child + PAGE_SIZE - 1 PROVE ~OnOld(mem[a])
        <3>1. a - Shift \in from.esp .. Top - 1 /\ (a - Shift) + Shift = a
            BY <2>1, <2>2, SizeAssumption DEF Child, Main, STACK_START
        <3>2. QED
            BY <2>4, <3>1
    <2>6. child.ebp = Image(ebp)
        BY <2>1, <2>2 DEF Image, OnOld
    <2>7. QED
        BY <2>3, <2>5, <2>6 DEF CopyIsomorphic, Faithful
<1>2. QED
    BY <1>1, CopyInvariance, PTL
=============================================================================
