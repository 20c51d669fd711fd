----------------------------- MODULE HeapProofs -----------------------------
(***************************************************************************)
(* For every geometry and every number of superblocks, and for requests of  *)
(* at least one byte: live allocations never overlap, a free releases the   *)
(* blocks of the allocation freed, nothing leaks and the used counter is    *)
(* exact.                                                                   *)
(***************************************************************************)
EXTENDS Heap, FiniteSetTheorems, TLAPS

\* The strengthening: the blocks of the bitmap stay marked, and a live
\* allocation has at least one block and lies in a superblock that was added.
ReservedMarked ==
    \A s \in added : \A b \in Blocks : b < Reserved => bitmap[s][b] # FREE

LiveProper == \A a \in live : a.len >= 1 /\ a.sb \in added

HInv ==
    /\ TypeOK
    /\ ReservedMarked
    /\ LiveProper
    /\ LiveDisjoint
    /\ Delimited
    /\ NoLeak
    /\ UsedExact

-----------------------------------------------------------------------------
(* Arithmetic of the geometry.                                             *)

\* Division with remainder, in the form the other lemmas use.
LEMMA DivFacts ==
    ASSUME NEW x \in Nat, NEW y \in Nat \ {0}
    PROVE  /\ x \div y \in Nat
           /\ y * (x \div y) <= x
           /\ x < y * (x \div y) + y
OBVIOUS

LEMMA BlockCountPositive == BlockCount \in Nat /\ BlockCount >= 1
<1>1. BlockCount \in Nat /\ TotalSize < BlockSize * BlockCount + BlockSize
  BY DivFacts, GeometryAssumption DEF BlockCount
<1>2. CASE BlockCount = 0
  BY <1>1, <1>2, GeometryAssumption
<1> QED
  BY <1>1, <1>2

\* CEILING of a positive number is positive.
LEMMA CeilingPositive ==
    ASSUME NEW x \in Nat, x >= 1
    PROVE  CEILING(x, BlockSize) \in Nat /\ CEILING(x, BlockSize) >= 1
<1> DEFINE q == CEILING(x, BlockSize)
<1>1. q \in Nat /\ x + BlockSize - 1 < BlockSize * q + BlockSize
  BY DivFacts, GeometryAssumption DEF CEILING
<1>2. CASE q = 0
  BY <1>1, <1>2, GeometryAssumption
<1> QED
  BY <1>1, <1>2

\* The bitmap takes at least one block and fits into the superblock.
LEMMA ReservedRange == Reserved \in 1 .. BlockCount
<1>1. Reserved \in Nat /\ Reserved >= 1
  BY BlockCountPositive, CeilingPositive DEF Reserved
<1>2. BlockSize * Reserved <= BlockCount + BlockSize - 1
  BY DivFacts, GeometryAssumption, BlockCountPositive DEF Reserved, CEILING
<1>3. ASSUME Reserved > BlockCount PROVE FALSE
  <2>1. BlockSize * Reserved >= BlockSize * (BlockCount + 1)
    BY <1>1, <1>3, BlockCountPositive, GeometryAssumption
  <2>2. BlockSize * (BlockCount + 1) = BlockSize * BlockCount + BlockSize
    BY BlockCountPositive, GeometryAssumption
  <2>3. BlockSize * BlockCount >= BlockCount
    BY BlockCountPositive, GeometryAssumption
  <2>4. BlockSize * BlockCount \in Nat /\ BlockSize * Reserved \in Nat
    BY <1>1, BlockCountPositive, GeometryAssumption
  <2> QED
    BY <1>2, <2>1, <2>2, <2>3, <2>4, BlockCountPositive, GeometryAssumption
<1> QED
  BY <1>1, <1>3, BlockCountPositive

\* generate_identifier (heap.c) always finds an identifier, three are enough,
\* and it is not FREE.
LEMMA IdentifierFresh ==
    ASSUME NEW x \in Bytes, NEW y \in Bytes
    PROVE  /\ generate_identifier(x, y) \in 1 .. 3
           /\ generate_identifier(x, y) # x
           /\ generate_identifier(x, y) # y
<1>1. \E z \in 1 .. 3 : /\ z # x /\ z # y
                        /\ \A w \in 1 .. z - 1 : w = x \/ w = y
  <2>1. CASE x # 1 /\ y # 1
    BY <2>1
  <2>2. CASE (x = 1 \/ y = 1) /\ x # 2 /\ y # 2
    BY <2>2
  <2>3. CASE (x = 1 \/ y = 1) /\ (x = 2 \/ y = 2)
    BY <2>3
  <2> QED
    BY <2>1, <2>2, <2>3
<1> QED
  BY <1>1 DEF generate_identifier

LEMMA RunFacts ==
    ASSUME NEW i \in Nat, NEW n \in Nat
    PROVE  /\ IsFiniteSet(Run(i, n))
           /\ Cardinality(Run(i, n)) = n
BY FS_Interval DEF Run

LEMMA InUseFinite ==
    ASSUME NEW s
    PROVE  /\ IsFiniteSet(InUse(s))
           /\ Cardinality(InUse(s)) \in 0 .. BlockCount
<1>1. IsFiniteSet(Blocks) /\ Cardinality(Blocks) = BlockCount
  BY FS_Interval, BlockCountPositive DEF Blocks
<1>2. InUse(s) \in SUBSET Blocks
  BY DEF InUse
<1>3. IsFiniteSet(InUse(s)) /\ Cardinality(InUse(s)) <= BlockCount
  BY <1>1, <1>2, FS_Subset
<1> QED
  BY <1>3, FS_CardinalityType, BlockCountPositive

-----------------------------------------------------------------------------
LEMMA InitHInv == Init => HInv
<1> SUFFICES ASSUME Init PROVE HInv
  OBVIOUS
<1>1. chain \in Seq(added) /\ Len(chain) = 0
  BY DEF Init
<1> QED
  BY <1>1, BlockCountPositive
     DEF Init, HInv, TypeOK, ReservedMarked, LiveProper, LiveDisjoint,
         Delimited, NoLeak, UsedExact, Bytes, FREE

LEMMA AddBlockHInv ==
    ASSUME HInv, NEW s \in Superblocks, memheap_add_block(s)
    PROVE  HInv'
<1> USE DEF HInv
<1>1. /\ s \notin added
      /\ added' = added \cup {s}
      /\ chain' = (IF s = NULL THEN <<>> ELSE <<s>> \o chain)
      /\ bitmap' = [bitmap EXCEPT ![s] =
                       [b \in Blocks |-> IF b < Reserved THEN 1 ELSE FREE]]
      /\ used' = [used EXCEPT ![s] = Reserved]
      /\ live' = live
  BY DEF memheap_add_block
<1>2. /\ bitmap'[s] = [b \in Blocks |-> IF b < Reserved THEN 1 ELSE FREE]
      /\ \A t \in Superblocks \ {s} : bitmap'[t] = bitmap[t]
      /\ used'[s] = Reserved
      /\ \A t \in Superblocks \ {s} : used'[t] = used[t]
  BY <1>1 DEF TypeOK
<1>3. \A a \in live : a.sb # s /\ a.sb \in Superblocks
  BY <1>1 DEF LiveProper, TypeOK
<1>4. TypeOK'
  <2>1. chain' \in Seq(added')
    <3>1. chain \in Seq(added \cup {s})
      <4>1. Seq(added) \subseteq Seq(added \cup {s})
        OBVIOUS
      <4> QED
        BY <4>1 DEF TypeOK
    <3>2. <<s>> \in Seq(added \cup {s}) /\ <<>> \in Seq(added \cup {s})
      OBVIOUS
    <3>3. <<s>> \o chain \in Seq(added \cup {s})
      BY <3>1, <3>2
    <3> QED
      BY <1>1, <3>2, <3>3
  <2>2. bitmap' \in [Superblocks -> [Blocks -> Bytes]]
    BY <1>1 DEF TypeOK, Bytes, FREE
  <2>3. used' \in [Superblocks -> 0 .. BlockCount]
    BY <1>1, ReservedRange, BlockCountPositive DEF TypeOK
  <2> QED
    BY <1>1, <2>1, <2>2, <2>3 DEF TypeOK
<1>5. ReservedMarked'
  BY <1>1, <1>2 DEF ReservedMarked, FREE, TypeOK
<1>6. LiveProper' /\ LiveDisjoint'
  BY <1>1 DEF LiveProper, LiveDisjoint
<1>7. Delimited'
  BY <1>1, <1>2, <1>3 DEF Delimited
<1>8. InUse(s)' = Run(0, Reserved) /\ \A t \in added : InUse(t)' = InUse(t)
  BY <1>1, <1>2, ReservedRange, BlockCountPositive
     DEF InUse, Run, Blocks, FREE, TypeOK
<1>9. NoLeak'
  <2> SUFFICES ASSUME NEW k \in 1 .. Len(chain'), NEW b \in InUse(chain[k])'
               PROVE  \/ b < Reserved
                      \/ \E a \in live' : a.sb = chain'[k] /\ b \in BlocksOf(a)
    BY DEF NoLeak
  <2>1. CASE chain'[k] = s
    BY <1>8, <2>1, ReservedRange, BlockCountPositive DEF Run
  <2>2. CASE chain'[k] # s
    <3>1. chain' = <<s>> \o chain /\ k \in 1 .. Len(chain) + 1
      BY <1>1, <2>2 DEF TypeOK
    <3>2. k - 1 \in 1 .. Len(chain) /\ chain'[k] = chain[k - 1]
      BY <2>2, <3>1 DEF TypeOK
    <3>3. chain[k - 1] \in added
      BY <3>2 DEF TypeOK
    <3>4. b \in InUse(chain[k - 1])
      BY <1>8, <3>2, <3>3 DEF InUse
    <3> QED
      BY <1>1, <3>2, <3>4 DEF NoLeak
  <2> QED
    BY <2>1, <2>2
<1>10. UsedExact'
  <2>1. Cardinality(Run(0, Reserved)) = Reserved
    BY RunFacts, ReservedRange, BlockCountPositive
  <2>2. \A t \in added : used'[t] = used[t]
    BY <1>1, <1>2 DEF TypeOK
  <2> QED
    BY <1>1, <1>2, <1>8, <2>1, <2>2 DEF UsedExact
<1> QED
  BY <1>4, <1>5, <1>6, <1>7, <1>9, <1>10

\* What memheap_alloc does to one superblock, with every choice named.
Marks(s, i, n, id) ==
    /\ s \in added
    /\ i \in Blocks /\ n \in Nat /\ n >= 1
    /\ Reserved <= i /\ i + n <= BlockCount
    /\ \A b \in Run(i, n) : bitmap[s][b] = FREE
    /\ id \in 1 .. 3
    /\ id # bitmap[s][i - 1]
    /\ i + n < BlockCount => id # bitmap[s][i + n]
    /\ bitmap' = [bitmap EXCEPT ![s] =
                     [b \in Blocks |-> IF b \in Run(i, n) THEN id ELSE bitmap[s][b]]]
    /\ used' = [used EXCEPT ![s] = used[s] + n]
    /\ live' = live \cup {[sb |-> s, start |-> i, len |-> n]}
    /\ UNCHANGED <<chain, added>>

LEMMA AllocMarks ==
    ASSUME HInv, NEW size \in Sizes, size # 0, memheap_alloc(size)
    PROVE  \E s, i, n, id : Marks(s, i, n, id)
<1> USE DEF HInv
<1> DEFINE n == CEILING(size, BlockSize)
<1>1. n \in Nat /\ n >= 1
  BY CeilingPositive, SizesAssumption
<1>2. PICK k \in 1 .. Len(chain), i \in Blocks, past \in Bytes :
         Serves(chain[k], size, i) /\ Mark(chain[k], i, n, past)
  BY DEF memheap_alloc
<1> DEFINE s == chain[k]
           next == IF i + n < BlockCount THEN bitmap[s][i + n] ELSE past
           id == generate_identifier(bitmap[s][i - 1], next)
<1>3. s \in added /\ s \in Superblocks
  BY DEF TypeOK
<1>4. FitsAt(bitmap[s], n, i)
  BY <1>2 DEF Serves, FirstFit
<1>5. Reserved <= i /\ i - 1 \in Blocks
  BY <1>3, <1>4, ReservedRange, BlockCountPositive
     DEF FitsAt, ReservedMarked, Blocks
<1>6. next \in Bytes /\ bitmap[s][i - 1] \in Bytes
  BY <1>1, <1>3, <1>5, BlockCountPositive DEF TypeOK, Blocks
<1>7. id \in 1 .. 3 /\ id # bitmap[s][i - 1] /\ id # next
  BY <1>6, IdentifierFresh
<1>8. /\ bitmap' = [bitmap EXCEPT ![s] =
             [b \in Blocks |-> IF b \in Run(i, n) THEN id ELSE bitmap[s][b]]]
      /\ used' = [used EXCEPT ![s] = used[s] + n]
      /\ live' = live \cup {[sb |-> s, start |-> i, len |-> n]}
  BY <1>2, <1>3 DEF Mark, TypeOK
<1>9. UNCHANGED <<chain, added>>
  BY DEF memheap_alloc
<1>10. i + n < BlockCount => id # bitmap[s][i + n]
  BY <1>7
<1> HIDE DEF n, s, next, id
<1>11. Marks(s, i, n, id)
  BY <1>1, <1>3, <1>4, <1>5, <1>7, <1>8, <1>9, <1>10 DEF Marks, FitsAt
<1> QED
  BY <1>11

LEMMA MarksHInv ==
    ASSUME HInv, NEW s, NEW i, NEW n, NEW id, Marks(s, i, n, id)
    PROVE  HInv'
<1> USE DEF HInv
<1> DEFINE new == [sb |-> s, start |-> i, len |-> n]
<1>1. /\ s \in added /\ s \in Superblocks
      /\ i \in Blocks /\ i \in Nat /\ n \in Nat /\ n >= 1
      /\ Reserved <= i /\ i + n <= BlockCount
      /\ \A b \in Run(i, n) : bitmap[s][b] = FREE
      /\ Reserved \in Nat /\ BlockCount \in Nat
  BY ReservedRange, BlockCountPositive DEF Marks, TypeOK, Blocks
<1>2. /\ id \in 1 .. 3 /\ id # FREE /\ id # bitmap[s][i - 1]
      /\ i + n < BlockCount => id # bitmap[s][i + n]
  BY DEF Marks, FREE
<1>3. Run(i, n) \subseteq Blocks /\ Run(i, n) \subseteq Reserved .. BlockCount - 1
  BY <1>1 DEF Run, Blocks
<1>4. /\ chain' = chain /\ added' = added /\ live' = live \cup {new}
      /\ bitmap' = [bitmap EXCEPT ![s] =
             [b \in Blocks |-> IF b \in Run(i, n) THEN id ELSE bitmap[s][b]]]
      /\ used' = [used EXCEPT ![s] = used[s] + n]
  BY DEF Marks
<1>5. /\ bitmap'[s] = [b \in Blocks |-> IF b \in Run(i, n) THEN id ELSE bitmap[s][b]]
      /\ \A t \in Superblocks \ {s} : bitmap'[t] = bitmap[t]
      /\ used'[s] = used[s] + n
      /\ \A t \in Superblocks \ {s} : used'[t] = used[t]
  BY <1>1, <1>4 DEF TypeOK
<1>6. \A b \in Blocks : /\ b \in Run(i, n) => bitmap'[s][b] = id
                        /\ b \notin Run(i, n) => bitmap'[s][b] = bitmap[s][b]
  BY <1>5
<1>7. \A a \in live : /\ a.sb \in Superblocks /\ a.start \in Nat /\ a.len \in Nat
                      /\ a.sb = s => BlocksOf(a) \cap Run(i, n) = {}
                      /\ BlocksOf(a) \subseteq Blocks
                      /\ a.len >= 1 /\ a.start \in BlocksOf(a)
  <2> SUFFICES ASSUME NEW a \in live
               PROVE  /\ a.sb \in Superblocks /\ a.start \in Nat /\ a.len \in Nat
                      /\ a.sb = s => BlocksOf(a) \cap Run(i, n) = {}
                      /\ BlocksOf(a) \subseteq Blocks
                      /\ a.len >= 1 /\ a.start \in BlocksOf(a)
    OBVIOUS
  <2>1. a \in Allocation /\ a.len >= 1
    BY DEF TypeOK, LiveProper
  <2>2. a.sb \in Superblocks /\ a.start \in Nat /\ a.len \in Nat
    BY <2>1, <1>1 DEF Allocation, Blocks
  <2>3. BlocksOf(a) \subseteq Blocks
    BY <1>1 DEF LiveDisjoint, Blocks
  <2>4. a.start \in BlocksOf(a)
    BY <2>1, <2>2 DEF BlocksOf, Run
  <2>5. a.sb = s => BlocksOf(a) \cap Run(i, n) = {}
    BY <1>1 DEF Delimited
  <2> QED
    BY <2>1, <2>2, <2>3, <2>4, <2>5
<1>8. BlocksOf(new) = Run(i, n)
  BY DEF BlocksOf
<1>9. InUse(s)' = InUse(s) \cup Run(i, n) /\ InUse(s) \cap Run(i, n) = {}
  BY <1>1, <1>2, <1>3, <1>6 DEF InUse
<1>10. \A t \in Superblocks \ {s} : InUse(t)' = InUse(t)
  BY <1>5 DEF InUse
<1>11. UsedExact'
  <2>1. /\ IsFiniteSet(InUse(s)) /\ IsFiniteSet(Run(i, n))
        /\ Cardinality(Run(i, n)) = n /\ Cardinality(InUse(s)) \in Nat
    BY <1>1, RunFacts, InUseFinite
  <2>2. Cardinality(InUse(s) \cup Run(i, n)) = Cardinality(InUse(s)) + n
    <3>1. Cardinality(InUse(s) \cap Run(i, n)) = 0
      BY <1>9, FS_EmptySet
    <3> QED
      BY <1>1, <2>1, <3>1, FS_Union
  <2>3. used'[s] = Cardinality(InUse(s)')
    BY <1>1, <1>5, <1>9, <2>2 DEF UsedExact
  <2>4. \A t \in added \ {s} : used'[t] = Cardinality(InUse(t)')
    BY <1>5, <1>10 DEF UsedExact, TypeOK
  <2> QED
    BY <1>4, <2>3, <2>4 DEF UsedExact
<1>12. TypeOK'
  <2>1. bitmap' \in [Superblocks -> [Blocks -> Bytes]]
    BY <1>1, <1>2, <1>4 DEF TypeOK, Bytes
  <2>2. used'[s] \in 0 .. BlockCount
    <3>1. used'[s] = Cardinality(InUse(s)')
      BY <1>1, <1>4, <1>11 DEF UsedExact
    <3>2. InUse(s)' \in SUBSET Blocks
      BY DEF InUse
    <3>3. IsFiniteSet(Blocks) /\ Cardinality(Blocks) = BlockCount
      BY FS_Interval, BlockCountPositive DEF Blocks
    <3>4. IsFiniteSet(InUse(s)') /\ Cardinality(InUse(s)') <= BlockCount
      BY <3>2, <3>3, FS_Subset
    <3>5. Cardinality(InUse(s)') \in Nat
      BY <3>4, FS_CardinalityType
    <3> QED
      BY <3>1, <3>4, <3>5, BlockCountPositive
  <2>3. used' \in [Superblocks -> 0 .. BlockCount]
    BY <1>1, <1>4, <2>2 DEF TypeOK
  <2>4. new \in Allocation
    BY <1>1 DEF Allocation
  <2> QED
    BY <1>4, <2>1, <2>3, <2>4 DEF TypeOK
<1>13. ReservedMarked'
  BY <1>1, <1>3, <1>4, <1>5, <1>6 DEF ReservedMarked, TypeOK
<1>14. LiveProper'
  BY <1>1, <1>4 DEF LiveProper
<1>15. LiveDisjoint'
  <2> SUFFICES ASSUME NEW a \in live'
               PROVE  /\ BlocksOf(a) \subseteq Reserved .. BlockCount - 1
                      /\ \A b \in live' : a.sb = b.sb /\ a # b =>
                            BlocksOf(a) \cap BlocksOf(b) = {}
    BY DEF LiveDisjoint
  <2>1. BlocksOf(a) \subseteq Reserved .. BlockCount - 1
    BY <1>3, <1>4, <1>8 DEF LiveDisjoint
  <2>2. ASSUME NEW b \in live', a.sb = b.sb, a # b
        PROVE  BlocksOf(a) \cap BlocksOf(b) = {}
    <3>1. CASE a \in live /\ b \in live
      BY <2>2, <3>1 DEF LiveDisjoint
    <3>2. CASE a = new /\ b \in live
      BY <1>7, <1>8, <2>2, <3>2
    <3>3. CASE b = new /\ a \in live
      BY <1>7, <1>8, <2>2, <3>3
    <3> QED
      BY <1>4, <2>2, <3>1, <3>2, <3>3
  <2> QED
    BY <2>1, <2>2
<1>16. Delimited'
  <2> SUFFICES ASSUME NEW a \in live'
               PROVE  /\ \A b \in BlocksOf(a) :
                            /\ bitmap'[a.sb][b] # FREE
                            /\ bitmap'[a.sb][b] = bitmap'[a.sb][a.start]
                      /\ a.start + a.len < BlockCount =>
                            bitmap'[a.sb][a.start + a.len] # bitmap'[a.sb][a.start]
    BY DEF Delimited
  <2>1. CASE a = new
    <3>1. i \in Run(i, n) /\ i + n \notin Run(i, n)
      BY <1>1 DEF Run
    <3>2. i + n < BlockCount => i + n \in Blocks
      BY <1>1 DEF Blocks
    <3> QED
      BY <1>2, <1>3, <1>6, <1>8, <2>1, <3>1, <3>2
  <2>2. CASE a \in live /\ a.sb # s
    BY <1>5, <1>7, <2>2 DEF Delimited
  <2>3. CASE a \in live /\ a.sb = s
    <3>1. \A b \in BlocksOf(a) : bitmap'[s][b] = bitmap[s][b]
      BY <1>6, <1>7, <2>3
    <3>2. /\ \A b \in BlocksOf(a) : /\ bitmap[s][b] # FREE
                                    /\ bitmap[s][b] = bitmap[s][a.start]
          /\ a.start + a.len < BlockCount =>
                bitmap[s][a.start + a.len] # bitmap[s][a.start]
      BY <2>3 DEF Delimited
    <3>3. bitmap'[s][a.start] = bitmap[s][a.start]
      BY <1>7, <2>3, <3>1
    <3>4. ASSUME a.start + a.len < BlockCount
          PROVE  bitmap'[s][a.start + a.len] # bitmap[s][a.start]
      <4>1. a.start + a.len \in Blocks
        BY <1>1, <1>7, <2>3, <3>4 DEF Blocks
      <4>2. CASE a.start + a.len \notin Run(i, n)
        BY <1>6, <3>2, <3>4, <4>1, <4>2
      <4>3. CASE a.start + a.len \in Run(i, n)
        <5>1. a.start + a.len - 1 \in BlocksOf(a)
          BY <1>7, <2>3 DEF BlocksOf, Run
        <5>2. a.start + a.len - 1 \notin Run(i, n)
          BY <1>7, <2>3, <5>1
        <5>3. a.start + a.len = i
          BY <1>1, <1>7, <2>3, <4>3, <5>2 DEF Run
        <5>4. bitmap[s][i - 1] = bitmap[s][a.start]
          <6>1. i - 1 = a.start + a.len - 1
            BY <1>1, <1>7, <2>3, <5>3
          <6> QED
            BY <3>2, <5>1, <6>1
        <5> QED
          BY <1>2, <1>6, <4>1, <4>3, <5>4
      <4> QED
        BY <4>2, <4>3
    <3> QED
      BY <2>3, <3>1, <3>2, <3>3, <3>4
  <2> QED
    BY <1>4, <2>1, <2>2, <2>3
<1>17. NoLeak'
  <2> SUFFICES ASSUME NEW k \in 1 .. Len(chain), NEW b \in InUse(chain[k])'
               PROVE  \/ b < Reserved
                      \/ \E a \in live' : a.sb = chain[k] /\ b \in BlocksOf(a)
    BY <1>4 DEF NoLeak
  <2>1. chain[k] \in Superblocks
    BY DEF TypeOK
  <2>2. CASE b \in InUse(chain[k])
    BY <1>4, <2>2 DEF NoLeak
  <2>3. CASE b \notin InUse(chain[k])
    <3>1. chain[k] = s /\ b \in Run(i, n)
      BY <1>4, <1>9, <1>10, <2>1, <2>3 DEF InUse
    <3> QED
      BY <1>4, <1>8, <3>1
  <2> QED
    BY <2>2, <2>3
<1> QED
  BY <1>11, <1>12, <1>13, <1>14, <1>15, <1>16, <1>17

\* memheap_free clears the blocks of the allocation: its identifier runs to its
\* last block and no further.
LEMMA FreeRunExact ==
    ASSUME HInv, NEW a \in live
    PROVE  SameIdRun(bitmap[a.sb], a.start) = BlocksOf(a)
<1> DEFINE bm == bitmap[a.sb]
           end == a.start + a.len
<1>1. /\ a.start \in Nat /\ a.len \in Nat /\ a.len >= 1 /\ BlockCount \in Nat
      /\ BlocksOf(a) = a.start .. end - 1 /\ end <= BlockCount
  <2>1. a \in Allocation /\ a.len >= 1
    BY DEF HInv, TypeOK, LiveProper
  <2>2. a.start \in Nat /\ a.len \in Nat /\ BlockCount \in Nat
    BY <2>1, BlockCountPositive DEF Allocation, Blocks
  <2>3. BlocksOf(a) = a.start .. end - 1
    BY <2>2 DEF BlocksOf, Run
  <2>4. end - 1 \in BlocksOf(a)
    BY <2>1, <2>2, <2>3
  <2>5. end - 1 \in Reserved .. BlockCount - 1
    BY <2>4 DEF HInv, LiveDisjoint
  <2>6. Reserved \in Nat
    BY ReservedRange, BlockCountPositive
  <2> QED
    BY <2>1, <2>2, <2>3, <2>5, <2>6
<1>2. /\ \A b \in a.start .. end - 1 : bm[b] = bm[a.start]
      /\ end < BlockCount => bm[end] # bm[a.start]
  BY <1>1 DEF HInv, Delimited
<1>3. ASSUME NEW b \in a.start .. end - 1
      PROVE  b \in SameIdRun(bm, a.start)
  <2>1. b \in a.start .. BlockCount - 1 /\ \A c \in a.start .. b : c \in a.start .. end - 1
    BY <1>1, <1>3
  <2> QED
    BY <1>2, <2>1 DEF SameIdRun
<1>4. ASSUME NEW b \in SameIdRun(bm, a.start)
      PROVE  b \in a.start .. end - 1
  <2>1. b \in a.start .. BlockCount - 1 /\ \A c \in a.start .. b : bm[c] = bm[a.start]
    BY <1>4 DEF SameIdRun
  <2>2. ASSUME b >= end PROVE FALSE
    <3>1. end \in a.start .. b /\ end < BlockCount
      BY <1>1, <2>1, <2>2
    <3> QED
      BY <1>2, <2>1, <3>1
  <2> QED
    BY <1>1, <2>1, <2>2
<1> QED
  BY <1>1, <1>3, <1>4

LEMMA FreeHInv ==
    ASSUME HInv, NEW a \in live, memheap_free(a)
    PROVE  HInv'
<1> USE DEF HInv
<1> DEFINE s == a.sb
<1>0. /\ a \in Allocation /\ a.len >= 1 /\ s \in added /\ s \in Superblocks
      /\ a.start \in Nat /\ a.len \in Nat /\ BlockCount \in Nat
      /\ live' = live \ {a} /\ chain' = chain /\ added' = added
  BY BlockCountPositive
     DEF memheap_free, TypeOK, LiveProper, Allocation, Blocks
<1>1. CASE ~\E k \in 1 .. Len(chain) : chain[k] = s
  <2>1. bitmap' = bitmap /\ used' = used
    BY <1>1 DEF memheap_free
  <2>2. \A t : InUse(t)' = InUse(t)
    BY <2>1 DEF InUse
  <2>3. TypeOK'
    BY <1>0, <2>1 DEF TypeOK
  <2>4. ReservedMarked' /\ LiveProper' /\ LiveDisjoint' /\ Delimited' /\ UsedExact'
    BY <1>0, <2>1, <2>2
       DEF ReservedMarked, LiveProper, LiveDisjoint, Delimited, UsedExact
  <2>5. NoLeak'
    BY <1>0, <1>1, <2>2 DEF NoLeak
  <2> QED
    BY <2>3, <2>4, <2>5
<1>2. CASE \E k \in 1 .. Len(chain) : chain[k] = s
  <2>1. /\ bitmap' = [bitmap EXCEPT ![s] =
               [b \in Blocks |-> IF b \in BlocksOf(a) THEN FREE ELSE bitmap[s][b]]]
        /\ used' = [used EXCEPT ![s] = used[s] - Cardinality(BlocksOf(a))]
    BY <1>0, <1>2, FreeRunExact DEF memheap_free, TypeOK
  <2>2. /\ \A t \in Superblocks \ {s} : bitmap'[t] = bitmap[t] /\ used'[t] = used[t]
        /\ \A b \in Blocks : /\ b \in BlocksOf(a) => bitmap'[s][b] = FREE
                             /\ b \notin BlocksOf(a) => bitmap'[s][b] = bitmap[s][b]
        /\ used'[s] = used[s] - Cardinality(BlocksOf(a))
    BY <1>0, <2>1 DEF TypeOK
  <2>3. /\ BlocksOf(a) \subseteq InUse(s)
        /\ BlocksOf(a) \subseteq Reserved .. BlockCount - 1
        /\ IsFiniteSet(BlocksOf(a)) /\ Cardinality(BlocksOf(a)) = a.len
    <3>1. BlocksOf(a) \subseteq Reserved .. BlockCount - 1
      BY DEF LiveDisjoint
    <3>2. Reserved .. BlockCount - 1 \subseteq Blocks
      BY ReservedRange, BlockCountPositive DEF Blocks
    <3>3. BlocksOf(a) \subseteq InUse(s)
      BY <3>1, <3>2 DEF Delimited, InUse
    <3> QED
      BY <1>0, <3>1, <3>3, RunFacts DEF BlocksOf
  <2>4. InUse(s)' = InUse(s) \ BlocksOf(a)
    BY <2>2 DEF InUse
  <2>5. \A t \in Superblocks \ {s} : InUse(t)' = InUse(t)
    BY <2>2 DEF InUse
  <2>6. UsedExact'
    <3>1. IsFiniteSet(InUse(s)) /\ Cardinality(InUse(s)) \in Nat
      BY InUseFinite, BlockCountPositive
    <3>2. Cardinality(InUse(s) \cap BlocksOf(a)) = a.len
      <4>1. InUse(s) \cap BlocksOf(a) = BlocksOf(a)
        BY <2>3
      <4> QED
        BY <2>3, <4>1
    <3>3. Cardinality(InUse(s) \ BlocksOf(a)) = Cardinality(InUse(s)) - a.len
      BY <3>1, <3>2, FS_Difference
    <3>4. used'[s] = Cardinality(InUse(s)')
      BY <1>0, <2>2, <2>3, <2>4, <3>3 DEF UsedExact
    <3>5. \A t \in added \ {s} : used'[t] = Cardinality(InUse(t)')
      BY <2>2, <2>5 DEF UsedExact, TypeOK
    <3> QED
      BY <1>0, <3>4, <3>5 DEF UsedExact
  <2>7. TypeOK'
    <3>1. bitmap' \in [Superblocks -> [Blocks -> Bytes]]
      BY <1>0, <2>1 DEF TypeOK, Bytes, FREE
    <3>2. used'[s] \in 0 .. BlockCount
      <4>1. used'[s] = Cardinality(InUse(s)')
        BY <1>0, <2>6 DEF UsedExact
      <4>2. IsFiniteSet(InUse(s)) /\ InUse(s)' \in SUBSET InUse(s)
        BY <2>4, InUseFinite
      <4>3. /\ IsFiniteSet(InUse(s)')
            /\ Cardinality(InUse(s)') <= Cardinality(InUse(s))
        BY <4>2, FS_Subset
      <4>4. Cardinality(InUse(s)') \in Nat /\ Cardinality(InUse(s)) \in 0 .. BlockCount
        BY <4>3, FS_CardinalityType, InUseFinite
      <4> QED
        BY <1>0, <4>1, <4>3, <4>4
    <3>3. used' \in [Superblocks -> 0 .. BlockCount]
      BY <1>0, <2>1, <3>2 DEF TypeOK
    <3> QED
      BY <1>0, <3>1, <3>3 DEF TypeOK
  <2>8. ReservedMarked'
    <3> SUFFICES ASSUME NEW t \in added, NEW b \in Blocks, b < Reserved
                 PROVE  bitmap'[t][b] # FREE
      BY <1>0 DEF ReservedMarked
    <3>1. bitmap[t][b] # FREE /\ t \in Superblocks
      BY DEF ReservedMarked, TypeOK
    <3>2. b \notin BlocksOf(a)
      BY <2>3, ReservedRange, BlockCountPositive DEF Blocks
    <3> QED
      BY <2>2, <3>1, <3>2
  <2>9. LiveProper' /\ LiveDisjoint'
    BY <1>0 DEF LiveProper, LiveDisjoint
  <2>10. Delimited'
    <3> SUFFICES ASSUME NEW c \in live, c # a
                 PROVE  /\ \A b \in BlocksOf(c) :
                            /\ bitmap'[c.sb][b] # FREE
                            /\ bitmap'[c.sb][b] = bitmap'[c.sb][c.start]
                        /\ c.start + c.len < BlockCount =>
                            bitmap'[c.sb][c.start + c.len] # bitmap'[c.sb][c.start]
      BY <1>0 DEF Delimited
    <3>1. /\ c.sb \in Superblocks /\ c.start \in Nat /\ c.len \in Nat
          /\ c.start \in BlocksOf(c) /\ BlocksOf(c) \subseteq Blocks
      <4>1. c \in Allocation /\ c.len >= 1
        BY DEF TypeOK, LiveProper
      <4>2. c.sb \in Superblocks /\ c.start \in Nat /\ c.len \in Nat
        BY <1>0, <4>1 DEF Allocation, Blocks
      <4>3. BlocksOf(c) \subseteq Reserved .. BlockCount - 1
        BY DEF LiveDisjoint
      <4> QED
        BY <1>0, <4>1, <4>2, <4>3, ReservedRange DEF BlocksOf, Run, Blocks
    <3>2. /\ \A b \in BlocksOf(c) : /\ bitmap[c.sb][b] # FREE
                                    /\ bitmap[c.sb][b] = bitmap[c.sb][c.start]
          /\ c.start + c.len < BlockCount =>
                bitmap[c.sb][c.start + c.len] # bitmap[c.sb][c.start]
      BY DEF Delimited
    <3>3. CASE c.sb # s
      BY <2>2, <3>1, <3>2, <3>3
    <3>4. CASE c.sb = s
      <4>1. BlocksOf(c) \cap BlocksOf(a) = {}
        BY <3>4 DEF LiveDisjoint
      <4>2. \A b \in BlocksOf(c) : bitmap'[s][b] = bitmap[s][b]
        BY <2>2, <3>1, <4>1
      <4>3. ASSUME c.start + c.len < BlockCount
            PROVE  bitmap'[s][c.start + c.len] # bitmap[s][c.start]
        <5>1. c.start + c.len \in Blocks
          BY <1>0, <3>1, <4>3 DEF Blocks
        <5>2. bitmap[s][c.start] # FREE
          BY <3>1, <3>2, <3>4
        <5> QED
          BY <2>2, <3>2, <3>4, <4>3, <5>1, <5>2
      <4> QED
        BY <3>1, <3>2, <3>4, <4>2, <4>3
    <3> QED
      BY <3>3, <3>4
  <2>11. NoLeak'
    <3> SUFFICES ASSUME NEW k \in 1 .. Len(chain), NEW b \in InUse(chain[k])'
                 PROVE  \/ b < Reserved
                        \/ \E c \in live \ {a} : c.sb = chain[k] /\ b \in BlocksOf(c)
      BY <1>0 DEF NoLeak
    <3>1. chain[k] \in Superblocks
      BY DEF TypeOK
    <3>2. b \in InUse(chain[k]) /\ (chain[k] = s => b \notin BlocksOf(a))
      BY <1>0, <2>4, <2>5, <3>1 DEF InUse
    <3>3. b < Reserved \/ \E c \in live : c.sb = chain[k] /\ b \in BlocksOf(c)
      BY <3>2 DEF NoLeak
    <3> QED
      BY <3>2, <3>3
  <2> QED
    BY <2>6, <2>7, <2>8, <2>9, <2>10, <2>11
<1> QED
  BY <1>1, <1>2

LEMMA NextHInv ==
    ASSUME 0 \notin Sizes
    PROVE  HInv /\ [Next]_vars => HInv'
<1> SUFFICES ASSUME HInv, [Next]_vars PROVE HInv'
  OBVIOUS
<1>1. ASSUME NEW s \in Superblocks, memheap_add_block(s) PROVE HInv'
  BY <1>1, AddBlockHInv
<1>2. ASSUME NEW size \in Sizes, memheap_alloc(size) PROVE HInv'
  BY <1>2, AllocMarks, MarksHInv
<1>3. CASE UNCHANGED vars
  BY <1>3 DEF vars, HInv, TypeOK, ReservedMarked, LiveProper, LiveDisjoint,
              Delimited, NoLeak, UsedExact, InUse
<1>4. ASSUME NEW a \in live, memheap_free(a) PROVE HInv'
  BY <1>4, FreeHInv
<1> QED
  BY <1>1, <1>2, <1>3, <1>4 DEF Next, memheap_alloc_fails

-----------------------------------------------------------------------------
\* HInv, the inductive invariant behind the theorems below, holds in every state of
\* the heap (memheap_add_block, memheap_alloc, memheap_free), provided nobody asks
\* for zero bytes.
THEOREM HeapInvariance ==
    ASSUME 0 \notin Sizes
    PROVE  Spec => []HInv
BY InitHInv, NextHInv, PTL DEF Spec

\* The list, the bitmaps and the counters of heap.c keep their types; the used
\* counter stays between 0 and the number of blocks.
THEOREM HeapTypeCorrect ==
    ASSUME 0 \notin Sizes
    PROVE  Spec => []TypeOK
BY HeapInvariance, PTL DEF HInv

\* Live allocations never overlap each other or the bitmap, and no block stays
\* marked after its allocation was freed (memheap_alloc, memheap_free).
THEOREM BlocksOwnedExactly ==
    ASSUME 0 \notin Sizes
    PROVE  Spec => []OwnershipExact
BY HeapInvariance, PTL DEF HInv, OwnershipExact

\* Identifiers delimit the live allocations, in every order of allocations and
\* frees.
THEOREM AllocationsDelimited ==
    ASSUME 0 \notin Sizes
    PROVE  Spec => []Delimited
BY HeapInvariance, PTL DEF HInv

\* sblock->used is the number of bytes of the bitmap that are not FREE.
THEOREM UsedCounterExact ==
    ASSUME 0 \notin Sizes
    PROVE  Spec => []UsedExact
BY HeapInvariance, PTL DEF HInv
-----------------------------------------------------------------------------
(* No false rejection.                                                     *)

\* Every non-empty set of naturals has a least element.
LEMMA LeastNatural ==
    ASSUME NEW S, S \subseteq Nat, S # {}
    PROVE  \E x \in S : \A y \in S : x <= y
<1>1. PICK x \in S : \A y \in S : ~(<<y, x>> \in OpToRel(<, Nat))
  BY NatLessThanWellFounded, WFMin
<1>2. \A y \in S : ~(y < x)
  BY <1>1 DEF OpToRel
<1> QED
  BY <1>2

\* The blocks needed hold the bytes asked for.
LEMMA CeilingCovers ==
    ASSUME NEW x \in Nat
    PROVE  /\ CEILING(x, BlockSize) \in Nat
           /\ x <= BlockSize * CEILING(x, BlockSize)
<1> DEFINE q == CEILING(x, BlockSize)
<1>1. q \in Nat /\ x + BlockSize - 1 < BlockSize * q + BlockSize
  BY DivFacts, GeometryAssumption DEF CEILING
<1>2. BlockSize * q \in Nat
  BY <1>1, GeometryAssumption
<1> QED
  BY <1>1, <1>2, GeometryAssumption

\* The counter leaves room for every run of free blocks: memheap_alloc's quick
\* test lets the request through.
LEMMA FitIsLargeEnough ==
    ASSUME HInv, NEW s \in added, NEW size \in Nat, NEW i \in Blocks,
           FitsAt(bitmap[s], CEILING(size, BlockSize), i)
    PROVE  LargeEnough(s, size)
<1> DEFINE n == CEILING(size, BlockSize)
<1>1. n \in Nat /\ size <= BlockSize * n
  BY CeilingCovers
<1>2. i \in Nat /\ i + n <= BlockCount /\ BlockCount \in Nat
  BY BlockCountPositive DEF FitsAt, Blocks
<1>3. Run(i, n) \subseteq Blocks \ InUse(s)
  BY <1>1, <1>2 DEF Run, Blocks, InUse, FitsAt
<1>4. used[s] \in Nat /\ used[s] + n <= BlockCount
  <2>1. /\ IsFiniteSet(InUse(s)) /\ IsFiniteSet(Run(i, n))
        /\ Cardinality(Run(i, n)) = n /\ Cardinality(InUse(s)) \in Nat
    BY <1>1, <1>2, RunFacts, InUseFinite
  <2>2. Cardinality(InUse(s) \cap Run(i, n)) = 0
    <3>1. InUse(s) \cap Run(i, n) = {}
      BY <1>3
    <3> QED
      BY <3>1, FS_EmptySet
  <2>3. Cardinality(InUse(s) \cup Run(i, n)) = Cardinality(InUse(s)) + n
    BY <1>1, <2>1, <2>2, FS_Union
  <2>4. InUse(s) \cup Run(i, n) \in SUBSET Blocks
    BY <1>3 DEF InUse
  <2>5. IsFiniteSet(Blocks) /\ Cardinality(Blocks) = BlockCount
    BY FS_Interval, BlockCountPositive DEF Blocks
  <2>6. Cardinality(InUse(s) \cup Run(i, n)) <= BlockCount
    BY <2>4, <2>5, FS_Subset
  <2>7. used[s] = Cardinality(InUse(s))
    BY DEF HInv, UsedExact
  <2> QED
    BY <2>1, <2>3, <2>6, <2>7
<1>5. BlockSize * BlockCount <= TotalSize
  BY DivFacts, GeometryAssumption DEF BlockCount
<1>6. BlockSize * (used[s] + n) <= BlockSize * BlockCount
  BY <1>1, <1>2, <1>4, GeometryAssumption
<1>7. BlockSize * (used[s] + n) = used[s] * BlockSize + BlockSize * n
  BY <1>1, <1>4, GeometryAssumption
<1>8. /\ used[s] * BlockSize \in Nat /\ BlockSize * n \in Nat
      /\ BlockSize * BlockCount \in Nat
  BY <1>1, <1>2, <1>4, GeometryAssumption
<1> HIDE DEF n
<1> QED
  BY <1>1, <1>5, <1>6, <1>7, <1>8, GeometryAssumption DEF LargeEnough

\* A superblock of the list with room for a request makes memheap_alloc return
\* a block, of this or of an earlier superblock.
LEMMA RoomIsServed ==
    ASSUME HInv, NEW size \in Nat, NEW k \in 1 .. Len(chain),
           \E i \in Blocks : FitsAt(bitmap[chain[k]], CEILING(size, BlockSize), i)
    PROVE  CanServe(size)
<1> DEFINE n == CEILING(size, BlockSize)
           Fits == {i \in Blocks : FitsAt(bitmap[chain[k]], n, i)}
           Servers == {j \in 1 .. Len(chain) : \E i \in Blocks : Serves(chain[j], size, i)}
<1>1. chain[k] \in added /\ Len(chain) \in Nat
  BY DEF HInv, TypeOK
<1>2. Fits \subseteq Nat /\ Fits # {}
  BY BlockCountPositive DEF Blocks
<1>3. PICK i \in Fits : \A j \in Fits : i <= j
  BY <1>2, LeastNatural
<1>4. i \in Blocks /\ FirstFit(bitmap[chain[k]], n, i)
  BY <1>2, <1>3, BlockCountPositive DEF FirstFit, Blocks
<1>5. LargeEnough(chain[k], size)
  BY <1>1, <1>4, FitIsLargeEnough DEF FirstFit
<1>6. k \in Servers
  BY <1>4, <1>5 DEF Serves
<1>7. Servers \subseteq Nat
  BY <1>1
<1> HIDE DEF Fits
<1>8. PICK m \in Servers : \A j \in Servers : m <= j
  BY <1>6, <1>7, LeastNatural
<1>9. FirstServer(size, m)
  BY <1>1, <1>7, <1>8 DEF FirstServer
<1> QED
  BY <1>8, <1>9 DEF CanServe

\* memheap_alloc returns NULL only when no superblock of its list has a long
\* enough run of free blocks: the test on the used counter turns nothing away.
THEOREM NothingFalselyRejected ==
    ASSUME 0 \notin Sizes
    PROVE  Spec => []NoFalseRejection
<1>1. HInv => NoFalseRejection
  BY RoomIsServed, SizesAssumption DEF NoFalseRejection
<1> QED
  BY <1>1, HeapInvariance, PTL

-----------------------------------------------------------------------------
(* Refinement.  A free of an allocation whose superblock the list has lost    *)
(* changes nothing, so the refinement needs the list to be complete, and for  *)
(* that no superblock may lie at NULL.                                        *)

Listed == {chain[k] : k \in 1 .. Len(chain)}

\* As long as NULL is no superblock the list leads to every superblock added.
AllListed == NULL \notin added => added = Listed

LEMMA AllListedStep ==
    ASSUME HInv, AllListed, [Next]_vars
    PROVE  AllListed'
<1>1. ASSUME NEW s \in Superblocks, memheap_add_block(s)
      PROVE  AllListed'
  <2> SUFFICES ASSUME NULL \notin added' PROVE added' = Listed'
    BY DEF AllListed
  <2>1. /\ s # NULL /\ NULL \notin added /\ added' = added \cup {s}
        /\ chain' = <<s>> \o chain
    BY <1>1 DEF memheap_add_block
  <2>2. chain \in Seq(added) /\ Len(chain) \in Nat
    BY DEF HInv, TypeOK
  <2>3. /\ Len(chain') = Len(chain) + 1 /\ chain'[1] = s
        /\ \A k \in 1 .. Len(chain) : chain'[k + 1] = chain[k]
    BY <2>1, <2>2
  <2>4. ASSUME NEW t \in added PROVE t \in Listed'
    <3>1. PICK k \in 1 .. Len(chain) : chain[k] = t
      BY <2>1, <2>4 DEF AllListed, Listed
    <3>2. k + 1 \in 1 .. Len(chain') /\ chain'[k + 1] = t
      BY <2>2, <2>3, <3>1
    <3> QED
      BY <3>2 DEF Listed
  <2>5. s \in Listed'
    BY <2>2, <2>3 DEF Listed
  <2>6. ASSUME NEW k \in 1 .. Len(chain') PROVE chain'[k] \in added'
    <3>1. CASE k = 1
      BY <2>1, <2>3, <3>1
    <3>2. CASE k # 1
      <4>1. k - 1 \in 1 .. Len(chain) /\ chain'[k] = chain[k - 1]
        BY <2>2, <2>3, <2>6, <3>2
      <4> QED
        BY <2>1, <2>2, <4>1
    <3> QED
      BY <3>1, <3>2
  <2> QED
    BY <2>1, <2>4, <2>5, <2>6 DEF Listed
<1>2. CASE UNCHANGED <<chain, added>>
  BY <1>2 DEF AllListed, Listed
<1> QED
  BY <1>1, <1>2
     DEF Next, memheap_alloc, memheap_alloc_fails, memheap_free, vars

\* The blocks memory counts as taken: the abstract variable busy.
Busy == {p \in added \X Blocks : p[2] >= Reserved /\ bitmap[p[1]][p[2]] # FREE}

Owned == {<<a.sb, a.start, a.len>> : a \in live}

LEMMA InitRefines == Init => Abstract!PoolInit
<1> SUFFICES ASSUME Init PROVE Abstract!PoolInit
  OBVIOUS
<1>1. Busy = {} /\ Owned = {} /\ added = {}
  BY DEF Init, Busy, Owned
<1> QED
  BY <1>1 DEF Abstract!PoolInit, Busy, Owned

LEMMA AddRefines ==
    ASSUME HInv, NEW s \in Superblocks, memheap_add_block(s)
    PROVE  Abstract!Extend
<1>1. /\ s \notin added /\ added' = added \cup {s} /\ live' = live
      /\ bitmap' = [bitmap EXCEPT ![s] =
                       [b \in Blocks |-> IF b < Reserved THEN 1 ELSE FREE]]
  BY DEF memheap_add_block
<1>2. /\ added \subseteq Superblocks
      /\ bitmap'[s] = [b \in Blocks |-> IF b < Reserved THEN 1 ELSE FREE]
      /\ \A t \in added : bitmap'[t] = bitmap[t]
  BY <1>1 DEF HInv, TypeOK
<1>3. \A b \in Blocks : b >= Reserved => bitmap'[s][b] = FREE
  BY <1>2, ReservedRange, BlockCountPositive DEF Blocks
<1>4. Busy' = Busy
  <2>1. Busy' = {p \in (added \cup {s}) \X Blocks :
                    p[2] >= Reserved /\ bitmap'[p[1]][p[2]] # FREE}
    BY <1>1 DEF Busy
  <2> QED
    BY <1>1, <1>2, <1>3, <2>1 DEF Busy
<1>5. Owned' = Owned
  BY <1>1 DEF Owned
<1> QED
  BY <1>1, <1>4, <1>5 DEF Abstract!Extend, Busy, Owned

LEMMA MarksRefines ==
    ASSUME HInv, NEW s, NEW i, NEW n, NEW id, Marks(s, i, n, id)
    PROVE  Abstract!Grant
<1> DEFINE r == <<s, i, n>>
           Usable == Reserved .. BlockCount - 1
           Blks == {s} \X (i .. i + n - 1)
<1>1. /\ s \in added /\ s \in Superblocks
      /\ i \in Blocks /\ i \in Nat /\ n \in Nat /\ n >= 1
      /\ Reserved <= i /\ i + n <= BlockCount
      /\ \A b \in Run(i, n) : bitmap[s][b] = FREE
      /\ Reserved \in Nat /\ BlockCount \in Nat
      /\ id # FREE
      /\ added' = added /\ live' = live \cup {[sb |-> s, start |-> i, len |-> n]}
      /\ bitmap' = [bitmap EXCEPT ![s] =
             [b \in Blocks |-> IF b \in Run(i, n) THEN id ELSE bitmap[s][b]]]
  BY ReservedRange, BlockCountPositive DEF Marks, HInv, TypeOK, Blocks, FREE
<1>2. /\ added \subseteq Superblocks
      /\ \A t \in added \ {s} : bitmap'[t] = bitmap[t]
      /\ \A b \in Blocks : bitmap'[s][b] = IF b \in Run(i, n) THEN id ELSE bitmap[s][b]
  BY <1>1 DEF HInv, TypeOK
<1>3. Run(i, n) = i .. i + n - 1 /\ Run(i, n) \subseteq Blocks /\ Run(i, n) \subseteq Usable
  BY <1>1 DEF Run, Blocks
<1>4. Blks \subseteq ({s} \X Usable) \ Busy
  BY <1>1, <1>3 DEF Busy
<1>5. Busy' = Busy \cup Blks
  <2>1. ASSUME NEW p \in Busy' PROVE p \in Busy \cup Blks
    BY <1>1, <1>2, <1>3 DEF Busy
  <2>2. ASSUME NEW p \in Busy PROVE p \in Busy'
    BY <1>1, <1>2, <1>3 DEF Busy
  <2>3. ASSUME NEW p \in Blks PROVE p \in Busy'
    <3>1. p[1] = s /\ p[2] \in Run(i, n) /\ p \in added \X Blocks
      BY <1>1, <1>3
    <3> QED
      BY <1>1, <1>2, <1>3, <3>1 DEF Busy
  <2> QED
    BY <2>1, <2>2, <2>3
<1>6. Owned' = Owned \cup {r}
  <2> DEFINE new == [sb |-> s, start |-> i, len |-> n]
             Key(a) == <<a.sb, a.start, a.len>>
  <2>1. Key(new) = r
    OBVIOUS
  <2> HIDE DEF new, Key
  <2>2. {Key(a) : a \in live \cup {new}} = {Key(a) : a \in live} \cup {r}
    BY <2>1
  <2> QED
    BY <1>1, <2>2 DEF Owned, Key, new
<1>7. /\ i \in Usable /\ i + n - 1 \in Usable /\ i <= i + n - 1
      /\ r = <<s, i, (i + n - 1) - i + 1>>
  BY <1>1
<1>8. Abstract!RunBlocks(r) = Blks
  BY DEF Abstract!RunBlocks
<1> DEFINE last == i + n - 1
<1> HIDE DEF Blks, r, last
<1>9. /\ last \in Usable /\ i \in Usable /\ i <= last /\ r = <<s, i, last - i + 1>>
  BY <1>7 DEF last
<1> QED
  BY <1>1, <1>4, <1>5, <1>6, <1>8, <1>9 DEF Abstract!Grant, Busy, Owned

LEMMA FreeRefines ==
    ASSUME HInv, AllListed, NULL \notin Superblocks,
           NEW a \in live, memheap_free(a)
    PROVE  Abstract!Release
<1> DEFINE s == a.sb
           r == <<a.sb, a.start, a.len>>
           Blks == {s} \X (a.start .. a.start + a.len - 1)
<1>1. /\ a \in Allocation /\ a.len >= 1 /\ s \in added /\ s \in Superblocks
      /\ a.start \in Nat /\ a.len \in Nat /\ BlockCount \in Nat
      /\ Reserved \in Nat /\ added \subseteq Superblocks
      /\ live' = live \ {a} /\ added' = added
  BY BlockCountPositive, ReservedRange
     DEF memheap_free, HInv, TypeOK, LiveProper, Allocation, Blocks
<1>2. \E k \in 1 .. Len(chain) : chain[k] = s
  BY <1>1 DEF AllListed, Listed
<1>3. bitmap' = [bitmap EXCEPT ![s] =
             [b \in Blocks |-> IF b \in BlocksOf(a) THEN FREE ELSE bitmap[s][b]]]
  BY <1>1, <1>2, FreeRunExact DEF memheap_free, HInv, TypeOK
<1>4. /\ \A t \in added \ {s} : bitmap'[t] = bitmap[t]
      /\ \A b \in Blocks : bitmap'[s][b] = IF b \in BlocksOf(a) THEN FREE ELSE bitmap[s][b]
  BY <1>1, <1>3 DEF HInv, TypeOK
<1>5. /\ BlocksOf(a) = a.start .. a.start + a.len - 1
      /\ BlocksOf(a) \subseteq Blocks
      /\ \A b \in BlocksOf(a) : b >= Reserved /\ bitmap[s][b] # FREE
  <2>1. BlocksOf(a) \subseteq Reserved .. BlockCount - 1
    BY DEF HInv, LiveDisjoint
  <2> QED
    BY <1>1, <2>1 DEF BlocksOf, Run, Blocks, HInv, Delimited
<1>6. Blks \subseteq Busy
  BY <1>1, <1>5 DEF Busy
<1>7. Busy' = Busy \ Blks
  <2>1. ASSUME NEW p \in Busy' PROVE p \in Busy /\ p \notin Blks
    BY <1>1, <1>4, <1>5 DEF Busy
  <2>2. ASSUME NEW p \in Busy, p \notin Blks PROVE p \in Busy'
    <3>1. p \in added \X Blocks /\ p = <<p[1], p[2]>>
      BY <2>2 DEF Busy
    <3>2. p[1] = s => p[2] \notin BlocksOf(a)
      BY <1>5, <2>2, <3>1
    <3> QED
      BY <1>1, <1>4, <2>2, <3>1, <3>2 DEF Busy
  <2> QED
    BY <2>1, <2>2
<1>8. ASSUME NEW c \in live, <<c.sb, c.start, c.len>> = r PROVE c = a
  <2>1. /\ c \in [sb : Superblocks, start : Blocks, len : 0 .. BlockCount]
        /\ a \in [sb : Superblocks, start : Blocks, len : 0 .. BlockCount]
    BY DEF HInv, TypeOK, Allocation
  <2>2. c.sb = a.sb /\ c.start = a.start /\ c.len = a.len
    BY <1>8
  <2> QED
    BY <2>1, <2>2
<1>9. Owned' = Owned \ {r} /\ r \in Owned
  BY <1>1, <1>8 DEF Owned
<1> QED
  BY <1>1, <1>6, <1>7, <1>9 DEF Abstract!Release, Abstract!RunBlocks, Busy, Owned

LEMMA StepRefines ==
    ASSUME 0 \notin Sizes, NULL \notin Superblocks
    PROVE  HInv /\ AllListed /\ [Next]_vars =>
              [Abstract!PoolNext]_(Abstract!poolVars)
<1> SUFFICES ASSUME HInv, AllListed, [Next]_vars
             PROVE  Abstract!PoolNext \/ UNCHANGED Abstract!poolVars
  OBVIOUS
<1>1. ASSUME NEW s \in Superblocks, memheap_add_block(s) PROVE Abstract!Extend
  BY <1>1, AddRefines
<1>2. ASSUME NEW size \in Sizes, memheap_alloc(size) PROVE Abstract!Grant
  BY <1>2, AllocMarks, MarksRefines
<1>3. ASSUME NEW a \in live, memheap_free(a) PROVE Abstract!Release
  BY <1>3, FreeRefines
<1>4. CASE UNCHANGED vars
  <2>1. Busy' = Busy /\ Owned' = Owned /\ added' = added
    BY <1>4 DEF vars, Busy, Owned
  <2> QED
    BY <2>1 DEF Abstract!poolVars, Busy, Owned
<1> QED
  BY <1>1, <1>2, <1>3, <1>4 DEF Next, memheap_alloc_fails, Abstract!PoolNext

\* The heap of heap.c - bitmap bytes, identifiers, a counter, a list - implements
\* an allocator that remembers who owns which blocks: an allocation takes free
\* blocks and a free returns exactly the blocks of what is freed.  No superblock
\* may lie at NULL, the list's end marker.
THEOREM ImplementsBlockPool ==
    ASSUME 0 \notin Sizes, NULL \notin Superblocks
    PROVE  Spec => RefinesBlockPool
<1>1. Init => AllListed
  <2> SUFFICES ASSUME Init PROVE added = Listed
    BY DEF AllListed
  <2>1. added = {} /\ Len(chain) = 0
    BY DEF Init
  <2> QED
    BY <2>1 DEF Listed
<1>2. HInv /\ AllListed /\ [Next]_vars => AllListed'
  BY AllListedStep
<1>3. HInv /\ AllListed /\ [Next]_vars => [Abstract!PoolNext]_(Abstract!poolVars)
  BY StepRefines
<1> QED
  BY <1>1, <1>2, <1>3, InitRefines, HeapInvariance, PTL
     DEF Spec, RefinesBlockPool, Abstract!PoolSpec
=============================================================================
