----------------------------- MODULE VgaProofs ------------------------------
(***************************************************************************)
(* The text console and the dynamic array that holds its lines.             *)
(*                                                                         *)
(* For any elements, any comparison and any sizes: the array holds no        *)
(* element it has given away, and it behaves as a list.  For a screen of any *)
(* size, any text and any scrolling: the cursor stays on the screen, the     *)
(* window on the lines, and scrolling loses nothing.                         *)
(***************************************************************************)
EXTENDS Vga, Array, SequenceTheorems, TLAPS

-----------------------------------------------------------------------------
(* The dynamic array.                                                      *)

\* No element is stored twice: callers add an element that is not in the array.
\* Without it the removal of one copy would leave the other dangling.
StoredOnce == \A j, k \in Slots(used) : data[j] = data[k] => j = k

ArrayInv == TypeOK /\ NoDanglingElement /\ StoredOnce

LEMMA SlotFacts ==
    ASSUME ArrayInv
    PROVE  /\ size \in Nat /\ used \in Nat /\ used <= size
           /\ \A k \in Slots(used) : /\ k \in Slots(size) /\ k \in Nat
                                     /\ data[k] \in Elems /\ data[k] \notin disposed
BY SizeAssumption DEF ArrayInv, TypeOK, NoDanglingElement, Stored, Slots

LEMMA AddArrayInv ==
    ASSUME ArrayInv, NEW e \in Elems, array_add(e)
    PROVE  /\ ArrayInv'
           /\ used' = used + 1 /\ data'[used] = e
           /\ \A k \in Slots(used) : data'[k] = data[k] /\ data[k] # e
<1>1. /\ size > 0 /\ e \notin Stored /\ NextSize <= MaxSize /\ size' = NextSize
      /\ used' = used + 1 /\ disposed' = disposed \ {e}
      /\ data' = IF NextSize = size THEN [data EXCEPT ![used] = e]
                 ELSE [Grown(NextSize) EXCEPT ![used] = e]
    BY DEF array_add
<1>2. /\ size \in Nat /\ used \in Nat /\ used <= size /\ MaxSize \in Nat
      /\ data \in [Slots(size) -> Elems \cup {Junk}]
    BY SlotFacts, SizeAssumption DEF ArrayInv, TypeOK
<1>3. NextSize \in Nat /\ used + 1 <= NextSize /\ size <= NextSize
      /\ used \in Slots(NextSize) /\ (NextSize = size => used < size)
    BY <1>1, <1>2 DEF NextSize, growth_factor, Slots
<1>4. Grown(NextSize) \in [Slots(NextSize) -> Elems \cup {Junk}]
      /\ \A k \in Slots(used) : Grown(NextSize)[k] = data[k]
    <2>1. \A k \in Slots(NextSize) : k < used => k \in Slots(size)
        BY <1>2, <1>3 DEF Slots
    <2>2. \A k \in Slots(used) : k < used /\ k \in Slots(NextSize)
        BY <1>2, <1>3 DEF Slots
    <2>3. QED
        BY <1>2, <2>1, <2>2 DEF Grown
<1>5. /\ data' \in [Slots(NextSize) -> Elems \cup {Junk}]
      /\ data'[used] = e
      /\ \A k \in Slots(used) : data'[k] = data[k]
    <2>1. \A k \in Slots(used) : k # used /\ k \in Slots(NextSize)
        BY <1>2, <1>3 DEF Slots
    <2>2. CASE NextSize = size
        BY <1>1, <1>2, <1>3, <2>1, <2>2
    <2>3. CASE NextSize # size
        <3> DEFINE g == Grown(NextSize)
        <3>1. data' = [g EXCEPT ![used] = e]
            BY <1>1, <2>3
        <3>2. g \in [Slots(NextSize) -> Elems \cup {Junk}] /\ \A k \in Slots(used) : g[k] = data[k]
            BY <1>4
        <3> HIDE DEF g
        <3>3. QED
            BY <1>3, <2>1, <3>1, <3>2
    <2>4. QED
        BY <2>2, <2>3
<1>6. \A k \in Slots(used) : data[k] # e
    BY <1>1 DEF Stored
<1>7. Slots(used') = Slots(used) \cup {used} /\ used \notin Slots(used)
    BY <1>1, <1>2 DEF Slots
<1>8. TypeOK'
    <2>1. size' \in 0 .. MaxSize /\ used' \in 0 .. size'
        BY <1>1, <1>2, <1>3
    <2>2. disposed' \subseteq Elems
        BY <1>1 DEF ArrayInv, TypeOK
    <2>3. QED
        BY <1>1, <1>5, <2>1, <2>2 DEF TypeOK
<1>9. NoDanglingElement'
    <2>1. \A k \in Slots(used) \cup {used} : data'[k] \in Elems /\ data'[k] \notin disposed'
        BY <1>1, <1>5, SlotFacts
    <2>2. QED
        BY <1>7, <2>1 DEF NoDanglingElement, Stored
<1>10. StoredOnce'
    <2>1. \A j, k \in Slots(used) \cup {used} : data'[j] = data'[k] => j = k
        BY <1>5, <1>6 DEF ArrayInv, StoredOnce
    <2>2. QED
        BY <1>7, <2>1 DEF StoredOnce
<1>11. QED
    BY <1>1, <1>5, <1>6, <1>8, <1>9, <1>10 DEF ArrayInv

\* A removal closes the gap, and what it disposes of was stored in one slot only.
LEMMA RemoveArrayInv ==
    ASSUME ArrayInv, NEW e \in Elems, NEW accepted, remove_elem(e, accepted)
    PROVE  /\ ArrayInv'
           /\ \E k \in Slots(used) :
                 /\ Matches(e, k, accepted)
                 /\ \A j \in 0 .. k - 1 : ~Matches(e, j, accepted)
                 /\ disposed' = disposed \cup {data[k]}
                 /\ used' = used - 1
                 /\ \A j \in Slots(used - 1) : data'[j] = IF j < k THEN data[j] ELSE data[j + 1]
<1>1. PICK k \in Slots(used) :
         /\ Matches(e, k, accepted)
         /\ \A j \in 0 .. k - 1 : ~Matches(e, j, accepted)
         /\ disposed' = disposed \cup {data[k]}
         /\ data' = Shifted(k)
    BY DEF remove_elem, Disposed
<1>2. used' = used - 1 /\ size' = size
    BY DEF remove_elem
<1>3. /\ size \in Nat /\ used \in Nat /\ used <= size /\ k \in Nat /\ k < used
      /\ data \in [Slots(size) -> Elems \cup {Junk}] /\ size \in 0 .. MaxSize
      /\ disposed \subseteq Elems /\ data[k] \in Elems
    BY SlotFacts DEF ArrayInv, TypeOK, Slots
<1>4. data' \in [Slots(size) -> Elems \cup {Junk}]
      /\ \A s \in Slots(size) : data'[s] = IF s >= k /\ s < size - 1 THEN data[s + 1] ELSE data[s]
    <2>1. \A s \in Slots(size) : s < size - 1 => s + 1 \in Slots(size)
        BY <1>3 DEF Slots
    <2>2. QED
        BY <1>1, <1>3, <2>1 DEF Shifted
<1> DEFINE Origin(j) == IF j < k THEN j ELSE j + 1
<1>5. ASSUME NEW j \in Slots(used - 1)
      PROVE  Origin(j) \in Slots(used) /\ Origin(j) # k /\ data'[j] = data[Origin(j)]
    <2>1. j \in Slots(size) /\ j \in Nat /\ j < size - 1
        BY <1>3 DEF Slots
    <2>2. QED
        BY <1>3, <1>4, <2>1 DEF Slots
<1>6. TypeOK'
    BY <1>1, <1>2, <1>3, <1>4 DEF TypeOK
<1>7. NoDanglingElement'
    <2>1. \A j \in Slots(used - 1) : data'[j] \in Elems /\ data'[j] \notin disposed'
        BY <1>1, <1>5, SlotFacts DEF ArrayInv, StoredOnce
    <2>2. QED
        BY <1>2, <2>1 DEF NoDanglingElement, Stored
<1>8. StoredOnce'
    <2>1. ASSUME NEW i \in Slots(used - 1), NEW j \in Slots(used - 1), data'[i] = data'[j]
          PROVE  i = j
        <3>1. Origin(i) = Origin(j)
            BY <1>5, <2>1 DEF ArrayInv, StoredOnce
        <3>2. i \in Nat /\ j \in Nat
            BY <1>3 DEF Slots
        <3>3. QED
            BY <1>3, <3>1, <3>2
    <2>2. QED
        BY <1>2, <2>1 DEF StoredOnce
<1>9. \A j \in Slots(used - 1) : data'[j] = IF j < k THEN data[j] ELSE data[j + 1]
    BY <1>5
<1>10. QED
    BY <1>1, <1>2, <1>6, <1>7, <1>8, <1>9 DEF ArrayInv

LEMMA EmptyArrayInv ==
    ASSUME size \in 0 .. MaxSize, used = 0, disposed \subseteq Elems,
           data \in [Slots(size) -> Elems \cup {Junk}]
    PROVE  ArrayInv
<1>1. Slots(0) = {}
    BY DEF Slots
<1>2. used \in 0 .. size
    BY SizeAssumption
<1>3. QED
    BY <1>1, <1>2 DEF ArrayInv, TypeOK, NoDanglingElement, Stored, StoredOnce

LEMMA NextArrayInv == ArrayInv /\ [Next]_vars => ArrayInv'
<1> SUFFICES ASSUME ArrayInv, [Next]_vars PROVE ArrayInv'
    OBVIOUS
<1>1. CASE array_create
    <2>1. /\ size' \in 0 .. MaxSize /\ used' = 0 /\ disposed' \subseteq Elems
          /\ data' \in [Slots(size') -> Elems \cup {Junk}]
        BY <1>1, SizeAssumption DEF array_create, ArrayInv, TypeOK
    <2>2. Slots(0) = {} /\ used' \in 0 .. size'
        BY <2>1, SizeAssumption DEF Slots
    <2>3. QED
        BY <2>1, <2>2 DEF ArrayInv, TypeOK, NoDanglingElement, Stored, StoredOnce
<1>2. CASE array_destroy
    <2>1. size' = 0 /\ used' = 0 /\ data' = [k \in {} |-> Junk] /\ Slots(0) = {}
        BY <1>2 DEF array_destroy, Slots
    <2>2. disposed' \subseteq Elems
        BY <1>2 DEF array_destroy, ArrayInv, TypeOK, NoDanglingElement
    <2>3. 0 \in 0 .. MaxSize /\ 0 \in 0 .. 0
        BY SizeAssumption
    <2>4. QED
        BY <2>1, <2>2, <2>3 DEF ArrayInv, TypeOK, NoDanglingElement, Stored, StoredOnce
<1>3. CASE UNCHANGED vars
    BY <1>3 DEF vars, ArrayInv, TypeOK, NoDanglingElement, Stored, StoredOnce
<1>4. QED
    BY <1>1, <1>2, <1>3, AddArrayInv, RemoveArrayInv DEF Next, remove_elem_fails

LEMMA InitArrayInv == Init => ArrayInv
<1>1. ASSUME Init PROVE data \in [Slots(size) -> Elems \cup {Junk}] /\ size \in 0 .. MaxSize
    BY <1>1, SizeAssumption DEF Init, Slots
<1>2. QED
    BY <1>1, EmptyArrayInv DEF Init

\* ArrayInv, the invariant behind the theorems below, holds in every state.
THEOREM ArrayInvariance == Spec => []ArrayInv
BY InitArrayInv, NextArrayInv, PTL DEF Spec

\* `used` never exceeds `size`, and the buffer has `size` slots, however often
\* array_add replaced it (array_add, remove_elem).
THEOREM ArrayTypeCorrect == Spec => []TypeOK
<1>1. ArrayInv => TypeOK
    BY DEF ArrayInv
<1>2. QED
    BY <1>1, ArrayInvariance, PTL

\* The array never holds what was given to del or kfree, nor a slot nobody wrote
\* (remove_elem, array_add).
THEOREM NothingDangles == Spec => []NoDanglingElement
<1>1. ArrayInv => NoDanglingElement
    BY DEF ArrayInv
<1>2. QED
    BY <1>1, ArrayInvariance, PTL
-----------------------------------------------------------------------------
(* The array implements a list.                                            *)

LEMMA ContentsFacts ==
    ASSUME ArrayInv
    PROVE  /\ Contents \in Seq(Elems) /\ Len(Contents) = used
           /\ \A k \in 1 .. used : Contents[k] = data[k - 1] /\ k - 1 \in Slots(used)
           /\ {Contents[k] : k \in 1 .. used} = Stored
<1>1. used \in Nat /\ \A k \in Slots(used) : data[k] \in Elems
    BY SlotFacts
<1>2. \A k \in 1 .. used : k - 1 \in Slots(used)
    BY <1>1 DEF Slots
<1>3. \A k \in 1 .. used : Contents[k] = data[k - 1]
    BY DEF Contents
<1>4. Contents \in [1 .. used -> Elems]
    BY <1>1, <1>2 DEF Contents
<1>5. Contents \in Seq(Elems) /\ Len(Contents) = used
    <2> HIDE DEF Contents
    <2>1. QED
        BY <1>1, <1>4
<1>6. {Contents[k] : k \in 1 .. used} = Stored
    <2>1. \A j \in Slots(used) : j + 1 \in 1 .. used /\ (j + 1) - 1 = j
        BY <1>1 DEF Slots
    <2> HIDE DEF Contents
    <2>2. \A k \in 1 .. used : Contents[k] \in Stored
        BY <1>2, <1>3 DEF Stored
    <2>3. \A j \in Slots(used) : data[j] = Contents[j + 1]
        BY <1>3, <2>1
    <2>4. \A x \in Stored : x \in {Contents[k] : k \in 1 .. used}
        BY <2>1, <2>3 DEF Stored
    <2>5. QED
        BY <2>2, <2>4
<1>7. QED
    BY <1>2, <1>3, <1>5, <1>6

\* What taking out the k-th element leaves.
LEMMA TakenOut ==
    ASSUME NEW S, NEW s \in Seq(S), NEW k \in 1 .. Len(s), NEW r \in Seq(S),
           Len(r) = Len(s) - 1,
           \A j \in 1 .. Len(s) - 1 : r[j] = IF j < k THEN s[j] ELSE s[j + 1]
    PROVE  r = SubSeq(s, 1, k - 1) \o SubSeq(s, k + 1, Len(s))
<1> DEFINE n == Len(s)
           front == SubSeq(s, 1, k - 1)
           back == SubSeq(s, k + 1, n)
           whole == front \o back
<1>1. n \in Nat /\ k \in 1 .. n /\ \A j \in 1 .. n : s[j] \in S
    OBVIOUS
<1>2. front \in Seq(S) /\ Len(front) = k - 1 /\ \A j \in 1 .. k - 1 : front[j] = s[j]
    <2>1. k - 1 \in Int /\ \A j \in 1 .. k - 1 : s[j] \in S
        BY <1>1
    <2>2. /\ front \in Seq(S) /\ Len(front) = IF 1 <= k - 1 THEN (k - 1) - 1 + 1 ELSE 0
          /\ \A j \in 1 .. (k - 1) - 1 + 1 : front[j] = s[1 + j - 1]
        BY <2>1, SubSeqProperties
    <2> HIDE DEF front
    <2>3. QED
        BY <1>1, <2>2
<1>3. back \in Seq(S) /\ Len(back) = n - k /\ \A j \in 1 .. n - k : back[j] = s[k + j]
    <2>2. /\ back \in Seq(S) /\ Len(back) = IF k + 1 <= n THEN n - (k + 1) + 1 ELSE 0
          /\ \A j \in 1 .. n - (k + 1) + 1 : back[j] = s[(k + 1) + j - 1]
        BY <1>1, SubSeqProperties
    <2>3. \A j \in 1 .. n - k : j \in 1 .. n - (k + 1) + 1 /\ (k + 1) + j - 1 = k + j
        BY <1>1
    <2> HIDE DEF back
    <2>4. QED
        BY <1>1, <2>2, <2>3
<1> HIDE DEF front, back
<1>4. whole \in Seq(S) /\ Len(whole) = n - 1
      /\ \A j \in 1 .. n - 1 : whole[j] = IF j <= k - 1 THEN front[j] ELSE back[j - (k - 1)]
    <2>1. /\ whole \in Seq(S) /\ Len(whole) = Len(front) + Len(back)
          /\ \A j \in 1 .. Len(front) + Len(back) :
                whole[j] = IF j <= Len(front) THEN front[j] ELSE back[j - Len(front)]
        BY <1>2, <1>3, ConcatProperties
    <2> HIDE DEF whole
    <2>2. QED
        BY <1>1, <1>2, <1>3, <2>1
<1> HIDE DEF whole, n
<1>5. ASSUME NEW j \in 1 .. n - 1 PROVE r[j] = whole[j]
    <2>1. CASE j <= k - 1
        BY <1>1, <1>2, <1>4, <2>1 DEF n
    <2>2. CASE j > k - 1
        <3>1. j - (k - 1) \in 1 .. n - k /\ k + (j - (k - 1)) = j + 1 /\ ~(j < k)
            BY <1>1, <2>2
        <3>2. whole[j] = s[j + 1]
            BY <1>1, <1>3, <1>4, <2>2, <3>1
        <3>3. QED
            BY <3>1, <3>2 DEF n
    <2>3. QED
        BY <1>1, <2>1, <2>2
<1>6. r = whole
    BY <1>4, <1>5, SeqEqual DEF n
<1>7. QED
    BY <1>6 DEF whole, front, back, n

LEMMA ListStep == ArrayInv /\ ArrayInv' /\ [Next]_vars => [List!ListNext]_(List!listVars)
<1> SUFFICES ASSUME ArrayInv, ArrayInv', [Next]_vars
             PROVE  [List!ListNext]_(List!listVars)
    OBVIOUS
<1>1. /\ Contents \in Seq(Elems) /\ Len(Contents) = used /\ used \in Nat
      /\ \A k \in 1 .. used : Contents[k] = data[k - 1] /\ k - 1 \in Slots(used)
      /\ {Contents[k] : k \in 1 .. used} = Stored
    BY ContentsFacts, SlotFacts
<1>2. /\ Contents' \in Seq(Elems) /\ Len(Contents') = used' /\ used' \in Nat
      /\ \A k \in 1 .. used' : Contents'[k] = data'[k - 1]
    <2>1. used' \in Nat /\ \A k \in Slots(used') : data'[k] \in Elems
        BY SizeAssumption DEF ArrayInv, TypeOK, NoDanglingElement, Stored, Slots
    <2>2. \A k \in 1 .. used' : k - 1 \in Slots(used')
        <3>1. \A u \in Nat : \A k \in 1 .. u : k - 1 \in Slots(u)
            BY DEF Slots
        <3>2. QED
            BY <2>1, <3>1
    <2>3. Contents' \in [1 .. used' -> Elems] /\ \A k \in 1 .. used' : Contents'[k] = data'[k - 1]
        BY <2>1, <2>2 DEF Contents
    <2> HIDE DEF Contents
    <2>4. QED
        BY <2>1, <2>3
<1> HIDE DEF Contents
<1>3. ASSUME NEW e \in Elems, array_add(e) PROVE List!PutIn
    <2>1. /\ used' = used + 1 /\ data'[used] = e
          /\ \A k \in Slots(used) : data'[k] = data[k] /\ data[k] # e
        BY <1>3, AddArrayInv
    <2>2. disposed' = disposed \ {e}
        BY <1>3 DEF array_add
    <2>3. \A k \in 1 .. Len(Contents) : Contents[k] # e
        BY <1>1, <2>1
    <2>4. Contents' = Append(Contents, e)
        <3> DEFINE s == Append(Contents, e)
        <3>1. /\ s \in Seq(Elems) /\ Len(s) = used + 1 /\ s[used + 1] = e
              /\ \A k \in 1 .. used : s[k] = Contents[k]
            BY <1>1
        <3> HIDE DEF s
        <3>2. ASSUME NEW k \in 1 .. used + 1 PROVE Contents'[k] = s[k]
            <4>1. CASE k = used + 1
                BY <1>1, <1>2, <2>1, <3>1, <4>1
            <4>2. CASE k \in 1 .. used
                BY <1>1, <1>2, <2>1, <3>1, <4>2
            <4>3. QED
                BY <1>1, <4>1, <4>2
        <3>3. Contents' = s
            BY <1>2, <2>1, <3>1, <3>2, SeqEqual
        <3>4. QED
            BY <3>3 DEF s
    <2>5. QED
        BY <2>2, <2>3, <2>4 DEF List!PutIn
<1>4. ASSUME NEW e \in Elems, NEW accepted \in {{}, Alike}, remove_elem(e, accepted)
      PROVE  List!TakeOut
    <2>1. PICK k \in Slots(used) :
             /\ Matches(e, k, accepted)
             /\ \A j \in 0 .. k - 1 : ~Matches(e, j, accepted)
             /\ disposed' = disposed \cup {data[k]}
             /\ used' = used - 1
             /\ \A j \in Slots(used - 1) : data'[j] = IF j < k THEN data[j] ELSE data[j + 1]
        BY <1>4, RemoveArrayInv
    <2>2. k \in Nat /\ k + 1 \in 1 .. used /\ (k + 1) - 1 = k
        BY <1>1 DEF Slots
    <2>3. Contents[k + 1] = data[k]
        BY <1>1, <2>2
    <2>4. e = Contents[k + 1] \/ <<e, Contents[k + 1]>> \in accepted
        BY <2>1, <2>3 DEF Matches
    <2>5. \A j \in 1 .. (k + 1) - 1 : e # Contents[j] /\ <<e, Contents[j]>> \notin accepted
        <3> SUFFICES ASSUME NEW j \in 1 .. (k + 1) - 1
                     PROVE  e # Contents[j] /\ <<e, Contents[j]>> \notin accepted
            OBVIOUS
        <3>1. j - 1 \in 0 .. k - 1 /\ j \in 1 .. used
            BY <1>1, <2>2
        <3>2. QED
            BY <1>1, <2>1, <3>1 DEF Matches
    <2>6. \A j \in 1 .. used - 1 :
             Contents'[j] = IF j < k + 1 THEN Contents[j] ELSE Contents[j + 1]
        <3> SUFFICES ASSUME NEW j \in 1 .. used - 1
                     PROVE  Contents'[j] = IF j < k + 1 THEN Contents[j] ELSE Contents[j + 1]
            OBVIOUS
        <3>1. /\ j - 1 \in Slots(used - 1) /\ j \in 1 .. used /\ j + 1 \in 1 .. used
              /\ (j - 1) + 1 = (j + 1) - 1 /\ (j - 1 < k <=> j < k + 1)
            BY <1>1, <2>2 DEF Slots
        <3>2. Contents'[j] = data'[j - 1]
            BY <1>2, <2>1
        <3>3. QED
            BY <1>1, <2>1, <3>1, <3>2
    <2>7. Contents' = SubSeq(Contents, 1, (k + 1) - 1) \o SubSeq(Contents, (k + 1) + 1, Len(Contents))
        <3>1. /\ k + 1 \in 1 .. Len(Contents) /\ Len(Contents') = Len(Contents) - 1
              /\ Len(Contents) - 1 = used - 1
            BY <1>1, <1>2, <2>1, <2>2
        <3>2. QED
            BY <1>1, <1>2, <2>6, <3>1, TakenOut
    <2> DEFINE p == k + 1
    <2>8. /\ p \in 1 .. Len(Contents) /\ disposed' = disposed \cup {Contents[p]}
          /\ e = Contents[p] \/ <<e, Contents[p]>> \in accepted
          /\ \A j \in 1 .. p - 1 : e # Contents[j] /\ <<e, Contents[j]>> \notin accepted
          /\ Contents' = List!RemoveAt(Contents, p)
        BY <1>1, <2>1, <2>2, <2>3, <2>4, <2>5, <2>7 DEF List!RemoveAt
    <2> HIDE DEF p
    <2>9. QED
        BY <2>8 DEF List!TakeOut
<1>5. CASE array_destroy
    <2>1. used' = 0 /\ disposed' = disposed \cup Stored
        BY <1>5 DEF array_destroy
    <2>2. Contents' = <<>>
        BY <1>2, <2>1
    <2>3. List!DisposeAll
        BY <1>1, <2>1, <2>2 DEF List!DisposeAll
    <2>4. QED
        BY <2>3 DEF List!ListNext
<1>6. CASE array_create
    <2>1. size = 0 /\ used = 0 /\ used' = 0 /\ UNCHANGED disposed
        BY <1>6 DEF array_create, ArrayInv, TypeOK
    <2>2. Contents = <<>> /\ Contents' = <<>>
        BY <1>1, <1>2, <2>1
    <2>3. QED
        BY <2>1, <2>2 DEF List!listVars
<1>7. CASE UNCHANGED vars
    BY <1>7 DEF vars, List!listVars, Contents
<1>8. QED
    BY <1>3, <1>4, <1>5, <1>6, <1>7 DEF Next, remove_elem_fails, List!ListNext

\* However the buffer is replaced and shifted, the array behaves as a list: growing
\* keeps every element in place, a removal takes out the first match only, closes
\* the gap and disposes of what was stored (array_add, remove_elem, array_destroy).
THEOREM ImplementsList == Spec => RefinesList
<1>1. Init => List!ListInit
    BY DEF Init, List!ListInit, Contents
<1>2. QED
    BY <1>1, ArrayInvariance, ListStep, PTL DEF Spec, RefinesList, List!ListSpec

-----------------------------------------------------------------------------
(* The console.                                                            *)

Cells   == Chars \cup {Unset}
Screens == [x : Cols, y : Rows, buf : [Rows -> [Cols -> Cells]],
            lines : Seq([Cols -> Cells]), line_number : Nat]

TextCols == 0 .. KeyCol - 1

\* Everything left of the reserved columns was written by somebody: what
\* vga_dynamic_init left unwritten lies in the lines of the window only, which
\* save_buffer overwrites before any other line is drawn.
VgaInv ==
    /\ screen \in Screens
    /\ ready \in BOOLEAN /\ fault \in BOOLEAN
    /\ ~ready => screen.lines = <<>> /\ screen.line_number = 0
    /\ WindowOnLines
    /\ \A k \in 1 .. DocLen : \A j \in TextCols : DocRow(screen, k)[j] # Unset
-----------------------------------------------------------------------------
(* The screen's geometry.                                                  *)

LEMMA Geometry ==
    /\ Width \in Nat /\ Height \in Nat /\ KeyCol \in Nat /\ ClockCol \in Nat
    /\ 2 <= Height /\ Height <= KeyCol /\ KeyCol < ClockCol /\ ClockCol < Width
    /\ Rows \subseteq Nat /\ Cols \subseteq Nat /\ TextCols \subseteq Cols
    /\ 0 \in Rows /\ 1 \in Rows /\ 0 \in Cols /\ KeyCol \in Cols /\ ClockCol \in Cols
BY GeometryAssumption DEF Rows, Cols, TextCols

\* Both reserved columns lie to the right of the text.
LEMMA TextCopied == \A i \in Rows, j \in TextCols : Copied(i, j)
BY Geometry DEF Copied, reserved, TextCols

\* vga_putc gives reserved its arguments in the wrong order: there are fewer rows
\* than the first reserved column, so it never stops.
LEMMA NeverReserved == \A e, y : y \in Rows => ~reserved(e, y)
BY Geometry DEF reserved, Rows

LEMMA LineTypes == BlankLine \in [Cols -> Cells] /\ UnsetLine \in [Cols -> Cells]
BY CharsAssumption DEF BlankLine, UnsetLine, Cells

-----------------------------------------------------------------------------
(* Saving, drawing and scrolling.                                          *)

LEMMA SaveFacts ==
    ASSUME NEW s \in Screens, s.line_number + Height <= Len(s.lines)
    PROVE  LET r == save_buffer(s) IN
           /\ r \in Screens /\ r.x = s.x /\ r.y = s.y /\ r.buf = s.buf
           /\ r.line_number = s.line_number /\ Len(r.lines) = Len(s.lines)
           /\ \A k \in 1 .. Len(s.lines) : \A j \in TextCols : r.lines[k][j] = DocRow(s, k)[j]
<1> DEFINE n == Len(s.lines)
           Saved(k) == LET i == k - 1 - s.line_number
                       IN  IF i \in Rows
                           THEN [j \in Cols |-> IF Copied(i, j) THEN s.buf[i][j]
                                                                ELSE s.lines[k][j]]
                           ELSE s.lines[k]
           L == [k \in 1 .. n |-> Saved(k)]
<1>1. /\ s.lines \in Seq([Cols -> Cells]) /\ n \in Nat /\ s.line_number \in Nat
      /\ s.buf \in [Rows -> [Cols -> Cells]]
    BY DEF Screens
<1>2. save_buffer(s) = [s EXCEPT !.lines = L]
    BY DEF save_buffer
<1>3. ASSUME NEW k \in 1 .. n
      PROVE  /\ Saved(k) \in [Cols -> Cells]
             /\ \A j \in TextCols : Saved(k)[j] = DocRow(s, k)[j]
    <2>1. s.lines[k] \in [Cols -> Cells]
        BY <1>1
    <2>2. CASE k - 1 - s.line_number \in Rows
        BY <1>1, <2>1, <2>2, TextCopied, Geometry DEF DocRow
    <2>3. CASE k - 1 - s.line_number \notin Rows
        BY <2>1, <2>3 DEF DocRow
    <2>4. QED
        BY <2>2, <2>3
<1> HIDE DEF Saved
<1>4. L \in Seq([Cols -> Cells]) /\ Len(L) = n /\ \A k \in 1 .. n : L[k] = Saved(k)
    BY <1>1, <1>3
<1> HIDE DEF L
<1>5. /\ save_buffer(s) \in Screens /\ save_buffer(s).lines = L
      /\ save_buffer(s).x = s.x /\ save_buffer(s).y = s.y /\ save_buffer(s).buf = s.buf
      /\ save_buffer(s).line_number = s.line_number
    BY <1>2, <1>4 DEF Screens
<1>6. QED
    BY <1>3, <1>4, <1>5

\* Once drawn, the buffer shows the lines of the window.
LEMMA DrawFacts ==
    ASSUME NEW s \in Screens, s.line_number + Height <= Len(s.lines)
    PROVE  LET r == draw_buffer(s) IN
           /\ r \in Screens /\ r.x = s.x /\ r.y = s.y /\ r.lines = s.lines
           /\ r.line_number = s.line_number
           /\ \A k \in 1 .. Len(s.lines) : \A j \in TextCols : DocRow(r, k)[j] = s.lines[k][j]
<1> DEFINE Drawn(i) == [j \in Cols |-> IF Copied(i, j) THEN LineAt(s, i)[j] ELSE s.buf[i][j]]
           B == [i \in Rows |-> Drawn(i)]
<1>1. /\ s.lines \in Seq([Cols -> Cells]) /\ Len(s.lines) \in Nat /\ s.line_number \in Nat
      /\ s.buf \in [Rows -> [Cols -> Cells]]
    BY DEF Screens
<1>2. draw_buffer(s) = [s EXCEPT !.buf = B]
    BY DEF draw_buffer
<1>3. ASSUME NEW i \in Rows
      PROVE  /\ Drawn(i) \in [Cols -> Cells]
             /\ \A j \in TextCols : Drawn(i)[j] = s.lines[s.line_number + i + 1][j]
    <2>1. s.line_number + i + 1 \in 1 .. Len(s.lines)
        BY <1>1, Geometry DEF Rows
    <2>2. LineAt(s, i) = s.lines[s.line_number + i + 1]
        BY <2>1 DEF LineAt
    <2>3. s.lines[s.line_number + i + 1] \in [Cols -> Cells]
        BY <1>1, <2>1
    <2>4. QED
        BY <1>1, <2>2, <2>3, TextCopied, Geometry
<1> HIDE DEF Drawn
<1>4. B \in [Rows -> [Cols -> Cells]] /\ \A i \in Rows : B[i] = Drawn(i)
    BY <1>3
<1> HIDE DEF B
<1>5. /\ draw_buffer(s) \in Screens /\ draw_buffer(s).buf = B
      /\ draw_buffer(s).x = s.x /\ draw_buffer(s).y = s.y /\ draw_buffer(s).lines = s.lines
      /\ draw_buffer(s).line_number = s.line_number
    BY <1>2, <1>4 DEF Screens
<1>6. ASSUME NEW k \in 1 .. Len(s.lines), NEW j \in TextCols
      PROVE  DocRow(draw_buffer(s), k)[j] = s.lines[k][j]
    <2>1. CASE k - 1 - s.line_number \in Rows
        <3> DEFINE i == k - 1 - s.line_number
        <3>1. i \in Rows /\ s.line_number + i + 1 = k
            BY <1>1, <2>1
        <3>2. DocRow(draw_buffer(s), k) = Drawn(i)
            BY <1>4, <1>5, <2>1 DEF DocRow
        <3>3. QED
            BY <1>3, <3>1, <3>2
    <2>2. CASE k - 1 - s.line_number \notin Rows
        BY <1>5, <2>2 DEF DocRow
    <2>3. QED
        BY <2>1, <2>2
<1>7. QED
    BY <1>5, <1>6

\* Scrolling down keeps the text of every row of the document; the row it may add
\* is blank.
LEMMA ScrollDownFacts ==
    ASSUME NEW s \in Screens, s.line_number + Height <= Len(s.lines)
    PROVE  LET r == vga_scroll_down(s) IN
           /\ r \in Screens /\ r.x = s.x /\ r.y = s.y
           /\ r.line_number = s.line_number + 1
           /\ r.line_number + Height <= Len(r.lines)
           /\ Len(r.lines) = IF Len(s.lines) <= s.line_number + Height
                             THEN Len(s.lines) + 1 ELSE Len(s.lines)
           /\ \A k \in 1 .. Len(s.lines) : \A j \in TextCols : DocRow(r, k)[j] = DocRow(s, k)[j]
           /\ \A k \in Len(s.lines) + 1 .. Len(r.lines) : \A j \in TextCols : DocRow(r, k)[j] = Blank
<1> DEFINE a == save_buffer(s)
           b == WithNextLine(a)
           c == [b EXCEPT !.line_number = @ + 1]
           r == draw_buffer(c)
           n == Len(s.lines)
<1>1. /\ a \in Screens /\ a.x = s.x /\ a.y = s.y
      /\ a.line_number = s.line_number /\ Len(a.lines) = n
      /\ \A k \in 1 .. n : \A j \in TextCols : a.lines[k][j] = DocRow(s, k)[j]
    BY SaveFacts
<1>2. /\ n \in Nat /\ s.line_number \in Nat /\ Height \in Nat /\ a.lines \in Seq([Cols -> Cells])
    BY <1>1, Geometry DEF Screens
<1> HIDE DEF a
<1>3. /\ b \in Screens /\ b.x = s.x /\ b.y = s.y /\ b.line_number = s.line_number
      /\ Len(b.lines) = IF n <= s.line_number + Height THEN n + 1 ELSE n
      /\ \A k \in 1 .. n : b.lines[k] = a.lines[k]
      /\ \A k \in n + 1 .. Len(b.lines) : b.lines[k] = BlankLine
    <2>1. CASE n <= s.line_number + Height
        <3> DEFINE L == Append(a.lines, BlankLine)
        <3>1. b = [a EXCEPT !.lines = L]
            BY <1>1, <2>1 DEF WithNextLine
        <3>2. /\ L \in Seq([Cols -> Cells]) /\ Len(L) = n + 1 /\ L[n + 1] = BlankLine
              /\ \A k \in 1 .. n : L[k] = a.lines[k]
            BY <1>1, <1>2, LineTypes
        <3> HIDE DEF L, b
        <3>3. b \in Screens /\ b.lines = L /\ b.x = a.x /\ b.y = a.y
              /\ b.line_number = a.line_number
            BY <1>1, <3>1, <3>2 DEF Screens
        <3>4. \A k \in n + 1 .. n + 1 : k = n + 1
            BY <1>2
        <3>5. QED
            BY <1>1, <2>1, <3>2, <3>3, <3>4
    <2>2. CASE ~(n <= s.line_number + Height)
        <3>1. b = a
            BY <1>1, <2>2 DEF WithNextLine
        <3> HIDE DEF b
        <3>2. \A k \in n + 1 .. n : FALSE
            BY <1>2
        <3>3. QED
            BY <1>1, <2>2, <3>1, <3>2
    <2>3. QED
        BY <2>1, <2>2
<1> HIDE DEF b
<1>4. /\ c \in Screens /\ c.x = s.x /\ c.y = s.y /\ c.lines = b.lines
      /\ c.line_number = s.line_number + 1
    <2>1. b \in Screens /\ b.x = s.x /\ b.y = s.y /\ b.line_number = s.line_number
        BY <1>3
    <2>2. s.line_number + 1 \in Nat
        BY <1>2
    <2>3. QED
        BY <2>1, <2>2 DEF Screens
<1>5. c.line_number + Height <= Len(c.lines) /\ n <= Len(c.lines)
    BY <1>2, <1>3, <1>4
<1> HIDE DEF c
<1>6. /\ r \in Screens /\ r.x = c.x /\ r.y = c.y /\ r.lines = c.lines
      /\ r.line_number = c.line_number
      /\ \A k \in 1 .. Len(c.lines) : \A j \in TextCols : DocRow(r, k)[j] = c.lines[k][j]
    BY <1>4, <1>5, DrawFacts
<1>7. vga_scroll_down(s) = r
    BY DEF vga_scroll_down, a, b, c
<1> HIDE DEF r
<1>8. ASSUME NEW k \in 1 .. n, NEW j \in TextCols PROVE DocRow(r, k)[j] = DocRow(s, k)[j]
    <2>1. k \in 1 .. Len(c.lines)
        BY <1>2, <1>3, <1>4
    <2>2. QED
        BY <1>1, <1>3, <1>4, <1>6, <2>1
<1>9. ASSUME NEW k \in n + 1 .. Len(r.lines), NEW j \in TextCols PROVE DocRow(r, k)[j] = Blank
    <2>1. k \in 1 .. Len(c.lines) /\ k \in n + 1 .. Len(b.lines)
        BY <1>2, <1>4, <1>6
    <2>2. j \in Cols
        BY Geometry
    <2>3. QED
        BY <1>3, <1>4, <1>6, <2>1, <2>2 DEF BlankLine
<1>10. QED
    BY <1>3, <1>4, <1>5, <1>6, <1>7, <1>8, <1>9

\* Scrolling up keeps all of them.
LEMMA ScrollUpFacts ==
    ASSUME NEW s \in Screens, s.line_number + Height <= Len(s.lines), s.line_number # 0
    PROVE  LET r == vga_scroll_up(s) IN
           /\ r \in Screens /\ r.x = s.x /\ r.y = s.y
           /\ r.line_number = s.line_number - 1
           /\ Len(r.lines) = Len(s.lines)
           /\ \A k \in 1 .. Len(s.lines) : \A j \in TextCols : DocRow(r, k)[j] = DocRow(s, k)[j]
<1> DEFINE a == save_buffer(s)
           c == [a EXCEPT !.line_number = @ - 1]
           r == draw_buffer(c)
           n == Len(s.lines)
<1>1. /\ a \in Screens /\ a.x = s.x /\ a.y = s.y
      /\ a.line_number = s.line_number /\ Len(a.lines) = n
      /\ \A k \in 1 .. n : \A j \in TextCols : a.lines[k][j] = DocRow(s, k)[j]
    BY SaveFacts
<1>2. /\ n \in Nat /\ s.line_number \in Nat /\ Height \in Nat
    BY Geometry DEF Screens
<1> HIDE DEF a
<1>3. s.line_number - 1 \in Nat
    BY <1>2
<1>4. /\ c \in Screens /\ c.x = s.x /\ c.y = s.y /\ c.lines = a.lines
      /\ c.line_number = s.line_number - 1
    BY <1>1, <1>3 DEF Screens
<1>5. c.line_number + Height <= Len(c.lines)
    BY <1>1, <1>2, <1>4
<1> HIDE DEF c
<1>6. /\ r \in Screens /\ r.x = c.x /\ r.y = c.y /\ r.lines = c.lines
      /\ r.line_number = c.line_number
      /\ \A k \in 1 .. Len(c.lines) : \A j \in TextCols : DocRow(r, k)[j] = c.lines[k][j]
    BY <1>4, <1>5, DrawFacts
<1>7. vga_scroll_up(s) = r
    BY DEF vga_scroll_up, a, c
<1> HIDE DEF r
<1>8. QED
    BY <1>1, <1>4, <1>6, <1>7

-----------------------------------------------------------------------------
(* Writing.                                                                *)

\* In the middle of vga_putc the cursor may be past the end of its row.
Midway == [x : Nat, y : Rows, buf : [Rows -> [Cols -> Cells]],
           lines : Seq([Cols -> Cells]), line_number : Nat]

LEMMA AdvanceFacts ==
    ASSUME NEW u \in Midway
    PROVE  \E t \in Screens :
              /\ t.buf = u.buf /\ t.lines = u.lines /\ t.line_number = u.line_number
              /\ Advance(u) = IF u.x + 1 >= Width /\ u.y = Height - 1
                              THEN vga_scroll_down(t) ELSE t
<1>1. u.x \in Nat /\ u.y \in Rows /\ u.y \in Nat /\ ~reserved(u.x + 1, u.y)
    BY NeverReserved, Geometry DEF Midway
<1>2. CASE u.x + 1 >= Width /\ u.y = Height - 1
    <2> DEFINE t == [u EXCEPT !.x = 0]
    <2>1. t \in Screens /\ t.buf = u.buf /\ t.lines = u.lines /\ t.line_number = u.line_number
        BY Geometry DEF Midway, Screens
    <2>2. u.y + 1 >= Height
        BY <1>2, Geometry
    <2>3. Advance(u) = vga_scroll_down(t)
        BY <1>2, <2>2 DEF Advance, NextRow
    <2>4. QED
        BY <1>2, <2>1, <2>3
<1>3. CASE u.x + 1 >= Width /\ u.y # Height - 1
    <2> DEFINE t == [u EXCEPT !.x = 0, !.y = @ + 1]
    <2>1. u.y + 1 \in Rows /\ ~(u.y + 1 >= Height)
        BY <1>1, <1>3, Geometry DEF Rows
    <2>2. t \in Screens /\ t.buf = u.buf /\ t.lines = u.lines /\ t.line_number = u.line_number
        BY <2>1, Geometry DEF Midway, Screens
    <2>3. Advance(u) = t
        BY <1>3, <2>1 DEF Advance, NextRow
    <2>4. QED
        BY <1>3, <2>2, <2>3
<1>4. CASE ~(u.x + 1 >= Width)
    <2> DEFINE t == [u EXCEPT !.x = @ + 1]
    <2>1. u.x + 1 \in Cols
        BY <1>1, <1>4, Geometry DEF Cols
    <2>2. t \in Screens /\ t.buf = u.buf /\ t.lines = u.lines /\ t.line_number = u.line_number
        BY <2>1 DEF Midway, Screens
    <2>3. Advance(u) = t
        BY <1>1, <1>4 DEF Advance
    <2>4. QED
        BY <1>4, <2>2, <2>3
<1>5. QED
    BY <1>2, <1>3, <1>4

\* A character changes the cursor's row and nothing else, and then scrolls in the
\* case in which vga_putc needs the lines.
LEMMA PutFacts ==
    ASSUME NEW s \in Screens, NEW c \in Chars \cup {Newline}
    PROVE  \E t \in Screens :
              /\ t.lines = s.lines /\ t.line_number = s.line_number
              /\ \A i \in Rows \ {s.y} : t.buf[i] = s.buf[i]
              /\ \A j \in Cols : t.buf[s.y][j] \in Chars \cup {s.buf[s.y][j]}
              /\ vga_putc(s, c) = IF Scrolls(s, c) THEN vga_scroll_down(t) ELSE t
<1>1. /\ s.x \in Cols /\ s.y \in Rows /\ s.x \in Nat /\ s.x <= Width
      /\ s.buf \in [Rows -> [Cols -> Cells]] /\ s.buf[s.y] \in [Cols -> Cells]
    <2>1. s.x \in Cols /\ s.y \in Rows /\ s.buf \in [Rows -> [Cols -> Cells]]
        BY DEF Screens
    <2>2. s.x \in Nat /\ s.x <= Width
        BY <2>1, Geometry DEF Cols
    <2>3. QED
        BY <2>1, <2>2
<1>2. CASE c = Newline
    <2> DEFINE end == CHOOSE e \in s.x .. Width :
                         /\ e = Width \/ reserved(e, s.y)
                         /\ \A j \in s.x .. e - 1 : ~reserved(j, s.y)
               R == [j \in Cols |-> IF j \in s.x .. end - 1 THEN Blank ELSE s.buf[s.y][j]]
               u == [s EXCEPT !.x = end, !.buf[s.y] = R]
    <2>1. end = Width
        <3>1. \A e : ~reserved(e, s.y)
            BY <1>1, NeverReserved
        <3>2. Width \in s.x .. Width
            BY <1>1, Geometry
        <3>3. QED
            BY <3>1, <3>2
    <2>2. vga_putc(s, c) = Advance(u)
        BY <1>2 DEF vga_putc, LineFeed
    <2> HIDE DEF end
    <2>3. R \in [Cols -> Cells] /\ \A j \in Cols : R[j] \in Chars \cup {s.buf[s.y][j]}
        BY <1>1, CharsAssumption DEF Cells
    <2> HIDE DEF R
    <2>4. /\ u \in Midway /\ u.lines = s.lines /\ u.line_number = s.line_number
          /\ u.y = s.y /\ u.x = Width /\ u.buf = [s.buf EXCEPT ![s.y] = R]
        BY <1>1, <2>1, <2>3, Geometry DEF Screens, Midway
    <2> HIDE DEF u
    <2>5. u.buf[s.y] = R /\ \A i \in Rows \ {s.y} : u.buf[i] = s.buf[i]
        BY <1>1, <2>4
    <2>6. u.x + 1 >= Width
        BY <2>4, Geometry
    <2>7. Scrolls(s, c) <=> u.x + 1 >= Width /\ u.y = Height - 1
        BY <1>2, <2>4, <2>6 DEF Scrolls
    <2>8. PICK t \in Screens :
              /\ t.buf = u.buf /\ t.lines = u.lines /\ t.line_number = u.line_number
              /\ Advance(u) = IF u.x + 1 >= Width /\ u.y = Height - 1
                              THEN vga_scroll_down(t) ELSE t
        BY <2>4, AdvanceFacts
    <2>9. QED
        BY <2>2, <2>3, <2>4, <2>5, <2>7, <2>8
<1>3. CASE c # Newline
    <2> DEFINE R == [s.buf[s.y] EXCEPT ![s.x] = c]
               u == [s EXCEPT !.buf[s.y][s.x] = c]
    <2>1. ~reserved(s.x, s.y)
        BY <1>1, NeverReserved
    <2>2. vga_putc(s, c) = Advance(u)
        BY <1>3, <2>1 DEF vga_putc, Glyph
    <2>3. c \in Chars
        BY <1>3
    <2>4. R \in [Cols -> Cells] /\ \A j \in Cols : R[j] \in Chars \cup {s.buf[s.y][j]}
        BY <1>1, <2>3 DEF Cells
    <2> HIDE DEF R
    <2>5. /\ u \in Midway /\ u.lines = s.lines /\ u.line_number = s.line_number
          /\ u.y = s.y /\ u.x = s.x /\ u.buf = [s.buf EXCEPT ![s.y] = R]
        BY <1>1, <2>4 DEF Screens, Midway, R
    <2> HIDE DEF u
    <2>6. u.buf[s.y] = R /\ \A i \in Rows \ {s.y} : u.buf[i] = s.buf[i]
        BY <1>1, <2>5
    <2>7. u.x + 1 >= Width <=> s.x = Width - 1
        <3>1. s.x \in Cols /\ Width \in Nat
            BY <1>1, Geometry
        <3>2. s.x + 1 >= Width <=> s.x = Width - 1
            BY <3>1 DEF Cols
        <3>3. QED
            BY <2>5, <3>2
    <2>8. Scrolls(s, c) <=> u.x + 1 >= Width /\ u.y = Height - 1
        BY <1>3, <2>5, <2>7 DEF Scrolls
    <2>9. PICK t \in Screens :
              /\ t.buf = u.buf /\ t.lines = u.lines /\ t.line_number = u.line_number
              /\ Advance(u) = IF u.x + 1 >= Width /\ u.y = Height - 1
                              THEN vga_scroll_down(t) ELSE t
        BY <2>5, AdvanceFacts
    <2>10. QED
        BY <2>2, <2>4, <2>5, <2>6, <2>8, <2>9
<1>4. QED
    BY <1>2, <1>3

-----------------------------------------------------------------------------
(* What a step does to the document's text.                                *)

KeepsRow(s, r, k) == \A j \in TextCols : DocRow(r, k)[j] = DocRow(s, k)[j]

DocWrites ==
    /\ DocLen' = DocLen /\ screen'.line_number = screen.line_number
    /\ \E i \in screen.line_number + 1 .. screen.line_number + Height :
          \A k \in 1 .. DocLen : k # i => KeepsRow(screen, screen', k)

DocScrollsDown ==
    /\ screen'.line_number = screen.line_number + 1
    /\ DocLen' = IF DocLen <= screen.line_number + Height THEN DocLen + 1 ELSE DocLen
    /\ \A k \in DocLen + 1 .. DocLen' : \A j \in TextCols : DocRow(screen', k)[j] = Blank
    /\ \E i \in screen.line_number + 1 .. screen.line_number + Height :
          \A k \in 1 .. DocLen : k # i => KeepsRow(screen, screen', k)

DocScrollsUp ==
    /\ screen.line_number > 0 /\ screen'.line_number = screen.line_number - 1
    /\ DocLen' = DocLen
    /\ \A k \in 1 .. DocLen : KeepsRow(screen, screen', k)

DocStep == DocWrites \/ DocScrollsDown \/ DocScrollsUp

LEMMA DocFacts ==
    ASSUME VgaInv
    PROVE  /\ screen \in Screens /\ DocLen \in Nat /\ screen.line_number \in Nat
           /\ screen.line_number + Height <= DocLen
           /\ \A k \in 1 .. DocLen : \A j \in TextCols : DocRow(screen, k)[j] # Unset
<1>1. screen \in Screens /\ screen.line_number \in Nat /\ Len(screen.lines) \in Nat
    BY DEF VgaInv, Screens
<1>2. CASE ready
    BY <1>1, <1>2 DEF VgaInv, WindowOnLines, DocLen
<1>3. CASE ~ready
    BY <1>1, <1>3, Geometry DEF VgaInv, DocLen
<1>4. QED
    BY <1>2, <1>3 DEF VgaInv

\* A screen that differs from s in the cursor's row only.
LEMMA RowWritten ==
    ASSUME NEW s \in Screens, NEW t \in Screens, NEW n \in Nat, s.line_number + Height <= n,
           \A k \in 1 .. n : \A j \in TextCols : DocRow(s, k)[j] # Unset,
           t.lines = s.lines, t.line_number = s.line_number,
           \A i \in Rows \ {s.y} : t.buf[i] = s.buf[i],
           \A j \in Cols : t.buf[s.y][j] \in Chars \cup {s.buf[s.y][j]}
    PROVE  /\ \E i \in s.line_number + 1 .. s.line_number + Height :
                 \A k \in 1 .. n : k # i => KeepsRow(s, t, k)
           /\ \A k \in 1 .. n : \A j \in TextCols : DocRow(t, k)[j] # Unset
<1> DEFINE i == s.line_number + s.y + 1
<1>1. s.y \in Rows /\ s.y \in Nat /\ s.line_number \in Nat
    BY Geometry DEF Screens
<1>2. i \in s.line_number + 1 .. s.line_number + Height /\ i \in 1 .. n
    BY <1>1, Geometry DEF Rows
<1>3. i - 1 - s.line_number = s.y
    BY <1>1
<1>4. ASSUME NEW k \in 1 .. n, k # i PROVE DocRow(t, k) = DocRow(s, k)
    <2>1. k - 1 - s.line_number # s.y
        BY <1>1, <1>4
    <2>2. QED
        BY <2>1 DEF DocRow
<1>5. DocRow(t, i) = t.buf[s.y] /\ DocRow(s, i) = s.buf[s.y]
    BY <1>1, <1>3 DEF DocRow
<1> HIDE DEF i
<1>6. \A j \in TextCols : DocRow(t, i)[j] # Unset
    BY <1>2, <1>5, CharsAssumption, Geometry
<1>7. QED
    BY <1>2, <1>4, <1>6 DEF KeepsRow

\* Such a step keeps the invariant.
LEMMA WriteStep ==
    ASSUME VgaInv, screen' \in Screens,
           screen'.lines = screen.lines, screen'.line_number = screen.line_number,
           \A i \in Rows \ {screen.y} : screen'.buf[i] = screen.buf[i],
           \A j \in Cols : screen'.buf[screen.y][j] \in Chars \cup {screen.buf[screen.y][j]},
           UNCHANGED ready, fault' \in BOOLEAN
    PROVE  VgaInv' /\ DocStep
<1>1. /\ screen \in Screens /\ DocLen \in Nat /\ screen.line_number + Height <= DocLen
      /\ \A k \in 1 .. DocLen : \A j \in TextCols : DocRow(screen, k)[j] # Unset
    BY DocFacts
<1>2. DocLen' = DocLen
    BY DEF DocLen
<1>3. /\ \E i \in screen.line_number + 1 .. screen.line_number + Height :
            \A k \in 1 .. DocLen : k # i => KeepsRow(screen, screen', k)
      /\ \A k \in 1 .. DocLen : \A j \in TextCols : DocRow(screen', k)[j] # Unset
    BY <1>1, RowWritten
<1>4. VgaInv'
    BY <1>2, <1>3 DEF VgaInv, WindowOnLines
<1>5. DocWrites
    BY <1>2, <1>3 DEF DocWrites
<1>6. QED
    BY <1>4, <1>5 DEF DocStep

\* A row may be written before the screen scrolls down.
LEMMA DownStep ==
    ASSUME VgaInv, ready, UNCHANGED <<ready, fault>>, NEW t \in Screens,
           t.lines = screen.lines, t.line_number = screen.line_number,
           \A i \in Rows \ {screen.y} : t.buf[i] = screen.buf[i],
           \A j \in Cols : t.buf[screen.y][j] \in Chars \cup {screen.buf[screen.y][j]},
           screen' = vga_scroll_down(t)
    PROVE  VgaInv' /\ DocStep
<1> DEFINE n == Len(screen.lines)
<1>1. /\ screen \in Screens /\ n \in Nat /\ screen.line_number + Height <= n /\ DocLen = n
      /\ screen.line_number \in Nat
      /\ \A k \in 1 .. n : \A j \in TextCols : DocRow(screen, k)[j] # Unset
    BY DocFacts DEF DocLen
<1>2. PICK i \in screen.line_number + 1 .. screen.line_number + Height :
          \A k \in 1 .. n : k # i => KeepsRow(screen, t, k)
    BY <1>1, RowWritten
<1>3. \A k \in 1 .. n : \A j \in TextCols : DocRow(t, k)[j] # Unset
    BY <1>1, RowWritten
<1>4. /\ screen' \in Screens /\ screen'.line_number = screen.line_number + 1
      /\ screen'.line_number + Height <= Len(screen'.lines)
      /\ Len(screen'.lines) = IF n <= screen.line_number + Height THEN n + 1 ELSE n
      /\ \A k \in 1 .. n : \A j \in TextCols : DocRow(screen', k)[j] = DocRow(t, k)[j]
      /\ \A k \in n + 1 .. Len(screen'.lines) : \A j \in TextCols : DocRow(screen', k)[j] = Blank
    BY <1>1, ScrollDownFacts
<1>5. DocLen' = Len(screen'.lines) /\ Len(screen'.lines) \in Nat
    BY <1>4 DEF DocLen, Screens
<1>6. ASSUME NEW k \in 1 .. Len(screen'.lines), NEW j \in TextCols
      PROVE  DocRow(screen', k)[j] # Unset
    <2>1. k \in 1 .. n \/ k \in n + 1 .. Len(screen'.lines)
        BY <1>1, <1>5
    <2>2. QED
        BY <1>3, <1>4, <2>1, CharsAssumption
<1>7. VgaInv'
    BY <1>4, <1>5, <1>6 DEF VgaInv, WindowOnLines
<1>8. \A k \in 1 .. n : k # i => KeepsRow(screen, screen', k)
    BY <1>2, <1>4 DEF KeepsRow
<1>9. DocScrollsDown
    BY <1>1, <1>4, <1>5, <1>8 DEF DocScrollsDown
<1>10. QED
    BY <1>7, <1>9 DEF DocStep

LEMMA InitVga == VgaInit => VgaInv
<1> SUFFICES ASSUME VgaInit PROVE VgaInv
    OBVIOUS
<1>1. screen = vga_init /\ ready = FALSE /\ fault = FALSE
    BY DEF VgaInit
<1>2. /\ screen.x = 0 /\ screen.y = 0 /\ screen.buf = [i \in Rows |-> BlankLine]
      /\ screen.lines = <<>> /\ screen.line_number = 0
    BY <1>1 DEF vga_init
<1>3. screen \in Screens
    BY <1>1, LineTypes, Geometry DEF vga_init, Screens
<1>4. ASSUME NEW k \in 1 .. Height, NEW j \in TextCols PROVE DocRow(screen, k)[j] # Unset
    <2>1. k - 1 - screen.line_number \in Rows
        BY <1>2, Geometry DEF Rows
    <2>2. QED
        BY <1>2, <2>1, CharsAssumption, Geometry DEF DocRow, BlankLine
<1>5. QED
    BY <1>1, <1>2, <1>3, <1>4 DEF VgaInv, WindowOnLines, DocLen

LEMMA DynamicInit ==
    ASSUME VgaInv, vga_dynamic_init
    PROVE  VgaInv' /\ DocStep
<1> DEFINE L == [k \in 1 .. Height |-> UnsetLine]
<1>1. ready = FALSE /\ ready' = TRUE /\ screen' = WithLines(screen) /\ fault' = fault
    BY DEF vga_dynamic_init, VgaInv
<1>2. /\ screen \in Screens /\ screen.lines = <<>> /\ screen.line_number = 0
      /\ \A k \in 1 .. Height : \A j \in TextCols : DocRow(screen, k)[j] # Unset
    BY <1>1 DEF VgaInv, DocLen
<1>3. L \in Seq([Cols -> Cells]) /\ Len(L) = Height
    BY LineTypes, Geometry
<1>4. screen' = [screen EXCEPT !.lines = L]
    BY <1>1 DEF WithLines
<1> HIDE DEF L
<1>5. /\ screen' \in Screens /\ screen'.lines = L /\ screen'.line_number = screen.line_number
      /\ screen'.buf = screen.buf
    BY <1>2, <1>3, <1>4 DEF Screens
<1>6. DocLen = Height /\ DocLen' = Height
    BY <1>1, <1>3, <1>5 DEF DocLen
<1>7. \A k \in 1 .. Height : DocRow(screen', k) = DocRow(screen, k)
    <2>1. \A k \in 1 .. Height : k - 1 - screen.line_number \in Rows
        BY <1>2, Geometry DEF Rows
    <2>2. QED
        BY <1>5, <2>1 DEF DocRow
<1>8. screen'.line_number + Height <= Len(screen'.lines)
    BY <1>2, <1>3, <1>5, Geometry
<1>9. VgaInv'
    BY <1>1, <1>2, <1>5, <1>6, <1>7, <1>8 DEF VgaInv, WindowOnLines
<1>10. 1 \in screen.line_number + 1 .. screen.line_number + Height
    BY <1>2, Geometry
<1>11. DocWrites
    BY <1>5, <1>6, <1>7, <1>10 DEF DocWrites, KeepsRow
<1>12. QED
    BY <1>9, <1>11 DEF DocStep

LEMMA PutStep ==
    ASSUME VgaInv, NEW c \in Chars \cup {Newline}, PutChar(c)
    PROVE  VgaInv' /\ DocStep
<1>1. screen \in Screens /\ ready \in BOOLEAN /\ fault \in BOOLEAN /\ ready' = ready
    BY DEF VgaInv, PutChar
<1>2. CASE Scrolls(screen, c) /\ ~ready
    <2>1. fault' = TRUE /\ screen' = screen
        BY <1>2 DEF PutChar
    <2>2. QED
        BY <1>1, <2>1, WriteStep
<1>3. CASE ~(Scrolls(screen, c) /\ ~ready)
    <2>1. screen' = vga_putc(screen, c) /\ fault' = fault
        BY <1>3 DEF PutChar
    <2>2. PICK t \in Screens :
              /\ t.lines = screen.lines /\ t.line_number = screen.line_number
              /\ \A i \in Rows \ {screen.y} : t.buf[i] = screen.buf[i]
              /\ \A j \in Cols : t.buf[screen.y][j] \in Chars \cup {screen.buf[screen.y][j]}
              /\ vga_putc(screen, c) = IF Scrolls(screen, c) THEN vga_scroll_down(t) ELSE t
        BY <1>1, PutFacts
    <2>3. CASE Scrolls(screen, c)
        <3>1. screen' = vga_scroll_down(t) /\ ready
            BY <1>3, <2>1, <2>2, <2>3
        <3>2. QED
            BY <1>1, <2>1, <2>2, <3>1, DownStep
    <2>4. CASE ~Scrolls(screen, c)
        <3>1. screen' = t
            BY <2>1, <2>2, <2>4
        <3>2. QED
            BY <1>1, <2>1, <2>2, <3>1, WriteStep
    <2>5. QED
        BY <2>3, <2>4
<1>4. QED
    BY <1>2, <1>3

LEMMA ScrollStep ==
    ASSUME VgaInv, ScrollDown \/ ScrollUp
    PROVE  VgaInv' /\ DocStep
<1>1. ready /\ UNCHANGED <<ready, fault>> /\ fault \in BOOLEAN
    BY DEF ScrollDown, ScrollUp, VgaInv
<1>2. CASE ScrollDown
    <2>1. screen' = vga_scroll_down(screen) /\ screen \in Screens
        BY <1>2 DEF ScrollDown, VgaInv
    <2>2. QED
        BY <1>1, <2>1, DownStep
<1>3. CASE ScrollUp /\ screen.line_number = 0
    <2>1. screen' = screen /\ screen \in Screens
        BY <1>3 DEF ScrollUp, vga_scroll_up, VgaInv
    <2>2. QED
        BY <1>1, <2>1, WriteStep
<1>4. CASE ScrollUp /\ screen.line_number # 0
    <2> DEFINE n == Len(screen.lines)
    <2>1. /\ screen \in Screens /\ n \in Nat /\ screen.line_number + Height <= n /\ DocLen = n
          /\ screen.line_number \in Nat
          /\ \A k \in 1 .. n : \A j \in TextCols : DocRow(screen, k)[j] # Unset
        BY <1>1, DocFacts DEF DocLen
    <2>2. /\ screen' \in Screens /\ screen'.line_number = screen.line_number - 1
          /\ Len(screen'.lines) = n
          /\ \A k \in 1 .. n : \A j \in TextCols : DocRow(screen', k)[j] = DocRow(screen, k)[j]
        BY <1>4, <2>1, ScrollUpFacts DEF ScrollUp
    <2>3. DocLen' = n
        BY <1>1, <2>2 DEF DocLen
    <2>4. screen'.line_number + Height <= n /\ screen.line_number > 0
        BY <1>4, <2>1, <2>2, Geometry
    <2>5. VgaInv'
        BY <1>1, <2>1, <2>2, <2>3, <2>4 DEF VgaInv, WindowOnLines
    <2>6. DocScrollsUp
        BY <2>1, <2>2, <2>3, <2>4 DEF DocScrollsUp, KeepsRow
    <2>7. QED
        BY <2>5, <2>6 DEF DocStep
<1>5. QED
    BY <1>2, <1>3, <1>4

LEMMA CursorStep ==
    ASSUME VgaInv, ClearLine \/ \E p \in Places : MoveTo(p[1], p[2])
    PROVE  VgaInv' /\ DocStep
<1>1. screen \in Screens /\ fault \in BOOLEAN /\ UNCHANGED <<ready, fault>>
    BY DEF VgaInv, ClearLine, MoveTo
<1>2. /\ screen.x \in Cols /\ screen.y \in Rows /\ screen.buf \in [Rows -> [Cols -> Cells]]
    BY <1>1 DEF Screens
<1>3. CASE ClearLine
    <2>1. screen' = [screen EXCEPT !.buf = [screen.buf EXCEPT ![screen.y] = BlankLine]]
        BY <1>3 DEF ClearLine, vga_clear_line
    <2>2. [screen.buf EXCEPT ![screen.y] = BlankLine] \in [Rows -> [Cols -> Cells]]
        BY <1>2, LineTypes
    <2>3. /\ screen' \in Screens /\ screen'.lines = screen.lines
          /\ screen'.line_number = screen.line_number
          /\ screen'.buf = [screen.buf EXCEPT ![screen.y] = BlankLine]
        BY <1>1, <2>1, <2>2 DEF Screens
    <2>4. \A j \in Cols : screen'.buf[screen.y][j] \in Chars \cup {screen.buf[screen.y][j]}
        BY <1>2, <2>3, CharsAssumption DEF BlankLine
    <2>5. \A i \in Rows \ {screen.y} : screen'.buf[i] = screen.buf[i]
        BY <1>2, <2>3
    <2>6. QED
        BY <1>1, <2>3, <2>4, <2>5, WriteStep
<1>4. ASSUME NEW p \in Places, MoveTo(p[1], p[2]) PROVE VgaInv' /\ DocStep
    <2>1. p[1] \in Cols /\ p[2] \in Rows
        BY Geometry DEF Places
    <2>2. screen.x < Width /\ screen.y < Height
        BY <1>2, Geometry DEF Cols, Rows
    <2>3. screen' = [[screen EXCEPT !.x = p[1]] EXCEPT !.y = p[2]]
        <3>1. screen' = vga_set_y(vga_set_x(screen, p[1]), p[2])
            BY <1>4 DEF MoveTo
        <3>2. vga_set_x(screen, p[1]) = [screen EXCEPT !.x = p[1]]
            BY <2>2 DEF vga_set_x
        <3>3. [screen EXCEPT !.x = p[1]].y = screen.y
            BY <1>1 DEF Screens
        <3>4. QED
            BY <2>2, <3>1, <3>2, <3>3 DEF vga_set_y
    <2>4. /\ screen' \in Screens /\ screen'.lines = screen.lines /\ screen'.buf = screen.buf
          /\ screen'.line_number = screen.line_number
        BY <1>1, <2>1, <2>3 DEF Screens
    <2>5. QED
        BY <1>1, <2>4, WriteStep
<1>5. QED
    BY <1>3, <1>4

LEMMA NextVga == VgaInv /\ [VgaNext]_vgaVars => VgaInv' /\ DocStep
<1> SUFFICES ASSUME VgaInv, [VgaNext]_vgaVars PROVE VgaInv' /\ DocStep
    OBVIOUS
<1>1. CASE UNCHANGED vgaVars
    <2>1. screen' = screen /\ ready' = ready /\ fault' = fault
        BY <1>1 DEF vgaVars
    <2>2. screen \in Screens /\ fault \in BOOLEAN
        BY DEF VgaInv
    <2>3. QED
        BY <2>1, <2>2, WriteStep
<1>2. QED
    BY <1>1, DynamicInit, PutStep, ScrollStep, CursorStep DEF VgaNext

\* The invariant holds under any sequence of calls to vga.c.
THEOREM VgaInvariance == VgaSpec => []VgaInv
<1>1. VgaInit => VgaInv
    BY InitVga
<1>2. VgaInv /\ [VgaNext]_vgaVars => VgaInv'
    BY NextVga
<1>3. QED
    BY <1>1, <1>2, PTL DEF VgaSpec

TwoBytes(i) == ((i \div 256) % 256) * 256 + (i % 256) = i

LEMMA IndexFits ==
    ASSUME NEW x \in Nat, NEW y \in Nat, x < Width, y < Height
    PROVE  TwoBytes(y * Width + x)
<1>1. Width \in Nat /\ Height \in Nat /\ Width * Height <= 65536
    BY GeometryAssumption
<1>2. y * Width + Width <= Width * Height
    BY <1>1, SMT
<1>3. y * Width \in Nat
    BY <1>1, SMT
<1>4. y * Width + x \in Nat /\ y * Width + x < 65536
    BY <1>1, <1>2, <1>3, SMT
<1>5. \A i \in Nat : i < 65536 => TwoBytes(i)
    BY SMT DEF TwoBytes
<1>6. QED
    BY <1>4, <1>5, SMT

\* The cursor stays on the screen, and update_cursor sends the hardware the cell the
\* next character goes to, on every screen whose cells two bytes can number.
THEOREM CursorStaysOnScreen == VgaSpec => []CursorOnScreen
<1>1. VgaInv => CursorOnScreen
    <2> SUFFICES ASSUME VgaInv PROVE CursorOnScreen
        OBVIOUS
    <2> DEFINE x == screen.x
               y == screen.y
               i == y * Width + x
    <2>1. x \in Cols /\ y \in Rows
        BY DEF VgaInv, Screens
    <2>2. x \in Nat /\ y \in Nat /\ x < Width /\ y < Height /\ Width \in Nat /\ Height \in Nat
        BY <2>1, Geometry DEF Cols, Rows
    <2>3. TwoBytes(i)
        BY <2>2, IndexFits, Zenon
    <2>4. get_index(screen) = i
        BY DEF get_index
    <2> HIDE DEF i
    <2>5. update_cursor(screen).high * 256 + update_cursor(screen).low = get_index(screen)
        <3>1. /\ update_cursor(screen).low = i % 256
              /\ update_cursor(screen).high = (i \div 256) % 256
            BY <2>4 DEF update_cursor
        <3>2. QED
            BY <2>3, <2>4, <3>1 DEF TwoBytes
    <2>6. ~BadCoordinates(screen)
        BY <2>2 DEF BadCoordinates
    <2>7. QED
        BY <2>1, <2>5, <2>6 DEF CursorOnScreen
<1>2. QED
    BY <1>1, VgaInvariance, PTL

\* The window stays on the lines: array_get never answers NULL to save_buffer or
\* draw_buffer.
THEOREM WindowStaysOnLines == VgaSpec => []WindowOnLines
<1>1. VgaInv => WindowOnLines
    BY DEF VgaInv
<1>2. QED
    BY <1>1, VgaInvariance, PTL

\* Memory of vga_dynamic_init that nobody wrote never shows left of the reserved
\* columns.
THEOREM TextIsWritten == VgaSpec => []UnsetOnlyRight
<1>1. VgaInv => UnsetOnlyRight
    <2> SUFFICES ASSUME VgaInv, NEW i \in Rows, NEW j \in Cols, screen.buf[i][j] = Unset,
                        ~(j >= KeyCol)
                 PROVE  FALSE
        BY DEF UnsetOnlyRight
    <2> DEFINE k == screen.line_number + i + 1
    <2>1. /\ screen.line_number \in Nat /\ DocLen \in Nat
          /\ screen.line_number + Height <= DocLen
          /\ \A m \in 1 .. DocLen : \A c \in TextCols : DocRow(screen, m)[c] # Unset
        BY DocFacts
    <2>2. k \in 1 .. DocLen /\ k - 1 - screen.line_number = i /\ j \in TextCols
        BY <2>1, Geometry DEF Rows, Cols, TextCols
    <2>3. DocRow(screen, k) = screen.buf[i]
        BY <2>2 DEF DocRow
    <2>4. QED
        BY <2>1, <2>2, <2>3
<1>2. QED
    BY <1>1, VgaInvariance, PTL
-----------------------------------------------------------------------------
(* The console is a document with a window.                                *)

Lines == {Text(row) : row \in [Cols -> Cells]}

DocTextOK ==
    /\ DocText \in Seq(Lines) /\ Len(DocText) = DocLen /\ DocLen \in Nat
    /\ \A k \in 1 .. DocLen : DocText[k] = Text(DocRow(screen, k))

LEMMA DocTextFacts == VgaInv => DocTextOK
<1> SUFFICES ASSUME VgaInv PROVE DocTextOK
    OBVIOUS
<1>1. DocLen \in Nat /\ screen \in Screens
    BY DocFacts
<1>2. /\ screen.buf \in [Rows -> [Cols -> Cells]] /\ screen.lines \in Seq([Cols -> Cells])
      /\ screen.line_number \in Nat
    BY <1>1 DEF Screens
<1>3. ASSUME NEW k \in 1 .. DocLen PROVE DocRow(screen, k) \in [Cols -> Cells]
    <2>1. CASE k - 1 - screen.line_number \in Rows
        BY <1>2, <2>1 DEF DocRow
    <2>2. CASE k - 1 - screen.line_number \notin Rows
        <3>1. ready
            <4>1. ~ready => k \in 1 .. Height /\ screen.line_number = 0
                BY <1>3 DEF VgaInv, DocLen
            <4>2. k \in 1 .. Height /\ screen.line_number = 0 => k - 1 - screen.line_number \in Rows
                BY Geometry DEF Rows
            <4>3. QED
                BY <2>2, <4>1, <4>2
        <3>2. k \in 1 .. Len(screen.lines)
            BY <3>1 DEF DocLen
        <3>3. QED
            BY <1>2, <2>2, <3>2 DEF DocRow
    <2>3. QED
        BY <2>1, <2>2
<1>4. \A k \in 1 .. DocLen : Text(DocRow(screen, k)) \in Lines
    BY <1>3 DEF Lines
<1>5. QED
    BY <1>1, <1>4 DEF DocText, DocTextOK

LEMMA SameText ==
    ASSUME NEW s, NEW r, NEW k, KeepsRow(s, r, k)
    PROVE  Text(DocRow(r, k)) = Text(DocRow(s, k))
BY DEF KeepsRow, Text, TextCols

LEMMA InitRefinesDoc == VgaInit => Doc!DocInit
<1> SUFFICES ASSUME VgaInit PROVE Doc!DocInit
    OBVIOUS
<1>1. /\ screen.buf = [i \in Rows |-> BlankLine] /\ screen.line_number = 0 /\ ready = FALSE
    BY DEF VgaInit, vga_init
<1>2. \A k \in 1 .. Height : k - 1 - 0 \in Rows
    BY Geometry DEF Rows
<1>3. DocLen = Height /\ \A k \in 1 .. Height : DocRow(screen, k) = BlankLine
    BY <1>1, <1>2 DEF DocLen, DocRow
<1>4. QED
    BY <1>1, <1>3 DEF Doc!DocInit, DocText

LEMMA StepRefinesDoc ==
    ASSUME VgaInv, VgaInv', DocStep
    PROVE  Doc!DocNext
<1> DEFINE top == screen.line_number
<1>1. /\ DocText \in Seq(Lines) /\ Len(DocText) = DocLen /\ DocLen \in Nat
      /\ \A k \in 1 .. DocLen : DocText[k] = Text(DocRow(screen, k))
    BY DocTextFacts DEF DocTextOK
<1>2. /\ DocText' \in Seq(Lines) /\ Len(DocText') = DocLen' /\ DocLen' \in Nat
      /\ \A k \in 1 .. DocLen' : DocText'[k] = Text(DocRow(screen', k))
    <2>1. DocTextOK'
        BY DocTextFacts, PTL
    <2>2. QED
        BY <2>1 DEF DocTextOK, Lines
<1>3. top \in Nat /\ screen'.line_number \in Nat
    BY DEF VgaInv, Screens
<1>4. CASE DocWrites
    <2>1. DocLen' = DocLen /\ screen'.line_number = top
        BY <1>4 DEF DocWrites
    <2>2. PICK i \in top + 1 .. top + Height :
              \A k \in 1 .. DocLen : k # i => KeepsRow(screen, screen', k)
        BY <1>4 DEF DocWrites
    <2>3. \A k \in 1 .. DocLen : k # i => DocText'[k] = DocText[k]
        BY <1>1, <1>2, <2>1, <2>2, SameText
    <2>4. Doc!Write
        BY <1>1, <1>2, <2>1, <2>2, <2>3 DEF Doc!Write, Doc!Written
    <2>5. QED
        BY <2>4 DEF Doc!DocNext
<1>5. CASE DocScrollsDown
    <2>1. /\ screen'.line_number = top + 1
          /\ DocLen' = IF DocLen <= top + Height THEN DocLen + 1 ELSE DocLen
          /\ \A k \in DocLen + 1 .. DocLen' : \A j \in TextCols : DocRow(screen', k)[j] = Blank
        BY <1>5 DEF DocScrollsDown
    <2>2. PICK i \in top + 1 .. top + Height :
              \A k \in 1 .. DocLen : k # i => KeepsRow(screen, screen', k)
        BY <1>5 DEF DocScrollsDown
    <2>3. DocLen <= DocLen'
        BY <1>1, <2>1
    <2>4. \A k \in 1 .. DocLen : k # i => DocText'[k] = DocText[k]
        <3>1. \A k \in 1 .. DocLen : k \in 1 .. DocLen'
            BY <1>1, <1>2, <2>3
        <3>2. QED
            BY <1>1, <1>2, <2>2, <3>1, SameText
    <2>5. Len(DocText') = Len(Doc!Extended(DocText))
        <3>1. Len(Append(DocText, Text(BlankLine))) = DocLen + 1
            BY <1>1
        <3>2. QED
            BY <1>1, <1>2, <2>1, <3>1 DEF Doc!Extended
    <2>6. \A k \in Len(DocText) + 1 .. Len(DocText') : DocText'[k] = Text(BlankLine)
        <3> SUFFICES ASSUME NEW k \in DocLen + 1 .. DocLen' PROVE DocText'[k] = Text(BlankLine)
            BY <1>1, <1>2
        <3>1. k \in 1 .. DocLen'
            BY <1>1, <1>2
        <3>2. \A j \in 0 .. KeyCol - 1 : DocRow(screen', k)[j] = Blank /\ j \in Cols
            BY <2>1, Geometry DEF TextCols
        <3>3. Text(DocRow(screen', k)) = Text(BlankLine)
            BY <3>2 DEF Text, BlankLine
        <3>4. QED
            BY <1>2, <3>1, <3>3
    <2>7. Doc!Written(DocText, SubSeq(DocText', 1, Len(DocText)))
        <3> DEFINE e == SubSeq(DocText', 1, Len(DocText))
        <3>1. Len(e) = DocLen /\ \A k \in 1 .. DocLen : e[k] = DocText'[k]
            BY <1>1, <1>2, <2>3
        <3> HIDE DEF e
        <3>2. QED
            BY <1>1, <2>2, <2>4, <3>1 DEF Doc!Written
    <2>8. Doc!ScrollDown
        BY <2>1, <2>5, <2>6, <2>7 DEF Doc!ScrollDown
    <2>9. QED
        BY <2>8 DEF Doc!DocNext
<1>6. CASE DocScrollsUp
    <2>1. /\ top > 0 /\ screen'.line_number = top - 1 /\ DocLen' = DocLen
          /\ \A k \in 1 .. DocLen : KeepsRow(screen, screen', k)
        BY <1>6 DEF DocScrollsUp
    <2>2. \A k \in 1 .. DocLen : DocText'[k] = DocText[k]
        BY <1>1, <1>2, <2>1, SameText
    <2>3. DocText' = DocText
        BY <1>1, <1>2, <2>1, <2>2
    <2>4. Doc!ScrollUp
        BY <2>1, <2>3 DEF Doc!ScrollUp
    <2>5. QED
        BY <2>4 DEF Doc!DocNext
<1>7. QED
    BY <1>4, <1>5, <1>6 DEF DocStep

\* vga.c implements the document with a window: outside the reserved columns no
\* sequence of writes and scrolls loses, duplicates or reorders text, on a screen of
\* any size.
THEOREM ImplementsDocument == VgaSpec => RefinesDocument
<1>1. VgaInit => Doc!DocInit
    BY InitRefinesDoc
<1>2. VgaInv /\ VgaInv' /\ [VgaNext]_vgaVars => [Doc!DocNext]_(Doc!docVars)
    BY NextVga, StepRefinesDoc
<1>3. QED
    BY <1>1, <1>2, VgaInvariance, PTL DEF VgaSpec, RefinesDocument, Doc!DocSpec
=============================================================================
