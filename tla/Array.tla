------------------------------- MODULE Array --------------------------------
(***************************************************************************)
(* The dynamic array (kernel/ds/array.c): `used` elements in a buffer of    *)
(* `size` slots, which is replaced by one twice the size when it is full.   *)
(* A slot nobody has written, or that a removal vacated, is in the buffer   *)
(* but beyond `used`.  array_get changes nothing and is not an action.      *)
(***************************************************************************)
EXTENDS Integers, Sequences, FiniteSets

CONSTANTS
    Elems,        \* pointers callers store
    Alike,        \* pairs <<wanted, stored>> a caller's cmp accepts
    InitialSize,  \* argument of array_create
    MaxSize,      \* bound on the growth of the buffer
    Junk          \* a slot nobody has written

ASSUME SizeAssumption ==
    InitialSize \in Nat \ {0} /\ MaxSize \in Nat /\ InitialSize <= MaxSize
ASSUME AlikeAssumption == Alike \subseteq Elems \X Elems
ASSUME JunkAssumption == Junk \notin Elems

growth_factor == 2

VARIABLES
    size, used,  \* of the array; size is 0 while there is none
    data,        \* slot -> element or Junk
    disposed     \* history: elements given to del or kfree and not stored again

vars == <<size, used, data, disposed>>

Slots(n) == 0 .. n - 1

\* The filled slots.
Contents == [k \in 1 .. used |-> data[k - 1]]

Stored == {data[k] : k \in Slots(used)}

-----------------------------------------------------------------------------
(* A definition with a fault in its name is a faulty variant of the one that *)
(* follows it.                                                               *)

Init ==
    /\ size = 0 /\ used = 0
    /\ data = [k \in {} |-> Junk]
    /\ disposed = {}

array_create ==
    /\ size = 0
    /\ size' = InitialSize
    /\ used' = 0
    /\ data' = [k \in Slots(InitialSize) |-> Junk]
    /\ UNCHANGED disposed

NeverGrown == size

\* The size array_add leaves: doubled if the array is full.
NextSize == IF used = size THEN size * growth_factor ELSE size

\* The new buffer: n slots that begin with the elements of the old one.
Grown(n) == [k \in Slots(n) |-> IF k < used THEN data[k] ELSE Junk]

\* The element is the caller's and not in the array already.
array_add(e) ==
    /\ size > 0 /\ e \notin Stored
    /\ NextSize <= MaxSize
    /\ size' = NextSize
    /\ IF NextSize = size
       THEN data' = [data EXCEPT ![used] = e]
       ELSE data' = [Grown(NextSize) EXCEPT ![used] = e]
    /\ used' = used + 1
    /\ disposed' = disposed \ {e}

\* The comparison of remove_elem; `accepted` is what cmp accepts, if given.
Matches(e, k, accepted) == data[k] = e \/ <<e, data[k]>> \in accepted

ShiftedTooFew(k) == [s \in Slots(size) |-> IF s >= k /\ s < used - 2
                                               THEN data[s + 1] ELSE data[s]]

\* The slots after k, up to the end of the buffer, move down by one.
Shifted(k) == [s \in Slots(size) |-> IF s >= k /\ s < size - 1
                                     THEN data[s + 1] ELSE data[s]]

DisposedRequest(e, k) == {e}

\* What (del ? del : kfree) is given: the element stored, not the one asked for.
Disposed(e, k) == {data[k]}

\* remove_elem, and with it array_remove, array_delete and their _cmp variants.
remove_elem(e, accepted) ==
    /\ size > 0
    /\ \E k \in Slots(used) :
          /\ Matches(e, k, accepted)
          /\ \A j \in 0 .. k - 1 : ~Matches(e, j, accepted)
          /\ disposed' = disposed \cup Disposed(e, k)
          /\ data' = Shifted(k)
    /\ used' = used - 1
    /\ UNCHANGED size

\* The element is not found.
remove_elem_fails(e, accepted) ==
    /\ size > 0
    /\ \A k \in Slots(used) : ~Matches(e, k, accepted)
    /\ UNCHANGED vars

array_destroy ==
    /\ size > 0
    /\ disposed' = disposed \cup Stored
    /\ size' = 0 /\ used' = 0
    /\ data' = [k \in {} |-> Junk]

Next ==
    \/ array_create
    \/ \E e \in Elems : array_add(e)
    \/ \E e \in Elems, accepted \in {{}, Alike} :
          remove_elem(e, accepted) \/ remove_elem_fails(e, accepted)
    \/ array_destroy

Spec == Init /\ [][Next]_vars

-----------------------------------------------------------------------------
TypeOK ==
    /\ size \in 0 .. MaxSize
    /\ used \in 0 .. size
    /\ data \in [Slots(size) -> Elems \cup {Junk}]
    /\ disposed \subseteq Elems

\* However the buffer was replaced and shifted, the array holds no element that
\* was disposed of, and no slot below `used` is one nobody has written.
NoDanglingElement == Stored \subseteq Elems \ disposed

\* The array behaves as a list: growing keeps every element in place, removing
\* takes out the first match only and closes the gap.
List == INSTANCE ElementList WITH contents <- Contents

RefinesList == List!ListSpec
=============================================================================
