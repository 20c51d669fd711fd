---------------------------- MODULE ElementList -----------------------------
(***************************************************************************)
(* What the dynamic array promises: a list of elements that grows at the    *)
(* end, from which the first match of a request is taken out and disposed   *)
(* of, and which disposes of what it holds when it is destroyed.            *)
(***************************************************************************)
EXTENDS Integers, Sequences, SequencesExt

CONSTANTS Elems, Alike

VARIABLES contents, disposed

listVars == <<contents, disposed>>

ListInit == contents = <<>> /\ disposed = {}

PutIn ==
    \E e \in Elems :
        /\ \A k \in 1 .. Len(contents) : contents[k] # e
        /\ contents' = Append(contents, e)
        /\ disposed' = disposed \ {e}

\* Some element equals the one asked for, or is accepted as alike.
TakeOut ==
    \E e \in Elems, k \in 1 .. Len(contents), accepted \in {{}, Alike} :
        /\ e = contents[k] \/ <<e, contents[k]>> \in accepted
        /\ \A j \in 1 .. k - 1 :
              e # contents[j] /\ <<e, contents[j]>> \notin accepted
        /\ contents' = RemoveAt(contents, k)
        /\ disposed' = disposed \cup {contents[k]}

DisposeAll ==
    /\ contents' = <<>>
    /\ disposed' = disposed \cup {contents[k] : k \in 1 .. Len(contents)}

ListNext == PutIn \/ TakeOut \/ DisposeAll

ListSpec == ListInit /\ [][ListNext]_listVars
=============================================================================
