----------------------------- MODULE BlockPool ------------------------------
(***************************************************************************)
(* What a heap promises: callers own disjoint runs of blocks; a request is  *)
(* granted from blocks nobody owns; giving a run back makes its blocks, and *)
(* only those, available again.  No bitmap, no identifiers, no counters.    *)
(***************************************************************************)
EXTENDS Integers

CONSTANTS Arenas, Usable

VARIABLES
    arenas,  \* arenas given to the pool so far
    busy,    \* pairs <<arena, block>> that are taken
    owned    \* runs <<arena, start, length>> callers own

poolVars == <<arenas, busy, owned>>

RunBlocks(r) == {r[1]} \X (r[2] .. r[2] + r[3] - 1)

PoolInit == arenas = {} /\ busy = {} /\ owned = {}

Extend ==
    /\ \E s \in Arenas \ arenas : arenas' = arenas \cup {s}
    /\ UNCHANGED <<busy, owned>>

Grant ==
    /\ \E s \in arenas, first, last \in Usable :
          LET r == <<s, first, last - first + 1>>
          IN  /\ first <= last
              /\ RunBlocks(r) \subseteq ({s} \X Usable) \ busy
              /\ busy' = busy \cup RunBlocks(r)
              /\ owned' = owned \cup {r}
    /\ UNCHANGED arenas

Release ==
    /\ \E r \in owned :
          /\ RunBlocks(r) \subseteq busy
          /\ busy' = busy \ RunBlocks(r)
          /\ owned' = owned \ {r}
    /\ UNCHANGED arenas

PoolNext == Extend \/ Grant \/ Release

PoolSpec == PoolInit /\ [][PoolNext]_poolVars
=============================================================================
