------------------------------ MODULE PagePool ------------------------------
(***************************************************************************)
(* What the page allocator promises its callers (mem.c, task.c), without    *)
(* cursor, bitmap or search order: a pool of pages and a pool of frames, a  *)
(* request pairs a page nobody has with a frame nobody has, a pair is for   *)
(* ever, and the kernel stops only when no page is left.                    *)
(***************************************************************************)
CONSTANTS Pages, Frames, Reserved

VARIABLES
    mapping,   \* the pairs <<page, frame>> that are mapped
    exhausted  \* the kernel has panicked for want of memory

poolVars == <<mapping, exhausted>>

Taken   == {m[1] : m \in mapping}
Claimed == {m[2] : m \in mapping}

PoolInit == mapping = Reserved /\ exhausted = FALSE

Grant ==
    /\ ~exhausted
    /\ \E p \in Pages \ Taken, f \in Frames \ Claimed :
          mapping' = mapping \cup {<<p, f>>}
    /\ UNCHANGED exhausted

Exhaust ==
    /\ ~exhausted
    /\ Pages \subseteq Taken
    /\ exhausted' = TRUE
    /\ UNCHANGED mapping

PoolNext == Grant \/ Exhaust

PoolSpec == PoolInit /\ [][PoolNext]_poolVars
=============================================================================
