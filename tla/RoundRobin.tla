----------------------------- MODULE RoundRobin -----------------------------
(***************************************************************************)
(* What the scheduler promises: tasks take turns in a cyclic order; a task  *)
(* whose turn it is may bring in another, which comes right after it.       *)
(***************************************************************************)
EXTENDS Integers, Sequences, SequencesExt

CONSTANTS Tasks, main, Nil

VARIABLES
    order,  \* the tasks, in the order of the list
    turn    \* whose turn it is, or Nil before there are tasks

ringVars == <<order, turn>>

RingInit == order = <<>> /\ turn = Nil

Start == order = <<>> /\ order' = <<main>> /\ turn' = main

Spawn ==
    \E p \in 1 .. Len(order), c \in Tasks :
        /\ order[p] = turn
        /\ \A k \in 1 .. Len(order) : order[k] # c
        /\ order' = InsertAt(order, p + 1, c)
        /\ UNCHANGED turn

PassTurn ==
    \E p \in 1 .. Len(order) :
        /\ order[p] = turn
        /\ turn' = order[(p % Len(order)) + 1]
        /\ UNCHANGED order

RingNext == Start \/ Spawn \/ PassTurn

RingSpec == RingInit /\ [][RingNext]_ringVars
=============================================================================
