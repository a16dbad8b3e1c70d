----------------------------- MODULE SpscQueue -----------------------------
(***************************************************************************)
(* What SpscRing (include/hotpath/spsc_ring.hpp) promises its two callers: *)
(* a bounded FIFO queue shared by one producer and one consumer, in which  *)
(* each side may be late to learn what the other side has done.            *)
(*                                                                         *)
(* The lateness is the point: what each side sees is what its last acquire *)
(* load returned.  "unseen" counts the rows at the back of the queue that  *)
(* the consumer has not learned of, "freed" the pops that the producer has *)
(* not learned of.  This module has the steps; SpscCalls puts them inside  *)
(* the calls that take or refuse a row.                                    *)
(***************************************************************************)
EXTENDS Integers, Sequences

CONSTANTS
    Capacity,   \* slots_.size(): the number of slots of the ring
    Row         \* what a slot can hold

VARIABLES
    queue,      \* the rows pushed and not yet popped, oldest first
    unseen,     \* pushes the consumer has not learned of
    freed,      \* pops the producer has not learned of
    delivered   \* the row the last successful pop returned, if any

queueVars == <<queue, unseen, freed, delivered>>

NoRow == -1

Init ==
    /\ queue = << >>
    /\ unseen = 0
    /\ freed = 0
    /\ delivered = NoRow

-----------------------------------------------------------------------------
(* The steps of the two sides.                                             *)

\* The producer's acquire load of tail_: it learns of some, or all, of the pops.
LearnFreed ==
    /\ \E f \in 0..freed : freed' = f
    /\ UNCHANGED <<queue, unseen, delivered>>

\* The consumer's acquire load of head_: it learns of some, or all, of the pushes.
LearnPushed ==
    /\ \E u \in 0..unseen : unseen' = u
    /\ UNCHANGED <<queue, freed, delivered>>

\* A successful push, at its release store of head_.
Push(r) ==
    /\ Len(queue) + freed < Capacity
    /\ queue' = Append(queue, r)
    /\ unseen' = unseen + 1
    /\ UNCHANGED <<freed, delivered>>

\* A successful pop, at its release store of tail_.
Pop ==
    /\ unseen < Len(queue)
    /\ delivered' = Head(queue)
    /\ queue' = Tail(queue)
    /\ freed' = freed + 1
    /\ UNCHANGED unseen

=============================================================================
