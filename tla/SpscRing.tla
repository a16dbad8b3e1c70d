------------------------------ MODULE SpscRing ------------------------------
(***************************************************************************)
(* SpscRing<T> of include/hotpath/spsc_ring.hpp, one access of shared      *)
(* memory per step: the lock-free ring between the executor's read loop    *)
(* (the producer) and the telemetry writer thread (the consumer).          *)
(*                                                                         *)
(* head_ and tail_ are size_t counters that wrap at Modulus = 2^w.  The    *)
(* code never reduces them by the capacity, so a slot is found by masking. *)
(* The history variables pushed and popped count the same operations       *)
(* without wrapping; row n is the n-th row pushed, so rows are distinct    *)
(* and a lost, repeated, reordered or half-written row can be seen.        *)
(*                                                                         *)
(* Memory model.  An acquire load may return any value the location held   *)
(* since the value this thread last acquired from it (a stale read, which  *)
(* C++ coherence allows).  pushedSeen and poppedSeen record what the last  *)
(* acquire load returned, unwrapped: the operations of the other side that *)
(* happen before this side's next step.  An access to a slot that is not   *)
(* ordered by them after the conflicting access is a data race.            *)
(***************************************************************************)
EXTENDS Integers, Sequences

CONSTANTS
    Capacity,   \* slots_.size()
    Modulus,    \* 2^w, where size_t has w bits
    MaxRows     \* bound: rows pushed in one behaviour

\* Capacity is std::bit_ceil of at least 2, so it divides 2^w; a ring as large
\* as the counters' range would leave "full" and "empty" the same difference.
ASSUME RingAssumption ==
    /\ Capacity \in Nat /\ Capacity >= 2
    /\ Modulus \in Nat /\ \E k \in 2..Modulus : Modulus = k * Capacity
    /\ MaxRows \in Nat

VARIABLES
    head,        \* head_ (owned by the producer)
    tail_cache,  \* tail_cache_ (private to the producer)
    tail,        \* tail_ (owned by the consumer)
    head_cache,  \* head_cache_ (private to the consumer)
    slots,       \* slots_
    ppc,         \* where the producer is in try_push, or what its last one returned
    cpc,         \* where the consumer is in try_pop, or what its last one returned
    out,         \* the consumer's `out` parameter
    delivered,   \* the row of the last try_pop that returned true
    depth,       \* the last answer of size()
    pushed,      \* history: rows pushed
    popped,      \* history: rows popped
    poppedSeen,  \* history: pops that happen before the producer's next step
    pushedSeen   \* history: pushes that happen before the consumer's next step

producerVars == <<head, tail_cache, ppc, pushed, poppedSeen>>
consumerVars == <<tail, head_cache, cpc, out, delivered, popped, pushedSeen>>
vars == <<head, tail_cache, tail, head_cache, slots, ppc, cpc, out, delivered,
          depth, pushed, popped, poppedSeen, pushedSeen>>

NoRow == -1

\* Inside a call; outside one, the counter holds its answer, if there was one.
Pushing == ppc \in {"load_tail", "write", "publish"}
Popping == cpc \in {"load_head", "copy", "free"}

\* Mutant: a counter that does not wrap.
IncUnbounded(c) == c + 1

Inc(c) == (c + 1) % Modulus          \* size_t increment
Sub(a, b) == (a - b) % Modulus       \* size_t subtraction
SlotOf(c) == c % Capacity            \* c & mask_

Init ==
    /\ head = 0 /\ tail_cache = 0
    /\ tail = 0 /\ head_cache = 0
    /\ slots = [s \in 0..(Capacity - 1) |-> NoRow]
    /\ ppc = "idle" /\ cpc = "idle"
    /\ out = NoRow /\ delivered = NoRow
    /\ depth = 0
    /\ pushed = 0 /\ popped = 0
    /\ poppedSeen = 0 /\ pushedSeen = 0

-----------------------------------------------------------------------------
(* try_push, on the producer's thread.                                     *)

\* Mutant: a full ring taken for one with a slot to spare.
PushBeginOffByOne ==
    /\ ~Pushing
    /\ pushed < MaxRows
    /\ ppc' = IF Sub(head, tail_cache) > Capacity THEN "load_tail" ELSE "write"
    /\ UNCHANGED <<head, tail_cache, slots, depth, pushed, poppedSeen, consumerVars>>

\* Load head_ and compare it with the cached tail: private to the producer.
PushBegin ==
    /\ ~Pushing
    /\ pushed < MaxRows
    /\ ppc' = IF Sub(head, tail_cache) >= Capacity THEN "load_tail" ELSE "write"
    /\ UNCHANGED <<head, tail_cache, slots, depth, pushed, poppedSeen, consumerVars>>

\* Mutant: a relaxed load of tail_, which orders nothing after the pops it sees.
PushLoadTailRelaxed ==
    /\ ppc = "load_tail"
    /\ \E t \in poppedSeen..popped : tail_cache' = t % Modulus
    /\ ppc' = IF Sub(head, tail_cache') >= Capacity THEN "refused" ELSE "write"
    /\ UNCHANGED <<head, slots, depth, pushed, poppedSeen, consumerVars>>

\* Mutant: the second comparison made with the tail that was cached before the load.
PushLoadTailStale ==
    /\ ppc = "load_tail"
    /\ \E t \in poppedSeen..popped :
          /\ tail_cache' = t % Modulus
          /\ poppedSeen' = t
    /\ ppc' = IF Sub(head, tail_cache) >= Capacity THEN "refused" ELSE "write"
    /\ UNCHANGED <<head, slots, depth, pushed, consumerVars>>

\* Acquire tail_, and return false when the ring still looks full.
PushLoadTail ==
    /\ ppc = "load_tail"
    /\ \E t \in poppedSeen..popped :
          /\ tail_cache' = t % Modulus
          /\ poppedSeen' = t
    /\ ppc' = IF Sub(head, tail_cache') >= Capacity THEN "refused" ELSE "write"
    /\ UNCHANGED <<head, slots, depth, pushed, consumerVars>>

\* Copy the row into its slot: a plain, non-atomic write.
PushWrite ==
    /\ ppc = "write"
    /\ slots' = [slots EXCEPT ![SlotOf(head)] = pushed]
    /\ ppc' = "publish"
    /\ UNCHANGED <<head, tail_cache, depth, pushed, poppedSeen, consumerVars>>

\* Release-store head_ and return true.
PushPublish ==
    /\ ppc = "publish"
    /\ head' = Inc(head)
    /\ pushed' = pushed + 1
    /\ ppc' = "accepted"
    /\ UNCHANGED <<tail_cache, slots, depth, poppedSeen, consumerVars>>

-----------------------------------------------------------------------------
(* try_pop, on the consumer's thread.                                      *)

PopBegin ==
    /\ ~Popping
    /\ cpc' = IF tail = head_cache THEN "load_head" ELSE "copy"
    /\ UNCHANGED <<tail, head_cache, out, delivered, popped, pushedSeen, slots,
                   depth, producerVars>>

\* Acquire head_, and return false when the ring still looks empty.
PopLoadHead ==
    /\ cpc = "load_head"
    /\ \E h \in pushedSeen..pushed :
          /\ head_cache' = h % Modulus
          /\ pushedSeen' = h
    /\ cpc' = IF tail = head_cache' THEN "empty" ELSE "copy"
    /\ UNCHANGED <<tail, out, delivered, popped, slots, depth, producerVars>>

\* Copy the row out of its slot: a plain, non-atomic read.
PopCopy ==
    /\ cpc = "copy"
    /\ out' = slots[SlotOf(tail)]
    /\ cpc' = "free"
    /\ UNCHANGED <<tail, head_cache, delivered, popped, pushedSeen, slots, depth,
                   producerVars>>

\* Release-store tail_ and return true, with the row in `out`.
PopFree ==
    /\ cpc = "free"
    /\ tail' = Inc(tail)
    /\ popped' = popped + 1
    /\ delivered' = out
    /\ cpc' = "popped"
    /\ UNCHANGED <<head_cache, out, pushedSeen, slots, depth, producerVars>>

-----------------------------------------------------------------------------
(* size(), which either side may call between two operations of its own.   *)
(* Its own index is exact; its acquire load of the other may be stale.     *)

SizeByProducer ==
    /\ ~Pushing
    /\ \E t \in poppedSeen..popped : depth' = Sub(head, t % Modulus)
    /\ UNCHANGED <<slots, producerVars, consumerVars>>

SizeByConsumer ==
    /\ ~Popping
    /\ \E h \in pushedSeen..pushed : depth' = Sub(h % Modulus, tail)
    /\ UNCHANGED <<slots, producerVars, consumerVars>>

Producer == PushBegin \/ PushLoadTail \/ PushWrite \/ PushPublish \/ SizeByProducer
Consumer == PopBegin \/ PopLoadHead \/ PopCopy \/ PopFree \/ SizeByConsumer
Next == Producer \/ Consumer

Spec == Init /\ [][Next]_vars

-----------------------------------------------------------------------------
(* Properties.                                                             *)

\* The variables keep their types: the counters stay inside size_t.
TypeOK ==
    /\ head \in 0..(Modulus - 1) /\ tail_cache \in 0..(Modulus - 1)
    /\ tail \in 0..(Modulus - 1) /\ head_cache \in 0..(Modulus - 1)
    /\ slots \in [0..(Capacity - 1) -> Nat \cup {NoRow}]
    /\ ppc \in {"idle", "load_tail", "write", "publish", "accepted", "refused"}
    /\ cpc \in {"idle", "load_head", "copy", "free", "popped", "empty"}
    /\ out \in Nat \cup {NoRow} /\ delivered \in Nat \cup {NoRow}
    /\ depth \in 0..(Modulus - 1)
    /\ pushed \in Nat /\ popped \in Nat
    /\ poppedSeen \in Nat /\ pushedSeen \in Nat

\* Every access to a slot is ordered after the conflicting access of the other
\* thread by an acquire load that read its release store: the producer about to
\* overwrite a slot has learned that its previous row was popped, the consumer
\* about to copy one has learned that it was pushed, and the two are never at
\* the same slot together.  It is what the cached indices and the two
\* acquire/release pairs of try_push and try_pop are for, and it has to
\* survive the counters' own overflow.
NoDataRace ==
    /\ ppc = "write" => pushed < poppedSeen + Capacity /\ poppedSeen <= popped
    /\ cpc = "copy" => popped < pushedSeen /\ pushedSeen <= pushed
    /\ ~(ppc = "write" /\ cpc = "copy" /\ SlotOf(head) = SlotOf(tail))

\* The answer of size() is an occupancy: never more than the capacity and never
\* a difference that wrapped below zero, although one of its two loads is stale.
SizeWithinCapacity == depth <= Capacity

\* try_push and try_pop implement the calls of the bounded FIFO queue: rows come
\* out whole, once each and in the order they went in, a push never overwrites an
\* unread row, try_push answers false only when the tail it has just loaded leaves
\* no slot, and try_pop only when the head it has just loaded leaves no row.
Queue ==
    INSTANCE SpscCalls WITH
        Row <- 0..(MaxRows - 1),
        queue <- [i \in 1..(pushed - popped) |-> slots[(popped + i - 1) % Capacity]],
        unseen <- pushed - pushedSeen,
        freed <- popped - poppedSeen,
        pushCall <- IF Pushing THEN "called" ELSE ppc,
        popCall <- IF Popping THEN "called" ELSE cpc

ImplementsQueue == Queue!CallsSpec

=============================================================================
