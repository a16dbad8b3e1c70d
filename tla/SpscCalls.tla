----------------------------- MODULE SpscCalls -----------------------------
(***************************************************************************)
(* The bounded FIFO queue of SpscQueue behind its two calls, try_push and  *)
(* try_pop (include/hotpath/spsc_ring.hpp): when each of them may answer   *)
(* true, and when it may answer false.                                     *)
(*                                                                         *)
(* A push is refused only when the ring is full as far as the producer     *)
(* knows once it has looked at tail_, and a pop finds nothing only when    *)
(* the ring is empty as far as the consumer knows once it has looked at    *)
(* head_: an answer of false is due to nothing but what the side has not   *)
(* yet learned.                                                            *)
(***************************************************************************)
EXTENDS SpscQueue

VARIABLES
    pushCall,   \* the producer's call of try_push, and what the last one answered
    popCall     \* the consumer's call of try_pop, and what the last one answered

callVars == <<queue, unseen, freed, delivered, pushCall, popCall>>

CallsInit ==
    /\ Init
    /\ pushCall = "idle" /\ popCall = "idle"

-----------------------------------------------------------------------------
(* try_push.                                                               *)

CallPush ==
    /\ pushCall # "called"
    /\ pushCall' = "called"
    /\ UNCHANGED <<queueVars, popCall>>

\* It looks at tail_ before it decides.
LookAtTail ==
    /\ pushCall = "called"
    /\ LearnFreed
    /\ UNCHANGED <<pushCall, popCall>>

\* It answers true.
Accept(r) ==
    /\ pushCall = "called"
    /\ Push(r)
    /\ pushCall' = "accepted"
    /\ UNCHANGED popCall

\* It answers false: full, by what this look at tail_ has just told it.
Refuse ==
    /\ pushCall = "called"
    /\ LearnFreed
    /\ Len(queue) + freed' >= Capacity
    /\ pushCall' = "refused"
    /\ UNCHANGED popCall

-----------------------------------------------------------------------------
(* try_pop.                                                                *)

CallPop ==
    /\ popCall # "called"
    /\ popCall' = "called"
    /\ UNCHANGED <<queueVars, pushCall>>

\* It looks at head_ before it decides.
LookAtHead ==
    /\ popCall = "called"
    /\ LearnPushed
    /\ UNCHANGED <<pushCall, popCall>>

\* It answers true.
Deliver ==
    /\ popCall = "called"
    /\ Pop
    /\ popCall' = "popped"
    /\ UNCHANGED pushCall

\* It answers false: empty, by what this look at head_ has just told it.
FindEmpty ==
    /\ popCall = "called"
    /\ LearnPushed
    /\ unseen' = Len(queue)
    /\ popCall' = "empty"
    /\ UNCHANGED pushCall

CallsNext ==
    \/ CallPush \/ LookAtTail \/ Refuse
    \/ \E r \in Row : Accept(r)
    \/ CallPop \/ LookAtHead \/ Deliver \/ FindEmpty

CallsSpec == CallsInit /\ [][CallsNext]_callVars

=============================================================================
