----------------------------- MODULE MCSpscRing -----------------------------
(* SpscRing for TLC: a ring of RequestedCapacity rows on a Bits-bit size_t. *)
EXTENDS SpscRing, FiniteSets, FiniteSetsExt

CONSTANTS RequestedCapacity, Bits

\* The constructor: std::bit_ceil(capacity < 2 ? 2 : capacity).
BitCeil(n) == Min({p \in {2^k : k \in 0..Bits} : p >= n})
RingCapacity == BitCeil(IF RequestedCapacity < 2 THEN 2 ELSE RequestedCapacity)
SizeTRange == 2^Bits

\* The constants are the ones the constructor computes.
ASSUME ConstructorAssumption == Capacity = RingCapacity /\ Modulus = SizeTRange

=============================================================================
