------------------------------ MODULE Pricing ------------------------------
(***************************************************************************)
(* round_half_even and snap_to_grid (src/pricing.cpp), over prices that    *)
(* are whole numbers of ticks.  One is the price of a dollar and CentGrid  *)
(* that of a cent.                                                         *)
(*                                                                         *)
(* The code computes in binary doubles.  A decimal is the double that      *)
(* stands for it, so equal ones compare equal; but the quotient of two may *)
(* come out on either side of the exact one, which decides where a price   *)
(* half-way between two multiples goes: 0.575 / 0.01 is                    *)
(* 57.49999999999999.  The last bits of the result are left to the golden  *)
(* corpus of tests/test_pricing.cpp.                                       *)
(***************************************************************************)
EXTENDS Integers, Sequences

CONSTANTS
    One,        \* 1.0, in ticks
    CentGrid    \* kCentGrid, in ticks

ASSUME PricingAssumption ==
    /\ CentGrid \in Nat /\ CentGrid >= 1
    /\ One = 100 * CentGrid

Abs(x) == IF x < 0 THEN -x ELSE x

\* std::round(n / d): half away from zero.
RoundHalfAway(n, d) ==
    IF n >= 0 THEN (2 * n + d) \div (2 * d) ELSE -((d - 2 * n) \div (2 * d))

\* Mutant: std::round alone.
RoundHalfAwayOnly(n, d) == RoundHalfAway(n, d)

\* The quotient n / d rounded as CPython's float.__round__ does: where std::round
\* met an exact half, twice the rounded half is the even neighbour.
RoundHalfEven(n, d) ==
    LET rounded == RoundHalfAway(n, d)
    IN  IF Abs(2 * (n - rounded * d)) = d THEN 2 * RoundHalfAway(n, 2 * d) ELSE rounded

\* A price range is a triple [start, end, step]; a step of 0 is never used.
Covers(range, price) ==
    range.step > 0 /\ range.start <= price /\ price <= range.end

\* The step of the first range that covers the price, or a cent.
StepFor(price, ranges) ==
    LET covering == {i \in DOMAIN ranges : Covers(ranges[i], price)}
    IN  IF covering = {} THEN CentGrid
        ELSE ranges[CHOOSE i \in covering : \A j \in covering : i <= j].step

\* Where the quotient of two doubles comes out: below the exact one, there, or
\* above it, by less than any price but a half-way one notices.
Offsets == {-1, 0, 1}

\* round_half_even(price / step).
RoundedQuotient(price, step, off) == RoundHalfEven(4 * price + off, 4 * step)

SnapToGrid(price, ranges, off) ==
    LET step == StepFor(price, ranges) IN RoundedQuotient(price, step, off) * step

=============================================================================
