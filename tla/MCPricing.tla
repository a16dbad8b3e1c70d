----------------------------- MODULE MCPricing -----------------------------
(***************************************************************************)
(* Pricing for TLC: snap_to_grid on every price of a window around [0, 1]  *)
(* and on each shape of grid a wake carries, wherever its quotient falls.  *)
(***************************************************************************)
EXTENDS Pricing, Calls, FiniteSets

\* A tick is a tenth of a cent or a whole part of one, so that every edge and every
\* step below is a whole number of them.
ASSUME TickAssumption == CentGrid % 10 = 0

Range3(start, end, step) == [start |-> start, end |-> end, step |-> step]

\* The default grid, the tapered grid of the 15-minute series, no grid, a grid
\* that stops short, one with an unusable step ahead of a usable one, and a fine
\* tail ahead of a range that covers it too.
Grids ==
    { << Range3(0, One, CentGrid) >>,
      << Range3(0, One \div 10, CentGrid \div 10),
         Range3(One \div 10, One - One \div 10, CentGrid),
         Range3(One - One \div 10, One, CentGrid \div 10) >>,
      << >>,
      << Range3(0, One \div 2, CentGrid \div 2) >>,
      << Range3(0, One, 0), Range3(0, One, 2 * CentGrid) >>,
      << Range3(0, One \div 10, CentGrid \div 10), Range3(0, One, CentGrid) >> }

PricingInit ==
    Given("snap_to_grid",
          [price : -CentGrid..(One + CentGrid), ranges : Grids, off : Offsets])

PricingNext == Call("snap_to_grid", LAMBDA x : SnapToGrid(x.price, x.ranges, x.off))

PricingSpec == PricingInit /\ [][PricingNext]_callVars

\* snap_to_grid: "nearest multiple of the step of the first range containing
\* price".  A price half-way between two goes to the even multiple when the quotient
\* of the doubles is a half, and to the side the quotient fell on when it is not.  And
\* a snapped price is on the grid: snapping it again, which may pick another range
\* where two meet, leaves it alone, wherever that quotient falls.
NearestMultipleTiesToEven ==
    \A s \in Returned("snap_to_grid") :
      LET price == input.price
          ranges == input.ranges
          inside(i) == ranges[i].step # 0 /\ price \in ranges[i].start..ranges[i].end
      IN  \E step \in {CentGrid} \cup {ranges[i].step : i \in DOMAIN ranges} :
            LET below == price \div step
                near == {m \in {below, below + 1} :
                            \A k \in {below, below + 1} :
                                Abs(price - m * step) <= Abs(price - k * step)}
            IN  /\ IF \E i \in DOMAIN ranges : inside(i)
                     THEN \E i \in DOMAIN ranges :
                              inside(i) /\ step = ranges[i].step
                              /\ \A j \in 1..(i - 1) : ~inside(j)
                     ELSE step = CentGrid
                /\ \E m \in near :
                      /\ s = m * step
                      /\ Cardinality(near) = 2 =>
                            m = CASE input.off < 0 -> below
                                  [] input.off > 0 -> below + 1
                                  [] OTHER -> 2 * ((below + 1) \div 2)
                /\ \A off \in Offsets : SnapToGrid(s, ranges, off) = s

=============================================================================
