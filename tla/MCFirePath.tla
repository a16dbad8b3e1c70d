----------------------------- MODULE MCFirePath -----------------------------
(* FirePath for TLC.                                                       *)
EXTENDS FirePath

\* Untradeable prices, prices off the grid at either end, and one in the middle.
MCWirePrices == {0, 4, 55, 996, 1000}

\* A grid with a tenth of a cent in the lower tail.
MCPriceGrids ==
    { << [start |-> 0, end |-> 100, step |-> 1],
         [start |-> 100, end |-> 1000, step |-> 10] >> }

=============================================================================
