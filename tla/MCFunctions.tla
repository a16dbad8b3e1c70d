---------------------------- MODULE MCFunctions ----------------------------
(* The pure functions of the repository, each called with every input of   *)
(* its harness.                                                            *)
EXTENDS MCPricing, MCWakeCodec, MCJsonText, MCPercentile

Init == PricingInit \/ CodecInit \/ JsonInit \/ PercentileInit
Next == PricingNext \/ CodecNext \/ JsonNext \/ PercentileNext

Spec == Init /\ [][Next]_callVars

=============================================================================
