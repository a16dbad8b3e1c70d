-------------------------- MODULE MCTelemetrySink --------------------------
(* TelemetrySink for TLC; and the sink as main uses it, which opens it     *)
(* before the server can record anything.                                  *)
EXTENDS TelemetrySink

RecordsWhileOpen == events' # events => joinable

MainSpec == Init /\ [][Next /\ RecordsWhileOpen]_vars /\ Fairness

=============================================================================
