----------------------------- MODULE MCStopLoss -----------------------------
(* Instances of the stop loss for TLC.                                     *)
EXTENDS StopLoss

OneGrid  == {[center |-> 10, spacing |-> 2]}
TwoGrids == {[center |-> 10, spacing |-> 2], [center |-> 14, spacing |-> 2]}
LowHigh  == {7, 15}
=============================================================================
