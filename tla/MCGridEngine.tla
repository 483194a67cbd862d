---------------------------- MODULE MCGridEngine ----------------------------
(* Instances of the grid engine for TLC: small grids around 10, prices on  *)
(* both sides of each and in the middle.                                   *)
EXTENDS GridLedger, GridEngineInv

\* After a rise the center moves up by two levels.
OneGrid   == {[center |-> 10, spacing |-> 2]}
TwoGrids  == {[center |-> 10, spacing |-> 2], [center |-> 14, spacing |-> 2]}

LowHigh    == {7, 15}
=============================================================================
