--------------------------- MODULE MCGridRestart ---------------------------
(* An instance of the restarting grid engine for TLC: one level below the  *)
(* center, a price above it, orders of two lots that may trade in part,    *)
(* and a position to take over whose cost lies inside the grid.            *)
EXTENDS GridRestartInv

OneGrid == {[center |-> 10, spacing |-> 2]}
High    == {15}
Inside  == {8}
=============================================================================
