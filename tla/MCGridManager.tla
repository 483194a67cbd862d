--------------------------- MODULE MCGridManager ---------------------------
(* Instances of the manager for TLC: the built-in exchange, a futures and  *)
(* a spot exchange.                                                        *)
EXTENDS GridManager

AllExchanges == {"paper", "futures", "spot"}
OnlyPaper    == {"paper"}
OnlySpot     == {"spot"}

TwoTraders == 1 .. 2
=============================================================================
