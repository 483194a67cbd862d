-------------------------- MODULE MCPaperExchange --------------------------
(* Instances of the simulated exchange for TLC.                            *)
EXTENDS PaperExchange

Below   == {8, 12}
Steps   == {8, 10, 13}
=============================================================================
