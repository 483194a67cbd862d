---------------------------- MODULE MCRiskGuard ----------------------------
(* Instances of the risk guard for TLC.                                    *)
EXTENDS RiskGuard, TLC

SymbolSymmetry == Permutations(Symbols)
=============================================================================
