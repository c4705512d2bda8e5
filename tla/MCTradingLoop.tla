---------------------------- MODULE MCTradingLoop ----------------------------
(***************************************************************************)
(* Constants for TLC.                                                      *)
(***************************************************************************)
EXTENDS TradingLoop, TLC

MarketSymmetry == Permutations(Markets)
==============================================================================
