--------------------------- MODULE MCPaperTrading ---------------------------
(***************************************************************************)
(* Constants for TLC.  Rates are coarse (Scale = 10: 10% slippage and fee, *)
(* stops at 20% and 30%) so that a few quotes reach every branch; all      *)
(* arithmetic stays exact.                                                 *)
(***************************************************************************)
EXTENDS PaperTrading, TLC

IdeaSymmetry == Permutations(Ideas)
==============================================================================
