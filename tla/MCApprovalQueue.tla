--------------------------- MODULE MCApprovalQueue ---------------------------
(***************************************************************************)
(* Constants for TLC.                                                      *)
(***************************************************************************)
EXTENDS ApprovalQueue, TLC

MarketSymmetry == Permutations(Markets)
==============================================================================
