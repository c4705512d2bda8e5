------------------------------ MODULE MCRiskGate ------------------------------
(***************************************************************************)
(* Constants for TLC.  Scale = 10 makes slippage and fee 10% each and, as  *)
(* in the default settings, FeeAndSlippage their sum.                      *)
(***************************************************************************)
EXTENDS RiskGate

\* Two losses and a gain.
MCResults == {-4, -2, 2}
==============================================================================
