--------------------------- MODULE MCStopLossWatch ---------------------------
(***************************************************************************)
(* Constants for TLC: one market whose two prices are one stop apart, and  *)
(* one whose price stands still: its quote, and a position at that price,  *)
(* may be missing from the table all the same.                             *)
(***************************************************************************)
EXTENDS StopLossWatch

MCPrices == [moving |-> {1, 2}, still |-> {1}]
==============================================================================
