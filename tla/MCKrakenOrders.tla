--------------------------- MODULE MCKrakenOrders ---------------------------
(***************************************************************************)
(* Constants for TLC.                                                      *)
(***************************************************************************)
EXTENDS KrakenOrders
==============================================================================
