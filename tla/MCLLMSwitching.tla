---------------------------- MODULE MCLLMSwitching ----------------------------
(***************************************************************************)
(* Constants for TLC: two callers that overlap each other and the keeper.  *)
(***************************************************************************)
EXTENDS LLMSwitching
==============================================================================
