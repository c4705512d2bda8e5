---------------------------- MODULE MCNewsBriefing ----------------------------
(***************************************************************************)
(* Constants for TLC: a list shorter than what the feeds show, so that a   *)
(* later article, or the index, pushes an article off the list that its    *)
(* feed goes on showing.                                                   *)
(***************************************************************************)
EXTENDS NewsBriefing, TLC

Symmetry == Permutations(Tasks)
==============================================================================
