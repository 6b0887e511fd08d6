------------------------- MODULE MCPlayerVisibility -------------------------
(* PlayerVisibility with two sessions on two positions, near each other    *)
(* only at the same one.  Moves are not bounded: the state space is finite.*)
EXTENDS PlayerVisibility
=============================================================================
