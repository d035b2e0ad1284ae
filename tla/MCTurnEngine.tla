---------------------------- MODULE MCTurnEngine ----------------------------
(* TurnEngine for TLC.  Every configuration gives the constants model values: *)
(* items are told apart by the set they are in, turns and turn states are     *)
(* taken in a fixed order, so no symmetry set is needed.                      *)
EXTENDS TurnEngine
=============================================================================
