---------------------------- MODULE MCCellActor ----------------------------
(* CellActor for TLC.  Calls of terminate are interchangeable.               *)
EXTENDS CellActor, TLC

Symmetry == Permutations(Terminates)
=============================================================================
