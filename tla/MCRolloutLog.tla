---------------------------- MODULE MCRolloutLog ----------------------------
(* Small instances of RolloutLog. *)
EXTENDS RolloutLog
=============================================================================
