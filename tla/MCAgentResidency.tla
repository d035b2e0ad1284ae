-------------------------- MODULE MCAgentResidency --------------------------
(* A small instance of agent residency.  Liveness is checked, so the calls   *)
(* are not declared interchangeable.                                         *)
EXTENDS AgentResidency
=============================================================================
