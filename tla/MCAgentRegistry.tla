-------------------------- MODULE MCAgentRegistry --------------------------
(* Small instances of the agent registry.  Calls and paths are              *)
(* interchangeable.                                                         *)
EXTENDS AgentRegistry, TLC

CallSymmetry == Permutations(Calls) \cup Permutations(Paths)
=============================================================================
