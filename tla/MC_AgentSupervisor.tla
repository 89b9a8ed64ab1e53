------------------------- MODULE MC_AgentSupervisor -------------------------
(* Instances of AgentSupervisor for TLC. *)
EXTENDS AgentSupervisor, TLC

CONSTANTS a1, a2, a3

Symm == Permutations({a1, a2, a3} \ Continuous)
=============================================================================
