----------------------------- MODULE MC_SubAgent -----------------------------
(* Instances of SubAgent for TLC. *)
EXTENDS SubAgent, TLC

CONSTANTS m1, m2, q1, q2
==============================================================================
