---------------------------- MODULE MC_CancelTree ----------------------------
(* Instances of CancelTree for TLC. *)
EXTENDS CancelTree, TLC

Symm == Permutations(Tokens)
==============================================================================
