---------------------------------- MODULE MCUpgrades ----------------------------------
(* Upgrades for TLC. *)
EXTENDS Upgrades, TLC

Symmetry == Permutations(Choices) \cup Permutations(Items)
=============================================================================
