------------------------------------ MODULE MCAgenda ------------------------------------
(* Agenda with few items, so that positions stay small.                         *)
EXTENDS Agenda, TLC

Symmetry == Permutations(Items) \cup Permutations(Users)
=============================================================================
