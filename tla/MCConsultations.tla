------------------------------ MODULE MCConsultations ------------------------------
(* Consultations on small sets of rows.  No property tells the rows apart.      *)
EXTENDS ConsultationPages, TLC

Symmetry == Permutations(Versions) \cup Permutations(Files) \cup Permutations(Workers)
=============================================================================
