-------------------------- MODULE MCMaterialImport --------------------------
(* Instances of MaterialImport.                                              *)
EXTENDS MaterialImport, TLC

Symmetry == Permutations(Workers) \cup Permutations(Topics)
              \cup Permutations(Drafts)
=============================================================================
