---------------------------- MODULE MCAssetCustody ----------------------------
(* Instances of AssetCustody for TLC. *)
EXTENDS AssetCustody, TLC

Symmetry == Permutations(Users) \cup Permutations(Workers)

=============================================================================
