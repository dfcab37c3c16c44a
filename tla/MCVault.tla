------------------------------ MODULE MCVault -------------------------------
EXTENDS VaultProps, TLC

(* Workers run the same code *)
Symmetry == Permutations(Workers)
=============================================================================
