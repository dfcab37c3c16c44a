---------------------------- MODULE MCLifecycle ----------------------------
EXTENDS LifecycleProps, TLC

(* Workers run the same code *)
Symmetry == Permutations(Workers)
=============================================================================
