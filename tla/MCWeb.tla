------------------------------- MODULE MCWeb --------------------------------
EXTENDS Web, TLC

(* Nothing tells tabs, session tokens or pairs of files apart *)
Symmetry == Permutations(Tabs) \cup Permutations(Tokens) \cup Permutations(Pairs)
=============================================================================
