----------------------------- MODULE MCConsole ------------------------------
EXTENDS Console, TLC

(* Neither connections nor services are told apart by anything else *)
Symmetry == Permutations(Conns) \cup Permutations(Services)
=============================================================================
