----------------------------- MODULE MCThrottle -----------------------------
EXTENDS Throttle, TLC

(* Addresses are told apart by nothing else *)
Symmetry == Permutations(Ips)
=============================================================================
