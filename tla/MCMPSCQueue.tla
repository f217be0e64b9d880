---------------------------- MODULE MCMPSCQueue ----------------------------
(* Instances of MPSCQueue for TLC. *)
EXTENDS MPSCQueue, TLC

Symmetry == Permutations(Producers)
=============================================================================
