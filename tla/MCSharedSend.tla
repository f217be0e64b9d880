---------------------------- MODULE MCSharedSend ----------------------------
(* Instances of SharedSend for TLC. *)
EXTENDS SharedSend, TLC

Symmetry == Permutations(Senders)
=============================================================================
