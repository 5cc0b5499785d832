---------------------------- MODULE MCBlockQueue ----------------------------
(* Instances of BlockQueue for TLC. *)
EXTENDS BlockQueue, TLC

MCSymmetry == Permutations(Peer)
=============================================================================
