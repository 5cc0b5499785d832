---------------------------- MODULE MCPeerMatch ----------------------------
(* Instances of PeerMatch for TLC. *)
EXTENDS PeerMatch

\* Versions of one protocol differ in length, as eth and snap do.
MCLength == [n \in Name |-> [v \in Version |-> n + 2 * v]]
=============================================================================
