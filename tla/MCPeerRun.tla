----------------------------- MODULE MCPeerRun -----------------------------
(* Instances of PeerRun for TLC. *)
EXTENDS PeerRun
=============================================================================
