-------------------------- MODULE MCPeerConnection --------------------------
(* Instances of PeerConnection: the constants are in the .cfg files. *)
EXTENDS PeerConnection
=============================================================================
