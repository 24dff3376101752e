--------------------------- MODULE MCPeerSampler ----------------------------
(* The instance of PeerSampler that TLC explores.                          *)
EXTENDS PeerSampler
=============================================================================
