----------------------------- MODULE MCPeerLink -----------------------------
(* The instance of PeerLink that TLC explores. *)
EXTENDS PeerLink
=============================================================================
