---------------------------- MODULE MCPeerServer ----------------------------
(* The instance of PeerServer that TLC explores.                           *)
EXTENDS PeerServer
=============================================================================
