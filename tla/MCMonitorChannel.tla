-------------------------- MODULE MCMonitorChannel --------------------------
(* The instance of MonitorChannel that TLC explores.                       *)
EXTENDS MonitorChannel
=============================================================================
