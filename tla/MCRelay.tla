------------------------------ MODULE MCRelay ------------------------------
(* Instances of Relay for TLC.                                             *)
EXTENDS Relay

All == {"CHANNEL", "ALLOW", "NULL", "ECHO"}
Allow == {"ALLOW"}
Channel == {"CHANNEL"}
=============================================================================
