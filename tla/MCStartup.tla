----------------------------- MODULE MCStartup -----------------------------
(* Instances of Startup for TLC.                                           *)
EXTENDS Startup

NiceValues == {0, 5, 15}
=============================================================================
