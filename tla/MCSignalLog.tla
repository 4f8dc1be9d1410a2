---------------------------- MODULE MCSignalLog ----------------------------
(* Instances of SignalLog for TLC.                                         *)
EXTENDS SignalLog

All == {"SIGINT", "SIGHUP", "SIGCHLD", "SIGPIPE"}
=============================================================================
