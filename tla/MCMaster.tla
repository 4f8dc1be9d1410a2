------------------------------ MODULE MCMaster ------------------------------
(* Instances of Master for TLC.                                            *)
EXTENDS Master

=============================================================================
