------------------------------ MODULE MCTimer ------------------------------
(* Instances of Timer for TLC.                                             *)
EXTENDS Timer

ForwardAndBack == {-7, 5}
Never == {}
=============================================================================
