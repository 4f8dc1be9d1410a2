------------------------------ MODULE MCConfig ------------------------------
(* Instances of Config for TLC.  An int has 20 bits here, so that a number *)
(* that does not fit in one fits in TLC's.                                 *)
EXTENDS Config

Edges == {-1, 0, 1, 5, 65534, 65535, 65536, 2^19, 2^20 + 2}
Two == {"one", "two"}
=============================================================================
