------------------------------ MODULE MCFwPool ------------------------------
(* Instances of FwPool for TLC.                                            *)
EXTENDS FwPool, TLC

Symmetry == Permutations(Pair)
=============================================================================
