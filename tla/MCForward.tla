----------------------------- MODULE MCForward -----------------------------
(* Instances of Forward for TLC.                                           *)
EXTENDS Forward, TLC

Symmetry == Permutations(Pair) \cup Permutations(Channel)
=============================================================================
