---------------------------- MODULE MCConntrack ----------------------------
(* Instances of Conntrack for model checking.                              *)
EXTENDS Conntrack, TLC

ConnSymmetry == Permutations(Ids)
=============================================================================
