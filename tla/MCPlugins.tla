----------------------------- MODULE MCPlugins -----------------------------
(* Instances of Plugins for model checking.                                *)
EXTENDS Plugins

\* The first payload alone exceeds plq_size_max = 1, or does not
ShortOrLong == [n \in 1..MaxPayloads |-> IF n = 1 THEN {1, 2} ELSE {1}]
=============================================================================
