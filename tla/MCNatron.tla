------------------------------ MODULE MCNatron ------------------------------
(***************************************************************************)
(* Natron on small instances: a clock of a few seconds in a small machine  *)
(* word, lifetimes on both sides of zero.                                  *)
(***************************************************************************)
EXTENDS Natron, TLC

Lifetimes == {0, 1, 2}
LifetimesAndNegative == {-1, 0, 1}
Symmetry == Permutations(Keys) \cup Permutations(Secrets) \cup Permutations(Texts)
=============================================================================
