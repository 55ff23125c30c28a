----------------------------- MODULE MCNonceUse -----------------------------
(***************************************************************************)
(* NonceUse on small instances: two or three objects, one or two draws     *)
(* beside zero bytes, counters that soon come round.                       *)
(***************************************************************************)
EXTENDS NonceUse, TLC

Symmetry == Permutations(LazyNonces) \cup Permutations(Nonces \ LazyNonces) \cup Permutations(Draws)
=============================================================================
