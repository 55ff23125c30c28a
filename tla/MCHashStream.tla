---------------------------- MODULE MCHashStream ----------------------------
(***************************************************************************)
(* HashStream on small instances, over all seven namespaces.               *)
(***************************************************************************)
EXTENDS HashStream, TLC

Symmetry == Permutations(Streams) \cup Permutations(Bytes) \cup Permutations(KeyIds)
=============================================================================
