--------------------------- MODULE MCKeyExchange ---------------------------
(***************************************************************************)
(* KeyExchange on small instances.                                         *)
(***************************************************************************)
EXTENDS KeyExchange, TLC

\* One salt of Argon2id's size and one of another.
SomeSalts == {[salt |-> 1, size |-> 16], [salt |-> 2, size |-> 8]}

Symmetry == Permutations(Holders) \cup Permutations(Draws)
=============================================================================
