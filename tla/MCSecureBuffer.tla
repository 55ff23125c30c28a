--------------------------- MODULE MCSecureBuffer ---------------------------
(***************************************************************************)
(* SecureBuffer on small instances.  Buffers and secrets are               *)
(* interchangeable, and the configuration declares them symmetric: it      *)
(* checks invariants and an action property that names none of them.       *)
(***************************************************************************)
EXTENDS SecureBuffer, TLC

Symmetry == Permutations(Buffers) \cup Permutations(Secrets)
=============================================================================
