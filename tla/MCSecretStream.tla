--------------------------- MODULE MCSecretStream ---------------------------
(***************************************************************************)
(* SecretStream on small instances.  A wrong key and a wrong header are    *)
(* among those a Decryptor is opened with.  No symmetry: a liveness        *)
(* property is among those checked.                                        *)
(***************************************************************************)
EXTENDS SecretStream
=============================================================================
