----------------------------- MODULE MCInitOnce -----------------------------
(***************************************************************************)
(* InitOnce with a few threads; no symmetry, for the sake of the liveness  *)
(* property.                                                               *)
(***************************************************************************)
EXTENDS InitOnce
=============================================================================
