------------------------------ MODULE MCCodec ------------------------------
(***************************************************************************)
(* Codec on small instances: 251 brings out the digits the alphabets write *)
(* differently.                                                            *)
(***************************************************************************)
EXTENDS Codec
=============================================================================
