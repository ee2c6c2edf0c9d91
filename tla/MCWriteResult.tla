---------------------------- MODULE MCWriteResult ----------------------------
(***************************************************************************)
(* Model-checking instances of WriteResult: every topology of up to three  *)
(* peers, so clusters of odd and of even size, and two calls of Wait.      *)
(***************************************************************************)
EXTENDS WriteResult
=============================================================================
