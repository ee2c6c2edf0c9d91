---------------------------- MODULE MCPNCounter ----------------------------
(***************************************************************************)
(* Model-checking instance of PNCounter.                                  *)
(***************************************************************************)
EXTENDS PNCounter

\* Every replica operates once.
OneEach == [r \in Replicas |-> 1]
=============================================================================
