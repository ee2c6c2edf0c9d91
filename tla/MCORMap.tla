------------------------------- MODULE MCORMap -------------------------------
(***************************************************************************)
(* Model-checking instance of ORMap.                                      *)
(***************************************************************************)
EXTENDS ORMap

\* Operations per replica: two by replica 1 and one by each other.
TwoAndOne == [r \in Replicas |-> IF r = 1 THEN 2 ELSE 1]
=============================================================================
