------------------------------- MODULE MCNode --------------------------------
(***************************************************************************)
(* Model-checking instance of Node.                                        *)
(***************************************************************************)
EXTENDS Node

\* Replica 1 operates twice, the others once.
TwoAndOne == [r \in Replicas |-> IF r = 1 THEN 2 ELSE 1]

\* A DeltaMap's replicas operate at most twice each, and twice together.
TwoEach == [r \in Replicas |-> 2]

\* The set of key "k" may have a member called like the key and another one.
KeyAndOther == {<<"k", "k">>, <<"k", "m">>}
=============================================================================
