----------------------------- MODULE MCDeltaMap ------------------------------
(***************************************************************************)
(* Model-checking instance of DeltaMap.                                    *)
(***************************************************************************)
EXTENDS DeltaMap

\* The set of key "k" may have a member called like the key and another one.
KeyAndOther == {<<"k", "k">>, <<"k", "m">>}

\* Either replica operates at most twice.
TwoEach == [r \in Replicas |-> 2]
=============================================================================
