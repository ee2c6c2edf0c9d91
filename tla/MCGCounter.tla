----------------------------- MODULE MCGCounter -----------------------------
(***************************************************************************)
(* Model-checking instance of GCounter.                                    *)
(***************************************************************************)
EXTENDS GCounter

\* Replica 1 may be asked to add 2; the other one can only increment by 0.
TwoAndNone == [r \in Replicas |-> IF r = 1 THEN 2 ELSE 0]
=============================================================================
