--------------------------- MODULE MCDurableLWWMap ---------------------------
(***************************************************************************)
(* Model-checking instances of LWWMap over a durable backend.              *)
(***************************************************************************)
EXTENDS DurableLWWMap

\* Replica 1 writes a.
OneWriter == [k \in Keys |-> {1}]

\* Replica 1 writes twice, the others not at all.
TwoAndNone == [r \in Replicas |-> IF r = 1 THEN 2 ELSE 0]
=============================================================================
