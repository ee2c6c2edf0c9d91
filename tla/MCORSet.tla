------------------------------- MODULE MCORSet -------------------------------
(***************************************************************************)
(* Model-checking instances of ORSet.                                      *)
(***************************************************************************)
EXTENDS ORSet

\* Operations per replica: two by replica 1 and one by each other.
TwoAndOne == [r \in Replicas |-> IF r = 1 THEN 2 ELSE 1]

\* Only replica 1 operates, twice or three times.
TwoAndNone == [r \in Replicas |-> IF r = 1 THEN 2 ELSE 0]

ThreeAndNone == [r \in Replicas |-> IF r = 1 THEN 3 ELSE 0]
=============================================================================
