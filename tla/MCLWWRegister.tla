---------------------------- MODULE MCLWWRegister ----------------------------
(***************************************************************************)
(* Model-checking instances of LWWRegister.                                *)
(***************************************************************************)
EXTENDS LWWRegister

\* Every replica writes the register.
AllWriters == [k \in Keys |-> Replicas]

\* Replica 1 writes twice, the others once.
TwoAndOne == [r \in Replicas |-> IF r = 1 THEN 2 ELSE 1]
=============================================================================
