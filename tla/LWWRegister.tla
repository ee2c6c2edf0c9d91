----------------------------- MODULE LWWRegister -----------------------------
(***************************************************************************)
(* LWWRegister: a replicated last-writer-wins register (lwwreg.go and the  *)
(* wrapper in node.go).  It has the clock of LWWMap and behaves as a map   *)
(* with the one key "" from which nothing is removed, so this module       *)
(* extends LWWMap, with Keys = {""}, and replaces the local operations.    *)
(***************************************************************************)
EXTENDS LWWMap

\* The key of every delta and of the entry in the Merkle map.
Register == ""

\* LWWRegister.Set: the value replaces the current one without a comparison.
Set(r, v) == LocalWrite(r, PutDelta(Register, v, NextDot(r)))

\* LWWRegister.Set when the codec fails.
SetFails(r) == PutFails(r, Register)

\* applyDelta with lwwRegisterState.Apply: a greater dot replaces the value.
ReceiveSet(r, m) == ReceiveDelta(r, m)

\* handleSyncDigest with lwwRegisterState.DeltasSince
ReceiveRegisterDigest(r, m) == ReceiveDigest(r, m)

RegisterNext == \/ \E r \in Replicas, v \in Values : Set(r, v)
                \/ \E r \in Replicas : SetFails(r)
                \/ \E r \in Replicas, m \in wire : ReceiveSet(r, m)
                \/ \E r \in Replicas : SendDigests(r)
                \/ \E r \in Replicas, m \in digests : ReceiveRegisterDigest(r, m)
                \/ Lose

RegisterSpec == Init /\ [][RegisterNext]_vars
=============================================================================
