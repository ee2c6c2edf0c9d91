---------------------------- MODULE DurableLWWMap ----------------------------
(***************************************************************************)
(* An LWWMap over a backend that survives its process (crdtbolt/bolt.go).  *)
(* Entries and tombstones are on disk; the local clock, the received       *)
(* clock, the Merkle map and the peers' marks are not, and newReplica      *)
(* starts them empty (replica.go:62-73).  Every call of the backend is a   *)
(* transaction of its own, so a crash may fall between the two of one put  *)
(* or remove.                                                              *)
(***************************************************************************)
EXTENDS LWWMap

CONSTANTS Restarters,   \* the replicas whose process may stop
          MaxRestarts   \* bound: how often a process stops

ASSUME DurableAssumption == Restarters \subseteq Replicas /\ MaxRestarts \in Nat

VARIABLE restarts       \* how often a process has stopped

durableVars == <<vars, restarts>>

DurableInit == Init /\ restarts = 0

\* newReplica over the backend that an earlier process left.
LoseMemory(r) ==
    /\ r \in Restarters
    /\ restarts < MaxRestarts
    /\ restarts' = restarts + 1
    /\ local' = [local EXCEPT ![r] = 0]
    /\ hwm' = [hwm EXCEPT ![r] = EmptyClock]
    /\ pending' = [pending EXCEPT ![r] = [s \in Replicas |-> {}]]
    /\ tracked' = [tracked EXCEPT ![r] = {}]
    /\ known' = [known EXCEPT ![r] = {}]
    /\ peerHWMs' = [peerHWMs EXCEPT ![r] = [p \in Replicas |-> EmptyClock]]

\* The process stops between two operations; the file is opened again.
Restart(r) ==
    /\ LoseMemory(r)
    /\ UNCHANGED <<entries, tombs, written, wire, digests>>

\* BoltBackend.PutEntry, the first of the two transactions of a put, and
\* BoltBackend.DeleteEntry, the first of the two of a remove.
FirstTransaction(r, d) ==
    /\ entries' = [entries EXCEPT ![r][d.key] =
                     IF d.op = "put" THEN [val |-> d.val, dot |-> d.dot] ELSE NoEntry]
    /\ UNCHANGED tombs

\* The process stops while it applies a delta: PutEntry without
\* DeleteTombstone leaves both, DeleteEntry without PutTombstone neither.
CrashInApply(r, m) ==
    /\ LoseMemory(r)
    /\ m.to = r
    /\ Allows(r, m.delta)
    /\ FirstTransaction(r, m.delta)
    /\ wire' \in Remaining(wire, m)
    /\ UNCHANGED <<digests, written>>

DurableNext == \/ Next /\ UNCHANGED restarts
               \/ \E r \in Replicas : Restart(r)
               \/ \E r \in Replicas, m \in wire : CrashInApply(r, m)

DurableSpec == DurableInit /\ [][DurableNext]_durableVars

DurableFairSpec == DurableSpec /\ Fairness
=============================================================================
