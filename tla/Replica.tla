------------------------------- MODULE Replica -------------------------------
(***************************************************************************)
(* The replication core that every CRDT type is wrapped in (replica.go):   *)
(* the local clock, the received clock, the Merkle map, the marks last     *)
(* reported by peers, and the messages between replicas.  This module has  *)
(* the state and the building blocks; a module per CRDT type extends it    *)
(* with the type's data and the actions.                                   *)
(*                                                                         *)
(* Every handler runs under one mutex, so it is one atomic step.  Sends    *)
(* happen after the mutex is released, one goroutine per message: a        *)
(* message is in flight from then on and messages overtake one another     *)
(* even over a transport that keeps order.                                 *)
(*                                                                         *)
(* The Merkle map hashes with a seed of its own per instance               *)
(* (merkle.go:22-27): the hashes of two replicas agree when both maps are  *)
(* empty and otherwise, up to 64-bit collisions, differ.  So the model     *)
(* keeps the set of tracked keys and a digest carries whether it is empty. *)
(***************************************************************************)
EXTENDS Clocks

CONSTANTS Faults,       \* what the transport may do: "lose", "duplicate"
          MaxWire,      \* bound: deltas in flight when more are sent
          MaxDigests    \* bound: digests of one replica in flight

ASSUME FaultsAssumption == Faults \subseteq {"lose", "duplicate"}

VARIABLES local,      \* local[r]: the counter of localClock
          hwm,        \* hwm[r][s]: received.hwm
          pending,    \* pending[r][s]: received.pending
          tracked,    \* tracked[r]: the keys in the MerkleMap
          known,      \* known[r]: the peers in the map peerHWMs
          peerHWMs,   \* peerHWMs[r][p]: the mark that p reported last
          wire,       \* delta messages in flight
          digests     \* anti-entropy digests in flight

shell == <<local, hwm, pending, tracked, known, peerHWMs, wire, digests>>

Peers(r) == Replicas \ {r}

-----------------------------------------------------------------------------
\* newReplica
ShellInit ==
    /\ local = [r \in Replicas |-> 0]
    /\ hwm = [r \in Replicas |-> EmptyClock]
    /\ pending = [r \in Replicas |-> [s \in Replicas |-> {}]]
    /\ tracked = [r \in Replicas |-> {}]
    /\ known = [r \in Replicas |-> {}]
    /\ peerHWMs = [r \in Replicas |-> [p \in Replicas |-> EmptyClock]]
    /\ wire = {}
    /\ digests = {}

\* received.Record for every dot of a delta; a dot map has at most one dot
\* per replica, and 0 is ignored.
RecordDots(r, dots) ==
    /\ hwm' = [hwm EXCEPT ![r] = [s \in Replicas |->
                   RecordHWM(hwm[r][s], pending[r][s], dots[s])]]
    /\ pending' = [pending EXCEPT ![r] = [s \in Replicas |->
                   RecordPending(hwm[r][s], pending[r][s], dots[s])]]

\* nextDot: stamp the next dot and record it as received.
NextDot(r) == DotOf(r, local[r] + 1)

StampDot(r) == /\ local' = [local EXCEPT ![r] = @ + 1]
               /\ RecordDots(r, Singleton(NextDot(r)))

\* trackKey: a key with an entry or a tombstone is in the MerkleMap.
TrackKey(r, key, present) ==
    tracked' = [tracked EXCEPT ![r] = IF present THEN @ \cup {key} ELSE @ \ {key}]

-----------------------------------------------------------------------------
(* Messages.  A delta is sent when it is written ("push") or in answer to  *)
(* a digest ("sync"); the two copies of one delta may both be in flight.   *)

Pushes(r, delta) == [to : Peers(r), via : {"push"}, delta : {delta}]

Syncs(to, ds) == [to : {to}, via : {"sync"}, delta : ds]

\* What is left of a message set once m has been handed to the receiver.
Remaining(msgs, m) ==
    {msgs \ {m}} \cup (IF "duplicate" \in Faults THEN {msgs} ELSE {})

\* propagate, broadcast
Propagate(r, delta) == /\ wire' = wire \cup Pushes(r, delta)
                       /\ Cardinality(wire) <= MaxWire
                       /\ UNCHANGED digests

\* An error of Transport.Send is dropped, and so is the message.
LoseDelta == /\ "lose" \in Faults
             /\ \E m \in wire : wire' = wire \ {m}
             /\ UNCHANGED <<local, hwm, pending, tracked, known, peerHWMs, digests>>

LoseDigest == /\ "lose" \in Faults
              /\ \E m \in digests : digests' = digests \ {m}
              /\ UNCHANGED <<local, hwm, pending, tracked, known, peerHWMs, wire>>

-----------------------------------------------------------------------------
(* Anti-entropy.                                                           *)

\* Seeded fault: the highest counter received is reported, over any gap.
DigestHighest(r, to) ==
    [to |-> to, from |-> r, empty |-> tracked[r] = {},
     hwm |-> [s \in Replicas |-> CHOOSE n \in {hwm[r][s]} \cup pending[r][s] :
                 n >= hwm[r][s] /\ \A q \in pending[r][s] : n >= q]]

Digest(r, to) ==
    [to |-> to, from |-> r, hwm |-> hwm[r], empty |-> tracked[r] = {}]

\* sendDigests: the digest of the current state goes to every peer.
BroadcastDigest(r) ==
    /\ digests' = digests \cup {Digest(r, p) : p \in Peers(r)}
    /\ Cardinality({m \in digests' : m.from = r}) <= MaxDigests

\* The mark below which every peer that has reported one has received
\* everything; sendDigests collects garbage only if some peer has.
MinHWM(r) == [s \in Replicas |->
    CHOOSE n \in {hwm[r][s]} \cup {peerHWMs[r][p][s] : p \in known[r]} :
        n <= hwm[r][s] /\ \A p \in known[r] : n <= peerHWMs[r][p][s]]

\* Seeded fault: two maps count as equal when both have content.
SameHashIfAny(r, m) == (tracked[r] = {}) <=> m.empty

\* Merkle hashes of r and of the sender of digest m are equal.
SameHash(r, m) == tracked[r] = {} /\ m.empty

\* handleSyncDigest: remember the peer's mark; unless the hashes agree, send
\* it the deltas (computed by the data type) it has not reported.
AnswerDigest(r, m, deltas) ==
    /\ m.to = r
    /\ Cardinality(wire) <= MaxWire
    /\ digests' \in Remaining(digests, m)
    /\ known' = [known EXCEPT ![r] = @ \cup {m.from}]
    /\ peerHWMs' = [peerHWMs EXCEPT ![r][m.from] = m.hwm]
    /\ wire' = IF SameHash(r, m) THEN wire ELSE wire \cup Syncs(m.from, deltas)
    /\ UNCHANGED <<local, hwm, pending, tracked>>

-----------------------------------------------------------------------------
(* What the properties of the types have in common.                        *)

Covered(r, s) == 1..hwm[r][s] \cup pending[r][s]

\* Every mark that is on its way to a peer or kept by one is at most what
\* its owner has received by now: digests may be stale, lost, repeated or
\* out of order, but no replica ever believes too much of another.
ReportedMarksSound ==
    /\ \A r \in Replicas : \A p \in known[r] : LTE(peerHWMs[r][p], hwm[p])
    /\ \A m \in digests : LTE(m.hwm, hwm[m.from])
=============================================================================
