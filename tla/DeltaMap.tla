------------------------------ MODULE DeltaMap -------------------------------
(***************************************************************************)
(* DeltaMap: a replicated map whose values are observed-remove sets        *)
(* (deltamap.go, and ORSetKind with its mutations in mutations.go).  The   *)
(* sets share the causal context of the map's replica; the members of all  *)
(* of them are the elements <<key, member>> of one ORSet, each with its    *)
(* dots and its inner tombstone.  The map adds its own tombstone per key.  *)
(* A key is removed by pruning its set with the remover's marks.           *)
(***************************************************************************)
EXTENDS ORSet

CONSTANTS Keys,       \* Elems is a set of pairs <<key, member>>
          MaxTotal    \* bound: operations of all replicas together

VARIABLES created,    \* created[r]: the keys with an entry, maybe an empty one
          keyTombs    \* keyTombs[r][k]: dot and context of a RemoveKey, or NoTomb

deltaMapVars == <<vars, created, keyTombs>>

KeyOf(e) == e[1]

RemoveKeyDelta(k, d, ctx) == [op |-> "removeKey", key |-> k, dot |-> d, ctx |-> ctx]

-----------------------------------------------------------------------------
MapInit == /\ Init
           /\ created = [r \in Replicas |-> {}]
           /\ keyTombs = [r \in Replicas |-> [k \in Keys |-> NoTomb]]

\* EntryMeta or TombstoneMeta finds something under the key.  EntryMeta asks
\* the set of the key for a member that is called like the key itself.
KeyPresent(r, k) ==
    \/ <<k, k>> \in Elems /\ entries[r][<<k, k>>] # EmptyClock
    \/ keyTombs[r][k] # NoTomb

MayOperate(r) ==
    /\ local[r] < MaxOps[r]
    /\ Cardinality({o \in Replicas \X (1..MaxTotal) : o[2] <= local[o[1]]}) < MaxTotal

\* getOrCreate
GetOrCreate(r, k) == created' = [created EXCEPT ![r] = @ \cup {k}]

\* DeltaMap.Mutate with AddSetMember
AddMember(r, e) ==
    /\ MayOperate(r)
    /\ StampDot(r)
    /\ GetOrCreate(r, KeyOf(e))
    /\ AddElem(r, e)
    /\ UNCHANGED keyTombs
    /\ TrackKey(r, KeyOf(e), KeyPresent(r, KeyOf(e))')
    /\ Propagate(r, AddDelta(e, Singleton(NextDot(r))))
    /\ adds' = adds \cup {[elem |-> e, dot |-> NextDot(r)]}
    /\ UNCHANGED <<known, peerHWMs, removes>>

\* DeltaMap.Mutate with RemoveSetMember
RemoveMember(r, e) ==
    /\ MayOperate(r)
    /\ StampDot(r)
    /\ GetOrCreate(r, KeyOf(e))
    /\ RemoveElem(r, e)
    /\ UNCHANGED keyTombs
    /\ TrackKey(r, KeyOf(e), KeyPresent(r, KeyOf(e))')
    /\ Propagate(r, RemoveDelta(e, NextDot(r), hwm'[r]))
    /\ removes' = removes \cup {RemoveOf(r, e)}
    /\ UNCHANGED <<known, peerHWMs, adds>>

\* DeltaMap.Mutate when the codec fails: the dot is used up and the key has
\* an entry.
MutateFails(r, k) ==
    /\ MayOperate(r)
    /\ OpFails(r)
    /\ GetOrCreate(r, k)
    /\ UNCHANGED keyTombs

\* Seeded fault: the members of the key go with all their dots.
RemoveAllWhole(r, k, ctx) ==
    entries' = [entries EXCEPT ![r] = [e \in Elems |->
                  IF KeyOf(e) = k THEN EmptyClock ELSE entries[r][e]]]

\* ORSetKind.removeAll: the dots that the context covers go, member by
\* member; inner tombstones stay.
RemoveAll(r, k, ctx) ==
    entries' = [entries EXCEPT ![r] = [e \in Elems |->
                  IF KeyOf(e) = k THEN Surviving(entries[r][e], ctx) ELSE entries[r][e]]]

\* deltasSince of the empty clock is empty: no member, no inner tombstone.
Void(r, k) == \A e \in Elems : KeyOf(e) = k => ~Present(r, e)

\* The entry of a pruned key is deleted if nothing is left in it.
DeleteIfVoid(r, k) ==
    created' = [created EXCEPT ![r] = IF Void(r, k)' THEN @ \ {k} ELSE @ \cup {k}]

\* DeltaMap.RemoveKey
RemoveKey(r, k) ==
    /\ MayOperate(r)
    /\ StampDot(r)
    /\ keyTombs' = [keyTombs EXCEPT ![r][k] = [dot |-> NextDot(r), ctx |-> hwm'[r]]]
    /\ UNCHANGED tombs
    /\ RemoveAll(r, k, hwm'[r])
    /\ DeleteIfVoid(r, k)
    /\ TrackKey(r, k, KeyPresent(r, k)')
    /\ Propagate(r, RemoveKeyDelta(k, NextDot(r), hwm'[r]))
    /\ removes' = removes \cup {RemoveOf(r, e) : e \in {e \in Elems : KeyOf(e) = k}}
    /\ UNCHANGED <<known, peerHWMs, adds>>

\* applyDelta with deltaMapState.Apply for a put: the inner delta goes to the
\* set of the key; the tombstone of the key is not consulted.
ReceivePut(r, m) ==
    LET d == m.delta  k == KeyOf(d.elem) IN
    /\ m.to = r
    /\ d.op # "removeKey"
    /\ wire' \in Remaining(wire, m)
    /\ GetOrCreate(r, k)
    /\ Apply(r, d)
    /\ UNCHANGED keyTombs
    /\ RecordDots(r, DotsOf(d))
    /\ TrackKey(r, k, KeyPresent(r, k)')
    /\ UNCHANGED <<local, known, peerHWMs, digests, adds, removes>>

\* The tombstone of the key keeps the greater dot and the context at hand.
KeyTombAfter(r, d) ==
    LET old == keyTombs[r][d.key]
    IN  [dot |-> IF old # NoTomb /\ ~DotGT(d.dot, old.dot) THEN old.dot ELSE d.dot,
         ctx |-> d.ctx]

\* applyDelta with deltaMapState.Apply for a remove of a key
ReceiveRemoveKey(r, m) ==
    LET d == m.delta IN
    /\ m.to = r
    /\ d.op = "removeKey"
    /\ wire' \in Remaining(wire, m)
    /\ keyTombs' = [keyTombs EXCEPT ![r][d.key] = KeyTombAfter(r, d)]
    /\ UNCHANGED tombs
    /\ RemoveAll(r, d.key, d.ctx)
    /\ IF d.key \in created[r] THEN DeleteIfVoid(r, d.key) ELSE UNCHANGED created
    /\ RecordDots(r, Singleton(d.dot))
    /\ TrackKey(r, d.key, KeyPresent(r, d.key)')
    /\ UNCHANGED <<local, known, peerHWMs, digests, adds, removes>>

\* Seeded fault: the removes of keys are not sent again.
SetDeltasSince(r, peerHWM) == DeltasSince(r, peerHWM)

\* deltaMapState.DeltasSince: what each set sends, and the tombstones of keys.
MapDeltasSince(r, peerHWM) ==
    DeltasSince(r, peerHWM) \cup
    {RemoveKeyDelta(k, keyTombs[r][k].dot, keyTombs[r][k].ctx) : k \in
        {k \in Keys : /\ keyTombs[r][k] # NoTomb
                      /\ keyTombs[r][k].dot.cnt > peerHWM[keyTombs[r][k].dot.rep]}}

\* Seeded fault: the peers' marks are not consulted.
KeyCollectableAlone(r, k) ==
    /\ known[r] # {}
    /\ keyTombs[r][k] # NoTomb
    /\ keyTombs[r][k].dot.cnt <= hwm[r][keyTombs[r][k].dot.rep]

\* deltaMapState.GCTombstones: inner tombstones are never collected.
KeyCollectable(r, k) ==
    /\ known[r] # {}
    /\ keyTombs[r][k] # NoTomb
    /\ keyTombs[r][k].dot.cnt <= MinHWM(r)[keyTombs[r][k].dot.rep]

\* sendDigests
SendMapDigests(r) ==
    /\ keyTombs' = [keyTombs EXCEPT ![r] = [k \in Keys |->
                      IF KeyCollectable(r, k) THEN NoTomb ELSE keyTombs[r][k]]]
    /\ BroadcastDigest(r)
    /\ UNCHANGED <<local, hwm, pending, tracked, known, peerHWMs, wire>>
    /\ UNCHANGED <<entries, tombs, adds, removes, created>>

ReceiveMapDigest(r, m) ==
    /\ AnswerDigest(r, m, MapDeltasSince(r, m.hwm))
    /\ UNCHANGED <<entries, tombs, adds, removes, created, keyTombs>>

LoseMapMessage == Lose /\ UNCHANGED <<created, keyTombs>>

MapNext == \/ \E r \in Replicas, e \in Elems : AddMember(r, e)
           \/ \E r \in Replicas, e \in Elems : RemoveMember(r, e)
           \/ \E r \in Replicas, k \in Keys : MutateFails(r, k)
           \/ \E r \in Replicas, k \in Keys : RemoveKey(r, k)
           \/ \E r \in Replicas, m \in wire : ReceivePut(r, m)
           \/ \E r \in Replicas, m \in wire : ReceiveRemoveKey(r, m)
           \/ \E r \in Replicas : SendMapDigests(r)
           \/ \E r \in Replicas, m \in digests : ReceiveMapDigest(r, m)
           \/ LoseMapMessage

MapSpec == MapInit /\ [][MapNext]_deltaMapVars

-----------------------------------------------------------------------------
MapDelta == Delta \cup [op : {"removeKey"}, key : Keys, dot : Dot, ctx : VClock]

\* The sets, the tombstones of keys and the deltas keep their types, pending
\* counters are positive, and whatever a set holds its key has an entry.
MapTypeOK ==
    /\ entries \in [Replicas -> [Elems -> VClock]]
    /\ tombs \in [Replicas -> [Elems -> [dot : Dot, ctx : VClock] \cup {NoTomb}]]
    /\ pending \in [Replicas -> [Replicas -> SUBSET (Nat \ {0})]]
    /\ tracked \in [Replicas -> SUBSET Keys]
    /\ created \in [Replicas -> SUBSET Keys]
    /\ keyTombs \in [Replicas -> [Keys -> [dot : Dot, ctx : VClock] \cup {NoTomb}]]
    /\ wire \subseteq [to : Replicas, via : {"push", "sync"}, delta : MapDelta]
    /\ \A r \in Replicas, e \in Elems : Present(r, e) => KeyOf(e) \in created[r]

\* A digest that is answered at all is answered with every dot, every inner
\* tombstone and every tombstone of a key that its sender has not received.
\* (Whether it is answered is another matter: see KeyPresent.)
MapAnswerComplete ==
    \A m \in digests : ~SameHash(m.to, m) =>
        LET deltas == MapDeltasSince(m.to, m.hwm) IN
        /\ \A e \in Elems, s \in Replicas :
             (entries[m.to][e][s] > 0 /\ ~Received(m.from, DotOf(s, entries[m.to][e][s])))
               => AddDelta(e, entries[m.to][e]) \in deltas
        /\ \A e \in Elems :
             (tombs[m.to][e] # NoTomb /\ ~Received(m.from, tombs[m.to][e].dot))
               => RemoveDelta(e, tombs[m.to][e].dot, tombs[m.to][e].ctx) \in deltas
        /\ \A k \in Keys :
             (keyTombs[m.to][k] # NoTomb /\ ~Received(m.from, keyTombs[m.to][k].dot))
               => RemoveKeyDelta(k, keyTombs[m.to][k].dot, keyTombs[m.to][k].ctx) \in deltas

\* A step that drops the tombstone of a key is taken only after every peer
\* that has ever sent a digest has received the RemoveKey.
KeyCollectedStep ==
    \A r \in Replicas, k \in Keys :
        (keyTombs[r][k] # NoTomb /\ keyTombs'[r][k] = NoTomb) =>
            \A p \in known[r] : Received(p, keyTombs[r][k].dot)

\* deltamap.go:228-229: "the causal context at remove time determines what is
\* pruned.  Concurrent adds with unseen dots survive."  Once a replica holds
\* the tombstone of a removed key, no member has a dot that its context covers.
RemovedKeyStaysPruned ==
    \A r, s \in Replicas, e \in Elems :
        (keyTombs[r][KeyOf(e)] # NoTomb /\ entries[r][e][s] > 0)
            => entries[r][e][s] > keyTombs[r][KeyOf(e)].ctx[s]
=============================================================================
