------------------------------ MODULE AWLWWMap -------------------------------
(***************************************************************************)
(* AWLWWMap: a last-writer-wins map in which a put beats a concurrent      *)
(* remove (awlwwmap.go, clock_addwins.go and the wrapper in node.go).      *)
(* Each key has an entry or a tombstone; a remove carries the remover's    *)
(* marks as its context.  The value of an entry never parts from its dot   *)
(* and is left out.  Tombstones are not collected.                         *)
(***************************************************************************)
EXTENDS Replica

CONSTANTS Keys,
          MaxOps      \* bound: MaxOps[r] local operations of r

VARIABLES entries,    \* entries[r][k]: the dot of the put, or NoDot
          tombs,      \* tombs[r][k]: dot and context of a remove, or NoTomb
          puts,       \* history: every put
          removes     \* history: every remove and what its issuer had received

vars == <<shell, entries, tombs, puts, removes>>

NoTomb == [dot |-> NoDot, ctx |-> EmptyClock]

PutDelta(k, d) == [op |-> "put", key |-> k, dot |-> d]

RemoveDelta(k, t) == [op |-> "remove", key |-> k, dot |-> t.dot, ctx |-> t.ctx]

-----------------------------------------------------------------------------
Init == /\ ShellInit
        /\ entries = [r \in Replicas |-> [k \in Keys |-> NoDot]]
        /\ tombs = [r \in Replicas |-> [k \in Keys |-> NoTomb]]
        /\ puts = {}
        /\ removes = {}

\* awLWWMapState.Put, PutBytes and Remove: the entry replaces the tombstone,
\* the tombstone replaces the entry.
Store(r, d) ==
    IF d.op = "put"
    THEN /\ entries' = [entries EXCEPT ![r][d.key] = d.dot]
         /\ tombs' = [tombs EXCEPT ![r][d.key] = NoTomb]
    ELSE /\ entries' = [entries EXCEPT ![r][d.key] = NoDot]
         /\ tombs' = [tombs EXCEPT ![r][d.key] = [dot |-> d.dot, ctx |-> d.ctx]]

\* EntryMeta or TombstoneMeta finds something under the key.
Present(r, k) == entries[r][k] # NoDot \/ tombs[r][k] # NoTomb

\* AWLWWMap.Put
Put(r, k) ==
    LET d == PutDelta(k, NextDot(r)) IN
    /\ local[r] < MaxOps[r]
    /\ StampDot(r)
    /\ Store(r, d)
    /\ TrackKey(r, k, Present(r, k)')
    /\ Propagate(r, d)
    /\ puts' = puts \cup {[key |-> k, dot |-> NextDot(r)]}
    /\ UNCHANGED <<known, peerHWMs, removes>>

\* AWLWWMap.Put when the codec fails: the dot is used up, nothing is sent.
PutFails(r) ==
    /\ local[r] < MaxOps[r]
    /\ StampDot(r)
    /\ UNCHANGED <<tracked, known, peerHWMs, wire, digests, entries, tombs, puts, removes>>

\* AWLWWMap.Remove: the context is the marks after the remove's own dot.
Remove(r, k) ==
    LET d == RemoveDelta(k, [dot |-> NextDot(r), ctx |-> hwm'[r]]) IN
    /\ local[r] < MaxOps[r]
    /\ StampDot(r)
    /\ Store(r, d)
    /\ TrackKey(r, k, Present(r, k)')
    /\ Propagate(r, d)
    /\ removes' = removes \cup {[key |-> k, dot |-> NextDot(r),
                                 seen |-> [s \in Replicas |-> Covered(r, s)]]}
    /\ UNCHANGED <<known, peerHWMs, puts>>

\* Seeded fault: a remove is compared with an entry by its dot.
AllowsByDot(r, d) ==
    /\ entries[r][d.key] # NoDot => DotGT(d.dot, entries[r][d.key])
    /\ tombs[r][d.key] # NoTomb =>
         IF d.op = "put" THEN d.dot.cnt > tombs[r][d.key].ctx[d.dot.rep]
                         ELSE DotGT(d.dot, tombs[r][d.key].dot)

\* addWinsClock.Allows: the greater dot wins between two puts and between two
\* removes; between a put and a remove the context decides.
Allows(r, d) ==
    IF d.op = "put"
    THEN /\ entries[r][d.key] # NoDot => DotGT(d.dot, entries[r][d.key])
         /\ tombs[r][d.key] # NoTomb => d.dot.cnt > tombs[r][d.key].ctx[d.dot.rep]
    ELSE /\ entries[r][d.key] # NoDot => entries[r][d.key].cnt <= d.ctx[entries[r][d.key].rep]
         /\ tombs[r][d.key] # NoTomb => DotGT(d.dot, tombs[r][d.key].dot)

\* applyDelta: the dot is recorded whether or not the delta is applied.
ReceiveDelta(r, m) ==
    LET d == m.delta IN
    /\ m.to = r
    /\ wire' \in Remaining(wire, m)
    /\ IF Allows(r, d) THEN Store(r, d) ELSE UNCHANGED <<entries, tombs>>
    /\ RecordDots(r, Singleton(d.dot))
    /\ TrackKey(r, d.key, Present(r, d.key)')
    /\ UNCHANGED <<local, known, peerHWMs, digests, puts, removes>>

\* Seeded fault: tombstones are not sent again.
EntriesSince(r, peerHWM) ==
    {PutDelta(k, entries[r][k]) : k \in
        {k \in Keys : /\ entries[r][k] # NoDot
                      /\ entries[r][k].cnt > peerHWM[entries[r][k].rep]}}

\* awLWWMapState.DeltasSince
DeltasSince(r, peerHWM) ==
    {PutDelta(k, entries[r][k]) : k \in
        {k \in Keys : /\ entries[r][k] # NoDot
                      /\ entries[r][k].cnt > peerHWM[entries[r][k].rep]}}
    \cup
    {RemoveDelta(k, tombs[r][k]) : k \in
        {k \in Keys : /\ tombs[r][k] # NoTomb
                      /\ tombs[r][k].dot.cnt > peerHWM[tombs[r][k].dot.rep]}}

\* sendDigests; the map does not collect its tombstones.
SendDigests(r) ==
    /\ BroadcastDigest(r)
    /\ UNCHANGED <<local, hwm, pending, tracked, known, peerHWMs, wire>>
    /\ UNCHANGED <<entries, tombs, puts, removes>>

ReceiveDigest(r, m) ==
    /\ AnswerDigest(r, m, DeltasSince(r, m.hwm))
    /\ UNCHANGED <<entries, tombs, puts, removes>>

Lose == (LoseDelta \/ LoseDigest) /\ UNCHANGED <<entries, tombs, puts, removes>>

Next == \/ \E r \in Replicas, k \in Keys : Put(r, k)
        \/ \E r \in Replicas : PutFails(r)
        \/ \E r \in Replicas, k \in Keys : Remove(r, k)
        \/ \E r \in Replicas, m \in wire : ReceiveDelta(r, m)
        \/ \E r \in Replicas : SendDigests(r)
        \/ \E r \in Replicas, m \in digests : ReceiveDigest(r, m)
        \/ Lose

Spec == Init /\ [][Next]_vars

-----------------------------------------------------------------------------
Delta == [op : {"put"}, key : Keys, dot : Dot] \cup
         [op : {"remove"}, key : Keys, dot : Dot, ctx : VClock]

\* The replica core and the data keep their types; pending counters are positive.
TypeOK ==
    /\ local \in [Replicas -> Nat]
    /\ hwm \in [Replicas -> VClock]
    /\ pending \in [Replicas -> [Replicas -> SUBSET (Nat \ {0})]]
    /\ tracked \in [Replicas -> SUBSET Keys]
    /\ known \in [Replicas -> SUBSET Replicas]
    /\ peerHWMs \in [Replicas -> [Replicas -> VClock]]
    /\ wire \subseteq [to : Replicas, via : {"push", "sync"}, delta : Delta]
    /\ digests \subseteq [to : Replicas, from : Replicas, hwm : VClock, empty : BOOLEAN]
    /\ entries \in [Replicas -> [Keys -> Dot \cup {NoDot}]]
    /\ tombs \in [Replicas -> [Keys -> [dot : Dot, ctx : VClock] \cup {NoTomb}]]
    /\ puts \subseteq [key : Keys, dot : Dot]
    /\ removes \subseteq [key : Keys, dot : Dot, seen : [Replicas -> SUBSET Nat]]

Received(r, d) == d.cnt \in Covered(r, d.rep)

\* Remove w of k was issued by a replica that had received put d.
Observed(w, k, d) == w.key = k /\ d.cnt \in w.seen[d.rep]

\* README.md:108: "concurrent puts beat concurrent removes".  The step in which
\* a replica receives a put leaves the key with an entry, and no step takes an
\* entry out, unless some remove of the key had observed that put.
AddWinsStep ==
    \A r \in Replicas, k \in Keys :
        /\ (entries[r][k] # NoDot /\ entries'[r][k] = NoDot)
              => \E w \in removes' : Observed(w, k, entries[r][k])
        /\ \A p \in puts : (p.key = k /\ ~Received(r, p.dot) /\ Received(r, p.dot)')
              => entries'[r][k] # NoDot \/ \E w \in removes : Observed(w, k, p.dot)

\* Answering any digest sends its sender the entry or the tombstone of every
\* key whose dot it has not received.
DigestAnswerComplete ==
    \A m \in digests, k \in Keys :
        LET deltas == DeltasSince(m.to, m.hwm) IN
        /\ (entries[m.to][k] # NoDot /\ ~Received(m.from, entries[m.to][k]))
              => PutDelta(k, entries[m.to][k]) \in deltas /\ ~SameHash(m.to, m)
        /\ (tombs[m.to][k] # NoTomb /\ ~Received(m.from, tombs[m.to][k].dot))
              => RemoveDelta(k, tombs[m.to][k]) \in deltas /\ ~SameHash(m.to, m)
=============================================================================
