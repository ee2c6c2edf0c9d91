-------------------------------- MODULE ORMap --------------------------------
(***************************************************************************)
(* ORMap: a replicated observed-remove map (ormap.go, the alwaysMergeClock *)
(* and the wrapper in node.go).  The backend, the messages and the history *)
(* are those of ORSet, which this module extends, with the value of each   *)
(* key and of each put delta added; what ormap.go does to them is written  *)
(* out here.  A value is named by the dot of the put that wrote it.        *)
(***************************************************************************)
EXTENDS ORSet

\* A cluster and the keys in use are finite; the bound is a number.
ASSUME ORMapAssumption == IsFiniteSet(Replicas) /\ IsFiniteSet(Elems) /\ MaxWire \in Nat

VARIABLE vals         \* vals[r][k]: the put whose value r shows for k, or NoDot

mapVars == <<vars, vals>>

\* orMapState.Put and DeltasSince: the put deltas.
PutDelta(k, dots, v) == [op |-> "add", elem |-> k, dots |-> dots, val |-> v]

-----------------------------------------------------------------------------
MapInit == Init /\ vals = [r \in Replicas |-> [k \in Elems |-> NoDot]]

\* ORMap.Put: the new value replaces the old one whatever the other dots of
\* the key are; the tombstone stays and the delta carries the new dot alone.
Put(r, k) ==
    /\ local[r] < MaxOps[r]
    /\ StampDot(r)
    /\ entries' = [entries EXCEPT ![r][k][r] = NextDot(r).cnt]
    /\ vals' = [vals EXCEPT ![r][k] = NextDot(r)]
    /\ UNCHANGED tombs
    /\ TrackKey(r, k, Present(r, k)')
    /\ Propagate(r, PutDelta(k, Singleton(NextDot(r)), NextDot(r)))
    /\ adds' = adds \cup {[elem |-> k, dot |-> NextDot(r)]}
    /\ UNCHANGED <<known, peerHWMs, removes>>

\* ORMap.Put when the codec fails.
PutFails(r) == OpFails(r) /\ UNCHANGED vals

\* ORMap.Remove: the entry goes, the tombstone replaces an earlier one.
RemoveKey(r, k) ==
    /\ local[r] < MaxOps[r]
    /\ StampDot(r)
    /\ entries' = [entries EXCEPT ![r][k] = EmptyClock]
    /\ vals' = [vals EXCEPT ![r][k] = NoDot]
    /\ tombs' = [tombs EXCEPT ![r][k] = [dot |-> NextDot(r), ctx |-> hwm'[r]]]
    /\ TrackKey(r, k, Present(r, k)')
    /\ Propagate(r, RemoveDelta(k, NextDot(r), hwm'[r]))
    /\ removes' = removes \cup {RemoveOf(r, k)}
    /\ UNCHANGED <<known, peerHWMs, adds>>

\* MaxDot: the greatest dot of a dot map, NoDot if it is empty.
MaxDot(dots) ==
    CHOOSE d \in {DotOf(s, dots[s]) : s \in {s \in Replicas : dots[s] > 0}} \cup {NoDot} :
        \A s \in Replicas : (dots[s] > 0 /\ DotOf(s, dots[s]) # d) => DotGT(d, DotOf(s, dots[s]))

\* orMapState.applyPut: if the key is there, the dots of both sides with the
\* value of the side whose greatest dot is greater.
Merged(r, d) ==
    LET here == entries[r][d.elem]
    IN  IF here = EmptyClock
        THEN [dots |-> d.dots, val |-> d.val]
        ELSE [dots |-> CombineDots(here, d.dots),
              val  |-> IF DotGT(MaxDot(d.dots), MaxDot(here)) THEN d.val ELSE vals[r][d.elem]]

\* Seeded fault: the tombstone is not consulted.
UnprunedByTomb(r, k, dots) == dots

\* orMapState.applyPut: dots that the tombstone's context covers go.
PrunedByTomb(r, k, dots) ==
    IF tombs[r][k] = NoTomb THEN dots ELSE Surviving(dots, tombs[r][k].ctx)

\* Seeded fault: an entry is written also when no dot is left.
ApplyPutAlways(r, d) ==
    LET left == PrunedByTomb(r, d.elem, Merged(r, d).dots)
    IN  /\ entries' = [entries EXCEPT ![r][d.elem] = left]
        /\ vals' = [vals EXCEPT ![r][d.elem] = Merged(r, d).val]
        /\ UNCHANGED tombs

\* orMapState.applyPut: the entry is written if a dot is left.
ApplyPut(r, d) ==
    LET left == PrunedByTomb(r, d.elem, Merged(r, d).dots)
    IN  /\ IF left = EmptyClock
           THEN UNCHANGED <<entries, vals>>
           ELSE /\ entries' = [entries EXCEPT ![r][d.elem] = left]
                /\ vals' = [vals EXCEPT ![r][d.elem] = Merged(r, d).val]
        /\ UNCHANGED tombs

\* orMapState.applyRemove: the tombstone takes the greater dot and the
\* context of the delta, and the entry goes with its last dot.
ApplyRemove(r, d) ==
    LET old  == tombs[r][d.elem]
        left == Surviving(entries[r][d.elem], d.ctx)
    IN  /\ tombs' = [tombs EXCEPT ![r][d.elem] =
                        [dot |-> IF old = NoTomb \/ DotGT(d.dot, old.dot) THEN d.dot ELSE old.dot,
                         ctx |-> d.ctx]]
        /\ entries' = [entries EXCEPT ![r][d.elem] = left]
        /\ vals' = [vals EXCEPT ![r][d.elem] = IF left = EmptyClock THEN NoDot ELSE @]

\* applyDelta with orMapState.ParseDelta and Apply.
ReceiveMapDelta(r, m) ==
    LET d == m.delta IN
    /\ m.to = r
    /\ wire' \in Remaining(wire, m)
    /\ \/ d.op = "add" /\ ApplyPut(r, d) /\ RecordDots(r, d.dots)
       \/ d.op = "remove" /\ ApplyRemove(r, d) /\ RecordDots(r, Singleton(d.dot))
    /\ TrackKey(r, d.elem, Present(r, d.elem)')
    /\ UNCHANGED <<local, known, peerHWMs, digests, adds, removes>>

\* orMapState.DeltasSince: a key with any dot above the marks is sent with
\* all its dots and its value.
MapDeltasSince(r, peerHWM) ==
    {PutDelta(k, entries[r][k], vals[r][k]) : k \in
        {k \in Elems : \E s \in Replicas : entries[r][k][s] > peerHWM[s]}}
    \cup
    {RemoveDelta(k, tombs[r][k].dot, tombs[r][k].ctx) : k \in
        {k \in Elems : /\ tombs[r][k] # NoTomb
                       /\ tombs[r][k].dot.cnt > peerHWM[tombs[r][k].dot.rep]}}

\* orMapState.GCTombstones: tombstones below the marks of all known peers go.
CollectTombstones(r) ==
    tombs' = [tombs EXCEPT ![r] = [k \in Elems |->
                IF tombs[r][k] # NoTomb /\ tombs[r][k].dot.cnt <= MinHWM(r)[tombs[r][k].dot.rep]
                THEN NoTomb ELSE tombs[r][k]]]

\* sendDigests: nothing is collected before some peer has sent a digest.
SendMapDigests(r) ==
    /\ IF known[r] = {} THEN UNCHANGED tombs ELSE CollectTombstones(r)
    /\ BroadcastDigest(r)
    /\ UNCHANGED <<local, hwm, pending, tracked, known, peerHWMs, wire>>
    /\ UNCHANGED <<entries, adds, removes, vals>>

ReceiveMapDigest(r, m) ==
    /\ AnswerDigest(r, m, MapDeltasSince(r, m.hwm))
    /\ UNCHANGED <<entries, tombs, adds, removes, vals>>

LoseMapMessage == Lose /\ UNCHANGED vals

MapNext == \/ \E r \in Replicas, k \in Elems : Put(r, k)
           \/ \E r \in Replicas, k \in Elems : RemoveKey(r, k)
           \/ \E r \in Replicas : PutFails(r)
           \/ \E r \in Replicas, m \in wire : ReceiveMapDelta(r, m)
           \/ \E r \in Replicas : SendMapDigests(r)
           \/ \E r \in Replicas, m \in digests : ReceiveMapDigest(r, m)
           \/ LoseMapMessage

MapSpec == MapInit /\ [][MapNext]_mapVars

-----------------------------------------------------------------------------
\* The value field of a put is a dot; apart from it the deltas are ORSet's.
MapDelta == [op : {"add"}, elem : Elems, dots : VClock, val : Dot] \cup
            [op : {"remove"}, elem : Elems, dot : Dot, ctx : VClock]

\* The values and the deltas keep their types; pending counters are positive.
MapTypeOK ==
    /\ vals \in [Replicas -> [Elems -> Dot \cup {NoDot}]]
    /\ wire \subseteq [to : Replicas, via : {"push", "sync"}, delta : MapDelta]
    /\ \A r \in Replicas, s \in Replicas : pending[r][s] \subseteq Nat \ {0}

\* A key shows a value exactly while it has a dot.  The value is that of a put
\* to this very key, and the put is covered by the dots held for its writer or
\* was taken out by a remove that had observed it: applyPut, applyRemove and
\* DeltasSince, which pass values on beside the dots of other puts, never mix
\* in another key's value or lose the dot of a value nobody removed.
ValueBacked ==
    \A r \in Replicas, k \in Elems :
        LET v == vals[r][k] IN
        /\ v = NoDot <=> entries[r][k] = EmptyClock
        /\ v # NoDot =>
               /\ [elem |-> k, dot |-> v] \in adds
               /\ \/ v.cnt <= entries[r][k][v.rep]
                  \/ \E w \in removes : w.elem = k /\ v.cnt \in w.seen[v.rep]

\* The map without its values.  Deltas that differ in their values only are
\* one delta of the set, so that set sees some of its deltas twice.
WithoutValue(d) == IF d.op = "add" THEN AddDelta(d.elem, d.dots) ELSE d

Dots == INSTANCE ORSet WITH
            wire <- {[m EXCEPT !.delta = WithoutValue(@)] : m \in wire},
            Faults <- Faults \cup {"duplicate"}

\* ormap.go has a version of its own of what orset.go does with dots, with the
\* values merged in between: apart from the values the two merge, prune, answer
\* and collect alike, over a transport that may also repeat deltas, so that the
\* properties of such a set are the map's.
ImplementsORSet == Dots!Spec
=============================================================================
