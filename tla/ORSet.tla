-------------------------------- MODULE ORSet --------------------------------
(***************************************************************************)
(* ORSet: a replicated observed-remove set (orset.go, the alwaysMergeClock *)
(* and the wrapper in node.go).  An element is present while it has a dot  *)
(* that no remove has taken out; a remove carries the remover's high-water *)
(* marks as its context and leaves a tombstone, which is collected once    *)
(* every peer that has reported its marks has received the remove.         *)
(***************************************************************************)
EXTENDS Replica

CONSTANTS Elems,
          MaxOps      \* bound: MaxOps[r] local operations of r

ASSUME ORSetAssumption == MaxOps \in [Replicas -> Nat]

VARIABLES entries,    \* entries[r][e]: the dot map of e; empty if e is absent
          tombs,      \* tombs[r][e]: dot and context of a remove, or NoTomb
          adds,       \* history: every add, with its dot
          removes     \* history: every remove, with its dot, its context and
                      \* what the remover had received

vars == <<shell, entries, tombs, adds, removes>>

NoTomb == [dot |-> NoDot, ctx |-> EmptyClock]

AddDelta(e, dots) == [op |-> "add", elem |-> e, dots |-> dots]

RemoveDelta(e, d, ctx) == [op |-> "remove", elem |-> e, dot |-> d, ctx |-> ctx]

-----------------------------------------------------------------------------
Init == /\ ShellInit
        /\ entries = [r \in Replicas |-> [e \in Elems |-> EmptyClock]]
        /\ tombs = [r \in Replicas |-> [e \in Elems |-> NoTomb]]
        /\ adds = {}
        /\ removes = {}

\* EntryMeta or TombstoneMeta finds something under the element.
Present(r, e) == entries[r][e] # EmptyClock \/ tombs[r][e] # NoTomb

\* orSetState.Add: the new dot joins the element's dots; an existing
\* tombstone stays.
AddElem(r, e) == /\ entries' = [entries EXCEPT ![r][e][r] = NextDot(r).cnt]
                 /\ UNCHANGED tombs

\* orSetState.Remove: the tombstone, whose context is the marks after the
\* remove's own dot has been stamped, replaces an earlier one.
RemoveElem(r, e) ==
    /\ entries' = [entries EXCEPT ![r][e] = EmptyClock]
    /\ tombs' = [tombs EXCEPT ![r][e] = [dot |-> NextDot(r), ctx |-> hwm'[r]]]

\* What the history keeps of a remove of e by r.
RemoveOf(r, e) == [elem |-> e, dot |-> NextDot(r), ctx |-> hwm'[r],
                   seen |-> [s \in Replicas |-> Covered(r, s)]]

\* ORSet.Add: the delta carries the new dot alone.
Add(r, e) ==
    /\ local[r] < MaxOps[r]
    /\ StampDot(r)
    /\ AddElem(r, e)
    /\ TrackKey(r, e, Present(r, e)')
    /\ Propagate(r, AddDelta(e, Singleton(NextDot(r))))
    /\ adds' = adds \cup {[elem |-> e, dot |-> NextDot(r)]}
    /\ UNCHANGED <<known, peerHWMs, removes>>

\* ORSet.Remove
Remove(r, e) ==
    /\ local[r] < MaxOps[r]
    /\ StampDot(r)
    /\ RemoveElem(r, e)
    /\ TrackKey(r, e, Present(r, e)')
    /\ Propagate(r, RemoveDelta(e, NextDot(r), hwm'[r]))
    /\ removes' = removes \cup {RemoveOf(r, e)}
    /\ UNCHANGED <<known, peerHWMs, adds>>

\* Add or Remove when the codec fails: the dot is used up, nothing is sent.
OpFails(r) ==
    /\ local[r] < MaxOps[r]
    /\ StampDot(r)
    /\ UNCHANGED <<tracked, known, peerHWMs, wire, digests, entries, tombs, adds, removes>>

\* orSetState.applyAdd: the dots are combined with the local ones and pruned
\* against the tombstone; if none is left the entry stays as it is.
AfterAdd(r, d) ==
    LET both == CombineDots(entries[r][d.elem], d.dots)
        left == Surviving(both, tombs[r][d.elem].ctx)
    IN  IF left # EmptyClock THEN left ELSE entries[r][d.elem]

\* orSetState.applyRemove: the tombstone keeps the greater dot and the
\* context of the delta at hand.
TombAfterRemove(r, d) ==
    LET old == tombs[r][d.elem]
    IN  [dot |-> IF old # NoTomb /\ ~DotGT(d.dot, old.dot) THEN old.dot ELSE d.dot,
         ctx |-> d.ctx]

\* Seeded fault: a remove takes the element out with all its dots.
ApplyWhole(r, d) ==
    IF d.op = "add"
    THEN /\ entries' = [entries EXCEPT ![r][d.elem] = AfterAdd(r, d)]
         /\ UNCHANGED tombs
    ELSE /\ entries' = [entries EXCEPT ![r][d.elem] = EmptyClock]
         /\ tombs' = [tombs EXCEPT ![r][d.elem] = TombAfterRemove(r, d)]

Apply(r, d) ==
    IF d.op = "add"
    THEN /\ entries' = [entries EXCEPT ![r][d.elem] = AfterAdd(r, d)]
         /\ UNCHANGED tombs
    ELSE /\ entries' = [entries EXCEPT ![r][d.elem] = Surviving(@, d.ctx)]
         /\ tombs' = [tombs EXCEPT ![r][d.elem] = TombAfterRemove(r, d)]

\* Seeded fault: the dots of an add are not reported to the replica.
DotsOfRemove(d) == IF d.op = "add" THEN EmptyClock ELSE Singleton(d.dot)

\* orSetState.ParseDelta: the dots that applyDelta records.
DotsOf(d) == IF d.op = "add" THEN d.dots ELSE Singleton(d.dot)

\* applyDelta; alwaysMergeClock allows every delta.
ReceiveDelta(r, m) ==
    LET d == m.delta IN
    /\ m.to = r
    /\ wire' \in Remaining(wire, m)
    /\ Apply(r, d)
    /\ RecordDots(r, DotsOf(d))
    /\ TrackKey(r, d.elem, Present(r, d.elem)')
    /\ UNCHANGED <<local, known, peerHWMs, digests, adds, removes>>

\* Seeded fault: tombstones are not sent again.
EntriesSince(r, peerHWM) ==
    {AddDelta(e, entries[r][e]) : e \in
        {e \in Elems : \E s \in Replicas : entries[r][e][s] > peerHWM[s]}}

\* orSetState.DeltasSince: an element with any dot above the marks is sent
\* with all its dots.
DeltasSince(r, peerHWM) ==
    {AddDelta(e, entries[r][e]) : e \in
        {e \in Elems : \E s \in Replicas : entries[r][e][s] > peerHWM[s]}}
    \cup
    {RemoveDelta(e, tombs[r][e].dot, tombs[r][e].ctx) : e \in
        {e \in Elems : /\ tombs[r][e] # NoTomb
                       /\ tombs[r][e].dot.cnt > peerHWM[tombs[r][e].dot.rep]}}

\* Seeded fault: the peers' marks are not consulted.
CollectableAlone(r, e) ==
    /\ known[r] # {}
    /\ tombs[r][e] # NoTomb
    /\ tombs[r][e].dot.cnt <= hwm[r][tombs[r][e].dot.rep]

\* orSetState.GCTombstones; sendDigests calls it if some peer has reported.
Collectable(r, e) ==
    /\ known[r] # {}
    /\ tombs[r][e] # NoTomb
    /\ tombs[r][e].dot.cnt <= MinHWM(r)[tombs[r][e].dot.rep]

GCTombstones(r) ==
    tombs' = [tombs EXCEPT ![r] = [e \in Elems |->
                IF Collectable(r, e) THEN NoTomb ELSE tombs[r][e]]]

\* sendDigests
SendDigests(r) ==
    /\ GCTombstones(r)
    /\ BroadcastDigest(r)
    /\ UNCHANGED <<local, hwm, pending, tracked, known, peerHWMs, wire>>
    /\ UNCHANGED <<entries, adds, removes>>

ReceiveDigest(r, m) ==
    /\ AnswerDigest(r, m, DeltasSince(r, m.hwm))
    /\ UNCHANGED <<entries, tombs, adds, removes>>

Lose == (LoseDelta \/ LoseDigest) /\ UNCHANGED <<entries, tombs, adds, removes>>

Next == \/ \E r \in Replicas, e \in Elems : Add(r, e)
        \/ \E r \in Replicas, e \in Elems : Remove(r, e)
        \/ \E r \in Replicas : OpFails(r)
        \/ \E r \in Replicas, m \in wire : ReceiveDelta(r, m)
        \/ \E r \in Replicas : SendDigests(r)
        \/ \E r \in Replicas, m \in digests : ReceiveDigest(r, m)
        \/ Lose

Spec == Init /\ [][Next]_vars

-----------------------------------------------------------------------------
Delta == [op : {"add"}, elem : Elems, dots : VClock] \cup
         [op : {"remove"}, elem : Elems, dot : Dot, ctx : VClock]

\* The replica core and the data keep their types; pending counters are positive
\* (Record ignores counter 0, received.go:30-32).
TypeOK ==
    /\ local \in [Replicas -> Nat]
    /\ hwm \in [Replicas -> VClock]
    /\ pending \in [Replicas -> [Replicas -> SUBSET (Nat \ {0})]]
    /\ tracked \in [Replicas -> SUBSET Elems]
    /\ known \in [Replicas -> SUBSET Replicas]
    /\ peerHWMs \in [Replicas -> [Replicas -> VClock]]
    /\ wire \subseteq [to : Replicas, via : {"push", "sync"}, delta : Delta]
    /\ digests \subseteq [to : Replicas, from : Replicas, hwm : VClock, empty : BOOLEAN]
    /\ entries \in [Replicas -> [Elems -> VClock]]
    /\ tombs \in [Replicas -> [Elems -> [dot : Dot, ctx : VClock] \cup {NoTomb}]]
    /\ adds \subseteq [elem : Elems, dot : Dot]
    /\ removes \subseteq [elem : Elems, dot : Dot, ctx : VClock,
                          seen : [Replicas -> SUBSET Nat]]

\* r has processed a delta that carried dot d.
Received(r, d) == d.cnt \in Covered(r, d.rep)

\* Every dot that keeps an element alive is the dot of an add of that very
\* element, and the replica has recorded it as received: the data never runs
\* ahead of the received clock, so no remove context can miss a dot below
\* the remover's marks.
HeldDotsReceived ==
    \A r, s \in Replicas, e \in Elems :
        entries[r][e][s] > 0 =>
            /\ Received(r, DotOf(s, entries[r][e][s]))
            /\ [elem |-> e, dot |-> DotOf(s, entries[r][e][s])] \in adds

\* The promise of an observed-remove set: an add that a replica has received
\* is still there unless some remove of the element was issued by a replica
\* that had received that add.  No concurrent remove, late or repeated delta,
\* tombstone or compressed dot map ever takes an unobserved add out.
OnlyObservedAddsRemoved ==
    \A r \in Replicas : \A a \in adds :
        Received(r, a.dot) =>
            \/ entries[r][a.elem][a.dot.rep] >= a.dot.cnt
            \/ \E w \in removes : w.elem = a.elem /\ a.dot.cnt \in w.seen[a.dot.rep]

\* r holds an add a although it has received a remove w.
Survived(r, a, w) == /\ a.elem = w.elem
                     /\ Received(r, w.dot)
                     /\ entries[r][a.elem][a.dot.rep] = a.dot.cnt

\* orset.go:317: "Store/merge tombstone."  Once a remove has been received, no
\* delta brings back a dot that its context dominates.
RemovedStaysRemoved ==
    \A r \in Replicas, a \in adds, w \in removes :
        Survived(r, a, w) => a.dot.cnt > w.ctx[a.dot.rep]

\* Answering any digest, however stale, sends its sender every dot and every
\* tombstone that it has not received: the comparison with contiguous marks
\* errs only towards sending too much.
DigestAnswerComplete ==
    \A m \in digests, e \in Elems :
        LET deltas == DeltasSince(m.to, m.hwm) IN
        /\ \A s \in Replicas :
             (entries[m.to][e][s] > 0 /\ ~Received(m.from, DotOf(s, entries[m.to][e][s])))
               => AddDelta(e, entries[m.to][e]) \in deltas /\ ~SameHash(m.to, m)
        /\ (tombs[m.to][e] # NoTomb /\ ~Received(m.from, tombs[m.to][e].dot))
               => /\ RemoveDelta(e, tombs[m.to][e].dot, tombs[m.to][e].ctx) \in deltas
                  /\ ~SameHash(m.to, m)

Collected(r, e) == tombs[r][e] # NoTomb /\ tombs'[r][e] = NoTomb

\* A tombstone is dropped only after every peer that has ever sent a digest
\* has received its remove, although the marks compared are stale ones.
CollectedOnlyIfReceived ==
    [][\A r \in Replicas, e \in Elems : Collected(r, e) =>
          \A p \in known[r] : Received(p, tombs[r][e].dot)]_vars
=============================================================================
