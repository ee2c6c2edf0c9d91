-------------------------------- MODULE GList --------------------------------
(***************************************************************************)
(* GList: a replicated append-only list (glist.go, the alwaysMergeClock    *)
(* and the wrapper in node.go).  Items are stored under their dot;         *)
(* the order in which Items sorts them is left out.                        *)
(***************************************************************************)
EXTENDS Replica

CONSTANTS Values,
          MaxOps      \* bound: MaxOps[r] appends of r

VARIABLES items,      \* items[r]: the items in r's backend
          appended    \* history: every item

vars == <<shell, items, appended>>

Item == [val : Values, dot : Dot]

NewItem(v, d) == [val |-> v, dot |-> d]

-----------------------------------------------------------------------------
Init == /\ ShellInit
        /\ items = [r \in Replicas |-> {}]
        /\ appended = {}

\* gListState.Has
Has(r, d) == \E i \in items[r] : i.dot = d

\* GList.Append.  The key in the MerkleMap is the dot.
Append(r, v) ==
    LET i == NewItem(v, NextDot(r)) IN
    /\ local[r] < MaxOps[r]
    /\ StampDot(r)
    /\ items' = [items EXCEPT ![r] = @ \cup {i}]
    /\ TrackKey(r, i.dot, TRUE)
    /\ Propagate(r, i)
    /\ appended' = appended \cup {i}
    /\ UNCHANGED <<known, peerHWMs>>

\* GList.Append when the codec fails: the dot is used up, nothing is sent.
AppendFails(r) ==
    /\ local[r] < MaxOps[r]
    /\ StampDot(r)
    /\ UNCHANGED <<tracked, known, peerHWMs, wire, digests, items, appended>>

\* Seeded fault: an item is taken up only if it is the next one of its author.
ApplyInOrder(r, i) ==
    IF i.dot.cnt = hwm[r][i.dot.rep] + 1 THEN items[r] \cup {i} ELSE items[r]

\* gListState.Apply
Apply(r, i) == IF Has(r, i.dot) THEN items[r] ELSE items[r] \cup {i}

\* applyDelta; alwaysMergeClock allows every delta.
ReceiveDelta(r, m) ==
    /\ m.to = r
    /\ wire' \in Remaining(wire, m)
    /\ items' = [items EXCEPT ![r] = Apply(r, m.delta)]
    /\ RecordDots(r, Singleton(m.delta.dot))
    /\ TrackKey(r, m.delta.dot, Has(r, m.delta.dot)')
    /\ UNCHANGED <<local, known, peerHWMs, digests, appended>>

\* Seeded fault: off by one at the mark.
DeltasSinceNext(r, peerHWM) ==
    {i \in items[r] : i.dot.cnt > peerHWM[i.dot.rep] + 1}

\* gListState.DeltasSince
DeltasSince(r, peerHWM) == {i \in items[r] : i.dot.cnt > peerHWM[i.dot.rep]}

\* sendDigests; the list has no tombstones to collect.
SendDigests(r) ==
    /\ BroadcastDigest(r)
    /\ UNCHANGED <<local, hwm, pending, tracked, known, peerHWMs, wire, items, appended>>

ReceiveDigest(r, m) ==
    /\ AnswerDigest(r, m, DeltasSince(r, m.hwm))
    /\ UNCHANGED <<items, appended>>

Lose == (LoseDelta \/ LoseDigest) /\ UNCHANGED <<items, appended>>

Next == \/ \E r \in Replicas, v \in Values : Append(r, v)
        \/ \E r \in Replicas : AppendFails(r)
        \/ \E r \in Replicas, m \in wire : ReceiveDelta(r, m)
        \/ \E r \in Replicas : SendDigests(r)
        \/ \E r \in Replicas, m \in digests : ReceiveDigest(r, m)
        \/ Lose

Spec == Init /\ [][Next]_vars

-----------------------------------------------------------------------------
\* The replica core and the data keep their types; pending counters are positive
\* (Record ignores counter 0, received.go:30-32).
TypeOK ==
    /\ local \in [Replicas -> Nat]
    /\ hwm \in [Replicas -> VClock]
    /\ pending \in [Replicas -> [Replicas -> SUBSET (Nat \ {0})]]
    /\ tracked \in [Replicas -> SUBSET Dot]
    /\ known \in [Replicas -> SUBSET Replicas]
    /\ peerHWMs \in [Replicas -> [Replicas -> VClock]]
    /\ wire \subseteq [to : Replicas, via : {"push", "sync"}, delta : Item]
    /\ digests \subseteq [to : Replicas, from : Replicas, hwm : VClock, empty : BOOLEAN]
    /\ items \in [Replicas -> SUBSET Item]
    /\ appended \subseteq Item

\* A replica holds exactly the appended items whose dots it has recorded, in
\* whatever order and however often they came: the marks it reports are
\* neither ahead of its list, so that peers would withhold an item it lacks,
\* nor does the list hold an item twice or one that nobody appended.
HoldsWhatItRecorded ==
    \A r \in Replicas :
        items[r] = {i \in appended : i.dot.cnt \in Covered(r, i.dot.rep)}

\* Answering any digest, however stale, sends its sender every item that it
\* still lacks: neither the hashes nor the contiguous marks hide one.
DigestAnswerComplete ==
    \A m \in digests : \A i \in items[m.to] \ items[m.from] :
        ~SameHash(m.to, m) /\ i \in DeltasSince(m.to, m.hwm)
=============================================================================
