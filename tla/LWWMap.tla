------------------------------- MODULE LWWMap -------------------------------
(***************************************************************************)
(* LWWMap: a replicated last-writer-wins map (lwwmap.go, clock_lww.go and  *)
(* the wrapper in node.go).  Each key has an entry or a tombstone, stamped *)
(* with the dot of the write; a remote write is applied when its dot is    *)
(* greater.  The local clock only counts local writes, so a local write    *)
(* may replace one with a greater dot.                                     *)
(***************************************************************************)
EXTENDS Replica

CONSTANTS Keys, Values,
          NoValue,    \* the value field of a remove
          Writers,    \* Writers[k]: the replicas whose application writes k
          MaxOps      \* bound: MaxOps[r] local writes of r

ASSUME LWWMapAssumption ==
    /\ NoValue \notin Values
    /\ Writers \in [Keys -> SUBSET Replicas]
    /\ MaxOps \in [Replicas -> Nat]

VARIABLES entries,    \* entries[r][k]: value and dot; the dot is NoDot if absent
          tombs,      \* tombs[r][k]: the dot of the remove, or NoDot
          written     \* history: every delta written so far

vars == <<shell, entries, tombs, written>>

NoEntry == [val |-> NoValue, dot |-> NoDot]

Delta == [op : {"put"}, key : Keys, val : Values, dot : Dot] \cup
         [op : {"remove"}, key : Keys, val : {NoValue}, dot : Dot]

PutDelta(k, v, d) == [op |-> "put", key |-> k, val |-> v, dot |-> d]

RemoveDelta(k, d) == [op |-> "remove", key |-> k, val |-> NoValue, dot |-> d]

-----------------------------------------------------------------------------
Init == /\ ShellInit
        /\ entries = [r \in Replicas |-> [k \in Keys |-> NoEntry]]
        /\ tombs = [r \in Replicas |-> [k \in Keys |-> NoDot]]
        /\ written = {}

\* lwwMapState.Put, PutBytes and Remove: the entry replaces the tombstone,
\* the tombstone replaces the entry.
Store(r, d) ==
    IF d.op = "put"
    THEN /\ entries' = [entries EXCEPT ![r][d.key] = [val |-> d.val, dot |-> d.dot]]
         /\ tombs' = [tombs EXCEPT ![r][d.key] = NoDot]
    ELSE /\ entries' = [entries EXCEPT ![r][d.key] = NoEntry]
         /\ tombs' = [tombs EXCEPT ![r][d.key] = d.dot]

\* EntryMeta or TombstoneMeta finds something under the key.
Present(r, k) == entries[r][k] # NoEntry \/ tombs[r][k] # NoDot

LocalWrite(r, d) ==
    /\ r \in Writers[d.key]
    /\ local[r] < MaxOps[r]
    /\ StampDot(r)
    /\ Store(r, d)
    /\ TrackKey(r, d.key, Present(r, d.key)')
    /\ Propagate(r, d)
    /\ written' = written \cup {d}
    /\ UNCHANGED <<known, peerHWMs>>

\* LWWMap.Put
Put(r, k, v) == LocalWrite(r, PutDelta(k, v, NextDot(r)))

\* LWWMap.Put when the codec fails: the dot is used up and nothing is sent.
PutFails(r, k) ==
    /\ r \in Writers[k]
    /\ local[r] < MaxOps[r]
    /\ StampDot(r)
    /\ UNCHANGED <<tracked, known, peerHWMs, wire, digests, entries, tombs, written>>

\* LWWMap.Remove
Remove(r, k) == LocalWrite(r, RemoveDelta(k, NextDot(r)))

\* Seeded fault: a write that arrives late overwrites a newer one.
AllowsAll(r, d) == TRUE

\* Seeded fault: the comparison of dots is the wrong way round.
AllowsOlder(r, d) ==
    /\ entries[r][d.key] # NoEntry => DotGT(entries[r][d.key].dot, d.dot)
    /\ tombs[r][d.key] # NoDot => DotGT(tombs[r][d.key], d.dot)

\* lwwClock.Allows
Allows(r, d) ==
    /\ entries[r][d.key] # NoEntry => DotGT(d.dot, entries[r][d.key].dot)
    /\ tombs[r][d.key] # NoDot => DotGT(d.dot, tombs[r][d.key])

\* applyDelta: the dot is recorded whether or not the delta is applied.
ReceiveDelta(r, m) ==
    LET d == m.delta IN
    /\ m.to = r
    /\ wire' \in Remaining(wire, m)
    /\ IF Allows(r, d) THEN Store(r, d) ELSE UNCHANGED <<entries, tombs>>
    /\ RecordDots(r, Singleton(d.dot))
    /\ TrackKey(r, d.key, Present(r, d.key)')
    /\ UNCHANGED <<local, known, peerHWMs, digests, written>>

\* Seeded fault: removes are not sent again.
EntriesSince(r, peerHWM) ==
    {PutDelta(k, entries[r][k].val, entries[r][k].dot) : k \in
        {k \in Keys : /\ entries[r][k] # NoEntry
                      /\ entries[r][k].dot.cnt > peerHWM[entries[r][k].dot.rep]}}

\* lwwMapState.DeltasSince
DeltasSince(r, peerHWM) ==
    {PutDelta(k, entries[r][k].val, entries[r][k].dot) : k \in
        {k \in Keys : /\ entries[r][k] # NoEntry
                      /\ entries[r][k].dot.cnt > peerHWM[entries[r][k].dot.rep]}}
    \cup
    {RemoveDelta(k, tombs[r][k]) : k \in
        {k \in Keys : /\ tombs[r][k] # NoDot
                      /\ tombs[r][k].cnt > peerHWM[tombs[r][k].rep]}}

\* sendDigests; the map does not collect its tombstones.
SendDigests(r) ==
    /\ BroadcastDigest(r)
    /\ UNCHANGED <<local, hwm, pending, tracked, known, peerHWMs, wire>>
    /\ UNCHANGED <<entries, tombs, written>>

ReceiveDigest(r, m) ==
    /\ AnswerDigest(r, m, DeltasSince(r, m.hwm))
    /\ UNCHANGED <<entries, tombs, written>>

Lose == (LoseDelta \/ LoseDigest) /\ UNCHANGED <<entries, tombs, written>>

Next == \/ \E r \in Replicas, k \in Keys, v \in Values : Put(r, k, v)
        \/ \E r \in Replicas, k \in Keys : PutFails(r, k)
        \/ \E r \in Replicas, k \in Keys : Remove(r, k)
        \/ \E r \in Replicas, m \in wire : ReceiveDelta(r, m)
        \/ \E r \in Replicas : SendDigests(r)
        \/ \E r \in Replicas, m \in digests : ReceiveDigest(r, m)
        \/ Lose

Spec == Init /\ [][Next]_vars

\* The ticker fires again and again; a transport may lose messages but not
\* every one of those that it is given over and over.
Fairness ==
    \A r \in Replicas :
        /\ WF_vars(SendDigests(r))
        /\ \A k \in Keys :
             SF_vars(\E m \in wire :
               m.delta.key = k /\ ReceiveDelta(r, m) /\ wire' # wire)
        /\ \A s \in Peers(r) :
             SF_vars(\E m \in digests :
               m.from = s /\ ReceiveDigest(r, m) /\ digests' # digests)

FairSpec == Spec /\ Fairness

-----------------------------------------------------------------------------
\* The replica core and the data keep their types; pending counters are positive
\* (Record ignores counter 0, received.go:30-32).
TypeOK ==
    /\ local \in [Replicas -> Nat]
    /\ hwm \in [Replicas -> VClock]
    /\ pending \in [Replicas -> [Replicas -> SUBSET (Nat \ {0})]]
    /\ tracked \in [Replicas -> SUBSET Keys]
    /\ known \in [Replicas -> SUBSET Replicas]
    /\ peerHWMs \in [Replicas -> [Replicas -> VClock]]
    /\ wire \subseteq [to : Replicas, via : {"push", "sync"}, delta : Delta]
    /\ digests \subseteq [to : Replicas, from : Replicas, hwm : VClock, empty : BOOLEAN]
    /\ entries \in [Replicas -> [Keys -> [val : Values, dot : Dot] \cup {NoEntry}]]
    /\ tombs \in [Replicas -> [Keys -> Dot \cup {NoDot}]]
    /\ written \subseteq Delta

\* The dot of what r holds for k.
Held(r, k) == IF entries[r][k] # NoEntry THEN entries[r][k].dot ELSE tombs[r][k]

\* A replica that has recorded a write to a key holds that write or a greater
\* one: a mark sent to peers never covers a write that the sender has not
\* taken into account.  For keys with one writer.
RecordedIsReflected ==
    \A r \in Replicas : \A w \in written :
        w.dot.cnt \in Covered(r, w.dot.rep) =>
            Held(r, w.key) = w.dot \/ DotGT(Held(r, w.key), w.dot)

AllRecorded ==
    \A r \in Replicas : \A w \in written : w.dot.cnt \in Covered(r, w.dot.rep)

\* Get and Range answer the same everywhere.
Agree == \A r, s \in Replicas : entries[r] = entries[s]

\* dot.go:17-20: tie-breaking "ensures all replicas converge to the same
\* winner".  Once every replica has received every write, they agree.
AgreeOnceReceived == AllRecorded => Agree

\* README.md:213: anti-entropy handles lost messages; once the writes stop,
\* all replicas come to agree and stay so.
EventuallyAgree == <>[]Agree
=============================================================================
