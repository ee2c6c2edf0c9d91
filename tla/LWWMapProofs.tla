---------------------------- MODULE LWWMapProofs -----------------------------
(***************************************************************************)
(* Safety of LWWMap, and of its version over a backend on disk, for every  *)
(* set of replicas, keys and values, every transport fault and every       *)
(* bound, when each key has one writer and the process of a writer does    *)
(* not stop.  Neither can be left out: two writers stamp dots that do not  *)
(* follow the order in which they saw each other's writes, and a writer    *)
(* that starts again stamps its old dots again.                            *)
(***************************************************************************)
EXTENDS DurableLWWMap, ReplicaProofs

\* Each key has one writer, whose process does not stop.
SteadyWriters ==
    \A k \in Keys : /\ \A r, s \in Writers[k] : r = s
                    /\ Writers[k] \cap Restarters = {}

LType == /\ tracked \in [Replicas -> SUBSET Keys]
         /\ wire \subseteq [to : Replicas, via : {"push", "sync"}, delta : Delta]
         /\ entries \in [Replicas -> [Keys -> [val : Values, dot : Dot] \cup {NoEntry}]]
         /\ tombs \in [Replicas -> [Keys -> Dot \cup {NoDot}]]
         /\ written \subseteq Delta

\* A write has a dot that the writer of its key has stamped, and no other
\* write has it.
WrittenSound == \A w \in written : /\ w.dot.cnt \in 1..local[w.dot.rep]
                                   /\ w.dot.rep \in Writers[w.key]

WrittenDiffer == \A v, w \in written : v.dot = w.dot => v = w

WrittenSent == \A m \in wire : m.delta \in written

EntryWritten(r, k) ==
    entries[r][k] # NoEntry => PutDelta(k, entries[r][k].val, entries[r][k].dot) \in written

TombWritten(r, k) == tombs[r][k] # NoDot => RemoveDelta(k, tombs[r][k]) \in written

\* An entry beside a tombstone, which a crash may leave, is the newer one.
EntryNewer(r, k) ==
    (entries[r][k] # NoEntry /\ tombs[r][k] # NoDot) => DotGT(entries[r][k].dot, tombs[r][k])

StoreSound == \A r \in Replicas, k \in Keys :
                 EntryWritten(r, k) /\ TombWritten(r, k) /\ EntryNewer(r, k)

\* A process that may stop has stamped nothing.
RestartersSilent == \A r \in Restarters : local[r] = 0

LInv == /\ ClockInv
        /\ LType
        /\ WrittenSound
        /\ WrittenDiffer
        /\ WrittenSent
        /\ StoreSound
        /\ RestartersSilent
        /\ RecordedIsReflected

-----------------------------------------------------------------------------
\* Among dots of one writer the greater is the one with the greater counter,
\* and every dot is greater than none.
LEMMA DotOrder ==
  ASSUME NEW h, NEW w \in Dot, w.cnt >= 1, h = NoDot \/ (h \in Dot /\ h.rep = w.rep)
  PROVE  /\ h.cnt \in Nat
         /\ (h = w \/ DotGT(h, w)) <=> h.cnt >= w.cnt
         /\ DotGT(w, h) <=> w.cnt > h.cnt
<1>1. CASE h = NoDot
  BY <1>1 DEF NoDot, Dot, DotGT
<1>2. CASE h \in Dot /\ h.rep = w.rep
  <2>1. h.cnt \in Nat /\ w.cnt \in Nat /\ h.rep \in Nat
    BY <1>2, ReplicasAssumption DEF Dot
  <2>2. h.cnt = w.cnt => h = w
    BY <1>2 DEF Dot
  <2>. QED BY <1>2, <2>1, <2>2 DEF DotGT
<1>. QED BY <1>1, <1>2

\* The writes to one key come from one replica, with counters from 1.
LEMMA OneWriter ==
  ASSUME SteadyWriters, LType, WrittenSound
  PROVE  /\ \A w \in written : /\ w \in Delta /\ w.key \in Keys /\ w.dot \in Dot
                               /\ w.dot.rep \in Replicas /\ w.dot.cnt >= 1
         /\ \A v, w \in written : v.key = w.key => v.dot.rep = w.dot.rep
<1>1. ASSUME NEW w \in written
      PROVE  /\ w \in Delta /\ w.key \in Keys /\ w.dot \in Dot
             /\ w.dot.rep \in Replicas /\ w.dot.cnt >= 1
  <2>1. w \in Delta /\ w.dot.cnt \in 1..local[w.dot.rep]
    BY <1>1 DEF LType, WrittenSound
  <2>. QED BY <2>1 DEF Delta, Dot
<1>. QED BY <1>1 DEF SteadyWriters, WrittenSound

\* What a replica holds for a key is nothing or a write to it, and of an entry
\* and a tombstone it is the one that no other is newer than.
LEMMA HeldIsWritten ==
  ASSUME SteadyWriters, LType, WrittenSound, StoreSound, NEW r \in Replicas, NEW k \in Keys
  PROVE  /\ Held(r, k) = NoDot \/ \E w \in written : w.key = k /\ w.dot = Held(r, k)
         /\ entries[r][k] # NoEntry => \E w \in written : w.key = k /\ w.dot = entries[r][k].dot
         /\ tombs[r][k] # NoDot =>
               /\ \E w \in written : w.key = k /\ w.dot = tombs[r][k]
               /\ Held(r, k).cnt >= tombs[r][k].cnt
<1>1. EntryWritten(r, k) /\ TombWritten(r, k) /\ EntryNewer(r, k)
  BY DEF StoreSound
<1>2. entries[r][k] # NoEntry => \E w \in written : w.key = k /\ w.dot = entries[r][k].dot
  BY <1>1 DEF EntryWritten, PutDelta
<1>3. tombs[r][k] # NoDot => \E w \in written : w.key = k /\ w.dot = tombs[r][k]
  BY <1>1 DEF TombWritten, RemoveDelta
<1>4. ASSUME tombs[r][k] # NoDot PROVE Held(r, k).cnt >= tombs[r][k].cnt
  <2>1. tombs[r][k] \in Dot /\ tombs[r][k].cnt \in Nat
    BY <1>4 DEF LType, Dot
  <2>2. CASE entries[r][k] = NoEntry
    BY <2>1, <2>2 DEF Held
  <2>3. CASE entries[r][k] # NoEntry
    <3>1. /\ entries[r][k].dot \in Dot /\ entries[r][k].dot.cnt >= 1
          /\ tombs[r][k].rep = entries[r][k].dot.rep
          /\ DotGT(entries[r][k].dot, tombs[r][k])
      BY <1>1, <1>2, <1>3, <1>4, <2>3, OneWriter DEF EntryNewer
    <3>2. entries[r][k].dot.cnt > tombs[r][k].cnt
      BY <2>1, <3>1, DotOrder
    <3>. QED BY <2>1, <2>3, <3>1, <3>2 DEF Held, Dot
  <2>. QED BY <2>2, <2>3
<1>. QED BY <1>2, <1>3, <1>4 DEF Held

\* Storing a write (lwwmap.go, Put, PutBytes and Remove) makes it what the
\* replica holds for its key and touches nothing else.
LEMMA StoreStep ==
  ASSUME LType, StoreSound, NEW r \in Replicas, NEW d \in Delta, Store(r, d),
         written \subseteq written', d \in written'
  PROVE  /\ entries' \in [Replicas -> [Keys -> [val : Values, dot : Dot] \cup {NoEntry}]]
         /\ tombs' \in [Replicas -> [Keys -> Dot \cup {NoDot}]]
         /\ StoreSound'
         /\ \A q \in Replicas, k \in Keys :
               Held(q, k)' = IF q = r /\ k = d.key THEN d.dot ELSE Held(q, k)
<1>. DEFINE e == IF d.op = "put" THEN [val |-> d.val, dot |-> d.dot] ELSE NoEntry
            t == IF d.op = "put" THEN NoDot ELSE d.dot
<1>1. entries' = [entries EXCEPT ![r][d.key] = e] /\ tombs' = [tombs EXCEPT ![r][d.key] = t]
  BY DEF Store
<1>2. /\ d.key \in Keys /\ d.dot \in Dot /\ d.op \in {"put", "remove"}
      /\ d.op = "put" => d.val \in Values /\ d = PutDelta(d.key, d.val, d.dot)
      /\ d.op = "remove" => d = RemoveDelta(d.key, d.dot)
  BY DEF Delta, PutDelta, RemoveDelta
<1>3. /\ e \in [val : Values, dot : Dot] \cup {NoEntry} /\ t \in Dot \cup {NoDot}
      /\ e = NoEntry \/ t = NoDot
      /\ e # NoEntry => PutDelta(d.key, e.val, e.dot) = d
      /\ t # NoDot => RemoveDelta(d.key, t) = d
      /\ (IF e # NoEntry THEN e.dot ELSE t) = d.dot
  <2>1. [val |-> d.val, dot |-> d.dot] # NoEntry \/ d.op # "put"
    BY <1>2, LWWMapAssumption DEF NoEntry
  <2>. QED BY <1>2, <2>1
<1>. HIDE DEF e, t
<1>4. /\ entries' \in [Replicas -> [Keys -> [val : Values, dot : Dot] \cup {NoEntry}]]
      /\ tombs' \in [Replicas -> [Keys -> Dot \cup {NoDot}]]
  BY <1>1, <1>2, <1>3 DEF LType
<1>5. ASSUME NEW q \in Replicas, NEW k \in Keys
      PROVE  /\ entries'[q][k] = IF q = r /\ k = d.key THEN e ELSE entries[q][k]
             /\ tombs'[q][k] = IF q = r /\ k = d.key THEN t ELSE tombs[q][k]
  BY <1>1, <1>2 DEF LType
<1>6. ASSUME NEW q \in Replicas, NEW k \in Keys
      PROVE  EntryWritten(q, k)' /\ TombWritten(q, k)' /\ EntryNewer(q, k)'
  <2>1. EntryWritten(q, k) /\ TombWritten(q, k) /\ EntryNewer(q, k)
    BY DEF StoreSound
  <2>2. CASE q = r /\ k = d.key
    BY <1>3, <1>5, <2>2 DEF EntryWritten, TombWritten, EntryNewer
  <2>3. CASE ~(q = r /\ k = d.key)
    BY <1>5, <2>1, <2>3 DEF EntryWritten, TombWritten, EntryNewer
  <2>. QED BY <2>2, <2>3
<1>7. StoreSound'
  BY <1>6 DEF StoreSound
<1>8. ASSUME NEW q \in Replicas, NEW k \in Keys
      PROVE  Held(q, k)' = IF q = r /\ k = d.key THEN d.dot ELSE Held(q, k)
  BY <1>3, <1>5 DEF Held
<1>. QED BY <1>4, <1>7, <1>8

-----------------------------------------------------------------------------
\* A new map satisfies the invariant.
LEMMA LInitial == DurableInit => LInv
<1>. SUFFICES ASSUME DurableInit PROVE LInv
  OBVIOUS
<1>1. /\ ShellInit /\ written = {}
      /\ entries = [r \in Replicas |-> [k \in Keys |-> NoEntry]]
      /\ tombs = [r \in Replicas |-> [k \in Keys |-> NoDot]]
  BY DEF DurableInit, Init
<1>2. ClockInv
  BY <1>1, CoreInitial DEF CoreInv, ClockInv
<1>3. LType /\ RestartersSilent
  BY <1>1, DurableAssumption DEF ShellInit, LType, RestartersSilent
<1>4. WrittenSound /\ WrittenDiffer /\ WrittenSent /\ RecordedIsReflected
  BY <1>1 DEF ShellInit, WrittenSound, WrittenDiffer, WrittenSent, RecordedIsReflected
<1>5. StoreSound
  BY <1>1 DEF StoreSound, EntryWritten, TombWritten, EntryNewer
<1>. QED BY <1>2, <1>3, <1>4, <1>5 DEF LInv

\* A local write keeps the invariant: no write to its key was later, and
\* nobody else has received it.
LEMMA LWriteStep ==
  ASSUME SteadyWriters, LInv, NEW r \in Replicas, NEW d \in Delta,
         r \in Writers[d.key], d.dot = DotOf(r, local[r] + 1), StampDot(r), Store(r, d),
         tracked' \in [Replicas -> SUBSET Keys],
         wire' = wire \cup [to : Peers(r), via : {"push"}, delta : {d}],
         written' = written \cup {d},
         known' = known, peerHWMs' = peerHWMs, digests' = digests
  PROVE  LInv'
<1>. DEFINE n == local[r] + 1
<1>1. /\ ClockInv /\ LType /\ WrittenSound /\ StoreSound
      /\ local \in [Replicas -> Nat] /\ CoreType /\ ReceivedStamped
  BY DEF LInv, ClockInv, CoreType
<1>2. /\ ClockInv' /\ n \in Nat /\ n >= 1
      /\ local' = [local EXCEPT ![r] = n]
      /\ Covered(r, r)' = Covered(r, r) \cup {n}
      /\ \A q, s \in Replicas : (q # r \/ s # r) => Covered(q, s)' = Covered(q, s)
  BY <1>1, ClockStamp
<1>3. \A q \in Replicas : Covered(q, r) \subseteq 1..local[r]
  BY <1>1, CoveredBounds
<1>4. /\ entries' \in [Replicas -> [Keys -> [val : Values, dot : Dot] \cup {NoEntry}]]
      /\ tombs' \in [Replicas -> [Keys -> Dot \cup {NoDot}]]
      /\ StoreSound'
      /\ \A q \in Replicas, k \in Keys :
            Held(q, k)' = IF q = r /\ k = d.key THEN d.dot ELSE Held(q, k)
  BY <1>1, StoreStep
<1>5. d.key \in Keys /\ d.dot = DotOf(r, n) /\ d.dot.rep = r /\ d.dot.cnt = n /\ d.dot \in Dot
  BY <1>2 DEF Delta, DotOf, Dot
<1>6. ASSUME NEW w \in written
      PROVE  /\ w \in Delta /\ w.key \in Keys /\ w.dot \in Dot /\ w.dot.rep \in Replicas
             /\ w.dot.cnt >= 1 /\ w.dot.cnt \in 1..local[w.dot.rep]
             /\ w.dot # d.dot /\ w.dot.cnt \in 1..local'[w.dot.rep]
             /\ w.key = d.key => w.dot.rep = r /\ w.dot.cnt < n
  <2>1. /\ w \in Delta /\ w.key \in Keys /\ w.dot \in Dot /\ w.dot.rep \in Replicas
        /\ w.dot.cnt >= 1 /\ w.dot.cnt \in 1..local[w.dot.rep] /\ w.dot.rep \in Writers[w.key]
    BY <1>1, OneWriter DEF WrittenSound
  <2>2. w.key = d.key => w.dot.rep = r
    BY <2>1 DEF SteadyWriters
  <2>. QED BY <1>1, <1>2, <1>5, <2>1, <2>2
<1>. HIDE DEF n
<1>7. LType'
  <2>1. wire' \subseteq [to : Replicas, via : {"push", "sync"}, delta : Delta]
    BY <1>1 DEF LType, Peers
  <2>. QED BY <1>1, <1>4, <2>1 DEF LType
<1>8. WrittenSound'
  <2>1. n \in 1..local'[r]
    BY <1>1, <1>2
  <2>. QED BY <1>5, <1>6, <2>1 DEF LInv, WrittenSound
<1>9. WrittenDiffer' /\ WrittenSent'
  BY <1>6 DEF LInv, WrittenDiffer, WrittenSent
<1>10. RestartersSilent'
  <2>1. r \notin Restarters
    BY <1>5 DEF SteadyWriters
  <2>. QED BY <1>1, <1>2, <2>1, DurableAssumption DEF LInv, RestartersSilent
<1>11. ASSUME NEW q \in Replicas, NEW w \in written', w.dot.cnt \in Covered(q, w.dot.rep)'
       PROVE  Held(q, w.key)' = w.dot \/ DotGT(Held(q, w.key)', w.dot)
  <2>1. CASE w = d
    <3>1. n \notin Covered(q, r)
      BY <1>1, <1>3 DEF n
    <3>2. n \in Covered(q, r)'
      BY <1>5, <1>11, <2>1
    <3>3. q = r
      BY <1>2, <3>1, <3>2
    <3>. QED BY <1>4, <1>5, <2>1, <3>3
  <2>2. CASE w \in written
    <3>1. w.dot.cnt \in Covered(q, w.dot.rep)
      <4>1. w.dot.rep = r => w.dot.cnt # n
        BY <1>1, <1>6, <2>2 DEF n
      <4>. QED BY <1>2, <1>6, <1>11, <2>2, <4>1
    <3>2. CASE q = r /\ w.key = d.key
      <4>1. Held(q, w.key)' = d.dot
        BY <1>4, <1>5, <3>2
      <4>2. DotGT(d.dot, w.dot)
        BY <1>5, <1>6, <2>2, <3>2, DotOrder
      <4>. QED BY <4>1, <4>2
    <3>3. CASE ~(q = r /\ w.key = d.key)
      <4>1. Held(q, w.key)' = Held(q, w.key)
        BY <1>4, <1>6, <2>2, <3>3
      <4>. QED BY <2>2, <3>1, <4>1 DEF LInv, RecordedIsReflected
    <3>. QED BY <3>2, <3>3
  <2>. QED BY <2>1, <2>2
<1>12. RecordedIsReflected'
  BY <1>11 DEF RecordedIsReflected
<1>. QED BY <1>2, <1>4, <1>7, <1>8, <1>9, <1>10, <1>12 DEF LInv

\* LWWMap.Put and LWWMap.Remove (node.go, lwwmap.go) keep the invariant.
LEMMA LPutStep ==
  ASSUME SteadyWriters, LInv, NEW r \in Replicas, NEW k \in Keys,
         (\E v \in Values : Put(r, k, v)) \/ Remove(r, k)
  PROVE  LInv'
<1>1. DotOf(r, local[r] + 1) \in Dot /\ LType
  BY DEF LInv, ClockInv, CoreType, DotOf, Dot
<1>2. ASSUME NEW v \in Values, Put(r, k, v) PROVE LInv'
  <2>1. PICK d : d = PutDelta(k, v, DotOf(r, local[r] + 1))
    OBVIOUS
  <2>2. d \in Delta /\ d.key = k /\ d.dot = DotOf(r, local[r] + 1)
    BY <1>1, <2>1 DEF PutDelta, Delta
  <2>3. /\ r \in Writers[k] /\ StampDot(r) /\ Store(r, d)
        /\ wire' = wire \cup [to : Peers(r), via : {"push"}, delta : {d}]
        /\ written' = written \cup {d}
        /\ known' = known /\ peerHWMs' = peerHWMs /\ digests' = digests
    BY <1>2, <2>1 DEF Put, LocalWrite, NextDot, PutDelta, Propagate, Pushes, Store
  <2>4. tracked' \in [Replicas -> SUBSET Keys]
    BY <1>1, <1>2 DEF Put, LocalWrite, PutDelta, TrackKey, LType
  <2>. QED BY <2>2, <2>3, <2>4, LWriteStep
<1>3. ASSUME Remove(r, k) PROVE LInv'
  <2>1. PICK d : d = RemoveDelta(k, DotOf(r, local[r] + 1))
    OBVIOUS
  <2>2. d \in Delta /\ d.key = k /\ d.dot = DotOf(r, local[r] + 1)
    BY <1>1, <2>1 DEF RemoveDelta, Delta
  <2>3. /\ r \in Writers[k] /\ StampDot(r) /\ Store(r, d)
        /\ wire' = wire \cup [to : Peers(r), via : {"push"}, delta : {d}]
        /\ written' = written \cup {d}
        /\ known' = known /\ peerHWMs' = peerHWMs /\ digests' = digests
    BY <1>3, <2>1 DEF Remove, LocalWrite, NextDot, RemoveDelta, Propagate, Pushes, Store
  <2>4. tracked' \in [Replicas -> SUBSET Keys]
    BY <1>1, <1>3 DEF Remove, LocalWrite, RemoveDelta, TrackKey, LType
  <2>. QED BY <2>2, <2>3, <2>4, LWriteStep
<1>. QED BY <1>2, <1>3

\* A put that the codec refuses keeps the invariant: its dot is received by
\* its writer and belongs to no write.
LEMMA LPutFailsStep ==
  ASSUME SteadyWriters, LInv, NEW r \in Replicas, NEW k \in Keys, PutFails(r, k)
  PROVE  LInv'
<1>1. /\ StampDot(r) /\ r \in Writers[k]
      /\ UNCHANGED <<tracked, known, peerHWMs, wire, digests, entries, tombs, written>>
  BY DEF PutFails
<1>2. /\ ClockInv /\ LType /\ WrittenSound /\ local \in [Replicas -> Nat]
  BY DEF LInv, ClockInv, CoreType
<1>3. /\ ClockInv' /\ local' = [local EXCEPT ![r] = local[r] + 1]
      /\ Covered(r, r)' = Covered(r, r) \cup {local[r] + 1}
      /\ \A q, s \in Replicas : (q # r \/ s # r) => Covered(q, s)' = Covered(q, s)
  BY <1>1, <1>2, ClockStamp
<1>4. ASSUME NEW w \in written
      PROVE  /\ w.dot.rep \in Replicas /\ w.dot.cnt \in 1..local[w.dot.rep]
             /\ w.dot.cnt \in 1..local'[w.dot.rep]
             /\ w.dot.rep = r => w.dot.cnt # local[r] + 1
  <2>1. w.dot.rep \in Replicas /\ w.dot.cnt \in 1..local[w.dot.rep]
    BY <1>2, OneWriter DEF WrittenSound
  <2>. QED BY <1>2, <1>3, <2>1
<1>5. LType' /\ WrittenDiffer' /\ WrittenSent'
  BY <1>1 DEF LInv, LType, WrittenDiffer, WrittenSent
<1>6. WrittenSound'
  BY <1>1, <1>4 DEF LInv, WrittenSound
<1>7. StoreSound'
  BY <1>1 DEF LInv, StoreSound, EntryWritten, TombWritten, EntryNewer
<1>8. RestartersSilent'
  <2>1. r \notin Restarters
    BY <1>1 DEF SteadyWriters
  <2>. QED BY <1>2, <1>3, <2>1, DurableAssumption DEF LInv, RestartersSilent
<1>9. ASSUME NEW q \in Replicas, NEW w \in written', w.dot.cnt \in Covered(q, w.dot.rep)'
      PROVE  Held(q, w.key)' = w.dot \/ DotGT(Held(q, w.key)', w.dot)
  <2>1. w \in written /\ w.dot.cnt \in Covered(q, w.dot.rep)
    BY <1>1, <1>3, <1>4, <1>9
  <2>2. Held(q, w.key)' = Held(q, w.key)
    BY <1>1 DEF Held
  <2>. QED BY <2>1, <2>2 DEF LInv, RecordedIsReflected
<1>10. RecordedIsReflected'
  BY <1>9 DEF RecordedIsReflected
<1>. QED BY <1>3, <1>5, <1>6, <1>7, <1>8, <1>10 DEF LInv

\* Receiving a write (replica.go, applyDelta, and clock_lww.go) keeps the
\* invariant: what is not newer than what is held need not be stored.
LEMMA LReceiveStep ==
  ASSUME SteadyWriters, LInv, NEW r \in Replicas, NEW m \in wire, ReceiveDelta(r, m)
  PROVE  LInv'
<1>1. /\ ClockInv /\ LType /\ WrittenSound /\ StoreSound /\ m.delta \in written
      /\ local \in [Replicas -> Nat]
  BY DEF LInv, WrittenSent, ClockInv, CoreType
<1>2. PICK d \in written : d = m.delta
  BY <1>1
<1>3. /\ d \in Delta /\ d.key \in Keys /\ d.dot \in Dot /\ d.dot.rep \in Replicas
      /\ d.dot.cnt >= 1 /\ d.dot.cnt \in 1..local[d.dot.rep]
  BY <1>1, OneWriter DEF WrittenSound
<1>4. /\ wire' \subseteq wire
      /\ IF Allows(r, d) THEN Store(r, d) ELSE UNCHANGED <<entries, tombs>>
      /\ RecordDots(r, Singleton(d.dot))
      /\ UNCHANGED <<local, known, peerHWMs, digests, written>>
  BY <1>2 DEF ReceiveDelta, Remaining
<1>5. tracked' \in [Replicas -> SUBSET Keys]
  BY <1>1, <1>2, <1>3 DEF ReceiveDelta, TrackKey, LType
<1>6. /\ Singleton(d.dot) \in VClock
      /\ \A s \in Replicas : Singleton(d.dot)[s] = IF s = d.dot.rep THEN d.dot.cnt ELSE 0
  BY <1>3 DEF Singleton, VClock, Dot
<1>7. /\ ClockInv'
      /\ \A s \in Replicas : Covered(r, s)' =
            Covered(r, s) \cup (IF Singleton(d.dot)[s] = 0 THEN {} ELSE {Singleton(d.dot)[s]})
      /\ \A q \in Replicas \ {r}, s \in Replicas : Covered(q, s)' = Covered(q, s)
  <2>1. local' = local /\ local' \in [Replicas -> Nat]
    BY <1>1, <1>4
  <2>2. \A s \in Replicas : local'[s] >= local[s] /\ Singleton(d.dot)[s] <= local'[s]
    BY <1>1, <1>3, <1>6, <2>1
  <2>. QED BY <1>1, <1>4, <1>6, <2>1, <2>2, ClockRecord
<1>8. \A w \in written : w.dot.rep \in Replicas =>
         (w.dot.cnt \in Covered(r, w.dot.rep)' =>
            w.dot.cnt \in Covered(r, w.dot.rep) \/ w.dot = d.dot)
  <2>. SUFFICES ASSUME NEW w \in written, w.dot.rep \in Replicas,
                       w.dot.cnt \in Covered(r, w.dot.rep)',
                       w.dot.cnt \notin Covered(r, w.dot.rep)
                PROVE  w.dot = d.dot
    OBVIOUS
  <2>1. w.dot.rep = d.dot.rep /\ w.dot.cnt = d.dot.cnt
    BY <1>6, <1>7
  <2>. QED BY <1>1, <1>3, <2>1, OneWriter DEF Dot
<1>9. \A w \in written : w.key = d.key => w.dot.rep = d.dot.rep /\ w.dot \in Dot /\ w.dot.cnt >= 1
  BY <1>1, OneWriter
<1>10. Held(r, d.key) = NoDot \/ (Held(r, d.key) \in Dot /\ Held(r, d.key).rep = d.dot.rep)
  BY <1>1, <1>3, <1>9, HeldIsWritten
<1>11. /\ entries' \in [Replicas -> [Keys -> [val : Values, dot : Dot] \cup {NoEntry}]]
       /\ tombs' \in [Replicas -> [Keys -> Dot \cup {NoDot}]]
       /\ StoreSound'
       /\ \A q \in Replicas, k \in Keys :
             Held(q, k)' = IF q = r /\ k = d.key /\ Allows(r, d) THEN d.dot ELSE Held(q, k)
  <2>1. CASE Allows(r, d)
    BY <1>1, <1>3, <1>4, <2>1, StoreStep
  <2>2. CASE ~Allows(r, d)
    <3>1. UNCHANGED <<entries, tombs, written>>
      BY <1>4, <2>2
    <3>2. StoreSound'
      BY <1>1, <3>1 DEF StoreSound, EntryWritten, TombWritten, EntryNewer
    <3>3. \A q \in Replicas, k \in Keys : Held(q, k)' = Held(q, k)
      BY <3>1 DEF Held
    <3>. QED BY <1>1, <2>2, <3>1, <3>2, <3>3 DEF LType
  <2>. QED BY <2>1, <2>2
<1>12. /\ Held(r, d.key)'.cnt >= Held(r, d.key).cnt /\ Held(r, d.key)'.cnt >= d.dot.cnt
       /\ Held(r, d.key)'.cnt \in Nat /\ Held(r, d.key).cnt \in Nat
       /\ Held(r, d.key)' = NoDot \/ (Held(r, d.key)' \in Dot /\ Held(r, d.key)'.rep = d.dot.rep)
  <2>1. Held(r, d.key).cnt \in Nat /\ d.dot.cnt \in Nat
    BY <1>3, <1>10, DotOrder DEF Dot
  <2>2. CASE Allows(r, d)
    <3>1. Held(r, d.key)' = d.dot
      BY <1>3, <1>11, <2>2
    <3>2. Held(r, d.key) = NoDot \/ DotGT(d.dot, Held(r, d.key))
      BY <2>2 DEF Allows, Held
    <3>3. d.dot.cnt >= Held(r, d.key).cnt
      BY <1>3, <1>10, <2>1, <3>2, DotOrder DEF NoDot
    <3>. QED BY <1>3, <2>1, <3>1, <3>3
  <2>3. CASE ~Allows(r, d)
    <3>1. Held(r, d.key)' = Held(r, d.key)
      BY <1>3, <1>11, <2>3
    <3>2. Held(r, d.key).cnt >= d.dot.cnt
      <4>1. CASE entries[r][d.key] # NoEntry /\ ~DotGT(d.dot, entries[r][d.key].dot)
        <5>1. Held(r, d.key) = entries[r][d.key].dot
          BY <4>1 DEF Held
        <5>. QED BY <1>3, <1>10, <2>1, <4>1, <5>1, DotOrder
      <4>2. CASE tombs[r][d.key] # NoDot /\ ~DotGT(d.dot, tombs[r][d.key])
        <5>1. /\ Held(r, d.key).cnt >= tombs[r][d.key].cnt
              /\ tombs[r][d.key] \in Dot /\ tombs[r][d.key].rep = d.dot.rep
          BY <1>1, <1>3, <1>9, <4>2, HeldIsWritten
        <5>2. tombs[r][d.key].cnt >= d.dot.cnt /\ tombs[r][d.key].cnt \in Nat
          BY <1>3, <2>1, <4>2, <5>1, DotOrder
        <5>. QED BY <2>1, <5>1, <5>2
      <4>. QED BY <2>3, <4>1, <4>2 DEF Allows
    <3>. QED BY <1>10, <2>1, <3>1, <3>2
  <2>. QED BY <2>2, <2>3
<1>13. ASSUME NEW q \in Replicas, NEW w \in written', w.dot.cnt \in Covered(q, w.dot.rep)'
       PROVE  Held(q, w.key)' = w.dot \/ DotGT(Held(q, w.key)', w.dot)
  <2>1. w \in written /\ w.key \in Keys /\ w.dot \in Dot /\ w.dot.rep \in Replicas /\ w.dot.cnt >= 1
    BY <1>1, <1>4, OneWriter
  <2>2. CASE q = r /\ w.key = d.key
    <3>1. w.dot.cnt \in Covered(r, w.dot.rep) \/ w.dot = d.dot
      BY <1>8, <1>13, <2>1, <2>2
    <3>2. w.dot.rep = d.dot.rep /\ w.dot.cnt \in Nat /\ d.dot.cnt \in Nat
      BY <1>3, <1>9, <2>1, <2>2 DEF Dot
    <3>3. w.dot.cnt \in Covered(r, w.dot.rep) => Held(r, d.key).cnt >= w.dot.cnt
      <4>1. w.dot.cnt \in Covered(r, w.dot.rep) =>
               Held(r, d.key) = w.dot \/ DotGT(Held(r, d.key), w.dot)
        BY <2>1, <2>2 DEF LInv, RecordedIsReflected
      <4>. QED BY <1>10, <2>1, <3>2, <4>1, DotOrder
    <3>4. Held(r, d.key)'.cnt >= w.dot.cnt
      BY <1>12, <3>1, <3>2, <3>3
    <3>. QED BY <1>12, <2>1, <2>2, <3>2, <3>4, DotOrder
  <2>3. CASE ~(q = r /\ w.key = d.key)
    <3>1. Held(q, w.key)' = Held(q, w.key)
      BY <1>11, <2>1, <2>3
    <3>2. w.dot.cnt \in Covered(q, w.dot.rep)
      <4>1. w.dot = d.dot => w = d
        BY <1>2, <2>1 DEF LInv, WrittenDiffer
      <4>. QED BY <1>7, <1>8, <1>13, <2>1, <2>3, <4>1
    <3>. QED BY <2>1, <3>1, <3>2 DEF LInv, RecordedIsReflected
  <2>. QED BY <2>2, <2>3
<1>14. RecordedIsReflected'
  BY <1>13 DEF RecordedIsReflected
<1>15. LType'
  BY <1>1, <1>4, <1>5, <1>11 DEF LType
<1>16. WrittenSound' /\ WrittenDiffer' /\ WrittenSent' /\ RestartersSilent'
  BY <1>4 DEF LInv, WrittenSound, WrittenDiffer, WrittenSent, RestartersSilent
<1>. QED BY <1>7, <1>11, <1>14, <1>15, <1>16 DEF LInv

\* A process that starts again (replica.go:62-73) keeps the clocks sound: it
\* has received nothing, and stamped nothing before.
LEMMA LoseMemoryStep ==
  ASSUME LInv, NEW r \in Replicas, LoseMemory(r), digests' = digests
  PROVE  /\ ClockInv' /\ local' = local /\ tracked' \in [Replicas -> SUBSET Keys]
         /\ \A s \in Replicas : Covered(r, s)' = {}
         /\ \A q \in Replicas \ {r}, s \in Replicas : Covered(q, s)' = Covered(q, s)
<1>1. /\ CoreType /\ ReceivedStamped /\ LType /\ r \in Restarters /\ local[r] = 0
  BY DEF LInv, ClockInv, LoseMemory, RestartersSilent
<1>2. /\ local' = local
      /\ hwm' = [hwm EXCEPT ![r] = EmptyClock]
      /\ pending' = [pending EXCEPT ![r] = [s \in Replicas |-> {}]]
      /\ tracked' = [tracked EXCEPT ![r] = {}]
      /\ known' = [known EXCEPT ![r] = {}]
      /\ peerHWMs' = [peerHWMs EXCEPT ![r] = [p \in Replicas |-> EmptyClock]]
  BY <1>1 DEF LoseMemory, CoreType
<1>3. EmptyClock \in VClock /\ \A s \in Replicas : EmptyClock[s] = 0
  BY DEF EmptyClock, VClock
<1>4. CoreType'
  BY <1>1, <1>2, <1>3 DEF CoreType, ReceivedType
<1>5. /\ \A s \in Replicas : hwm'[r][s] = 0 /\ pending'[r][s] = {}
      /\ \A q \in Replicas \ {r} : hwm'[q] = hwm[q] /\ pending'[q] = pending[q]
  BY <1>1, <1>2, <1>3 DEF CoreType, ReceivedType
<1>6. ReceivedStamped'
  <2>. SUFFICES ASSUME NEW q \in Replicas, NEW s \in Replicas
                PROVE  /\ hwm'[q][s] <= local'[s] /\ pending'[q][s] \subseteq 1..local'[s]
                       /\ hwm'[q][s] + 1 \notin pending'[q][s]
    BY DEF ReceivedStamped, ReceivedWithin
  <2>1. local[s] \in Nat
    BY <1>1 DEF CoreType
  <2>. QED BY <1>1, <1>2, <1>5, <2>1 DEF ReceivedStamped, ReceivedWithin
<1>7. tracked' \in [Replicas -> SUBSET Keys]
  BY <1>1, <1>2 DEF LType
<1>. QED BY <1>2, <1>4, <1>5, <1>6, <1>7 DEF ClockInv, Covered

\* A process that stops between two operations keeps the invariant.
LEMMA LRestartStep ==
  ASSUME LInv, NEW r \in Replicas, Restart(r)
  PROVE  LInv'
<1>1. UNCHANGED <<entries, tombs, written, wire, digests>> /\ LoseMemory(r)
  BY DEF Restart
<1>2. /\ ClockInv' /\ local' = local /\ tracked' \in [Replicas -> SUBSET Keys]
      /\ \A s \in Replicas : Covered(r, s)' = {}
      /\ \A q \in Replicas \ {r}, s \in Replicas : Covered(q, s)' = Covered(q, s)
  BY <1>1, LoseMemoryStep
<1>3. LType' /\ WrittenSound' /\ WrittenDiffer' /\ WrittenSent' /\ RestartersSilent'
  BY <1>1, <1>2 DEF LInv, LType, WrittenSound, WrittenDiffer, WrittenSent, RestartersSilent
<1>4. StoreSound'
  BY <1>1 DEF LInv, StoreSound, EntryWritten, TombWritten, EntryNewer
<1>5. ASSUME NEW q \in Replicas, NEW w \in written', w.dot.cnt \in Covered(q, w.dot.rep)'
      PROVE  Held(q, w.key)' = w.dot \/ DotGT(Held(q, w.key)', w.dot)
  <2>1. w \in written /\ w.dot.rep \in Replicas
    BY <1>1 DEF LInv, LType, Delta, Dot
  <2>2. w.dot.cnt \in Covered(q, w.dot.rep)
    BY <1>2, <1>5, <2>1
  <2>3. Held(q, w.key)' = Held(q, w.key)
    BY <1>1 DEF Held
  <2>. QED BY <2>1, <2>2, <2>3 DEF LInv, RecordedIsReflected
<1>6. RecordedIsReflected'
  BY <1>5 DEF RecordedIsReflected
<1>. QED BY <1>2, <1>3, <1>4, <1>6 DEF LInv

\* A process that stops between the two transactions of a put or a remove
\* (crdtbolt/bolt.go) keeps the invariant: what is lost or left over is no
\* longer reported as received, and an entry is newer than its tombstone.
LEMMA LCrashStep ==
  ASSUME LInv, NEW r \in Replicas, NEW m \in wire, CrashInApply(r, m)
  PROVE  LInv'
<1>1. PICK d \in written : d = m.delta
  BY DEF LInv, WrittenSent
<1>2. /\ LoseMemory(r) /\ Allows(r, d) /\ FirstTransaction(r, d) /\ wire' \subseteq wire
      /\ UNCHANGED <<digests, written>>
  BY <1>1 DEF CrashInApply, Remaining
<1>3. /\ ClockInv' /\ local' = local /\ tracked' \in [Replicas -> SUBSET Keys]
      /\ \A s \in Replicas : Covered(r, s)' = {}
      /\ \A q \in Replicas \ {r}, s \in Replicas : Covered(q, s)' = Covered(q, s)
  BY <1>2, LoseMemoryStep
<1>4. /\ d \in Delta /\ d.key \in Keys /\ d.dot \in Dot
      /\ d.op = "put" => d.val \in Values /\ d = PutDelta(d.key, d.val, d.dot)
  BY DEF LInv, LType, Delta, PutDelta
<1>. DEFINE e == IF d.op = "put" THEN [val |-> d.val, dot |-> d.dot] ELSE NoEntry
<1>5. entries' = [entries EXCEPT ![r][d.key] = e] /\ tombs' = tombs
  BY <1>2 DEF FirstTransaction
<1>6. /\ e \in [val : Values, dot : Dot] \cup {NoEntry}
      /\ e # NoEntry => e.dot = d.dot /\ PutDelta(d.key, e.val, e.dot) = d
  BY <1>4
<1>. HIDE DEF e
<1>7. LType'
  BY <1>2, <1>3, <1>4, <1>5, <1>6 DEF LInv, LType
<1>8. WrittenSound' /\ WrittenDiffer' /\ WrittenSent' /\ RestartersSilent'
  BY <1>2, <1>3 DEF LInv, WrittenSound, WrittenDiffer, WrittenSent, RestartersSilent
<1>9. ASSUME NEW q \in Replicas, NEW k \in Keys
      PROVE  entries'[q][k] = IF q = r /\ k = d.key THEN e ELSE entries[q][k]
  BY <1>4, <1>5 DEF LInv, LType
<1>10. ASSUME NEW q \in Replicas, NEW k \in Keys
       PROVE  EntryWritten(q, k)' /\ TombWritten(q, k)' /\ EntryNewer(q, k)'
  <2>1. EntryWritten(q, k) /\ TombWritten(q, k) /\ EntryNewer(q, k)
    BY DEF LInv, StoreSound
  <2>2. CASE q = r /\ k = d.key
    <3>1. tombs[r][d.key] # NoDot => DotGT(d.dot, tombs[r][d.key])
      BY <1>2 DEF Allows
    <3>. QED BY <1>1, <1>2, <1>5, <1>6, <1>9, <2>1, <2>2, <3>1
             DEF EntryWritten, TombWritten, EntryNewer
  <2>3. CASE ~(q = r /\ k = d.key)
    BY <1>2, <1>5, <1>9, <2>1, <2>3 DEF EntryWritten, TombWritten, EntryNewer
  <2>. QED BY <2>2, <2>3
<1>11. StoreSound'
  BY <1>10 DEF StoreSound
<1>12. ASSUME NEW q \in Replicas, NEW w \in written', w.dot.cnt \in Covered(q, w.dot.rep)'
       PROVE  Held(q, w.key)' = w.dot \/ DotGT(Held(q, w.key)', w.dot)
  <2>1. w \in written /\ w.dot.rep \in Replicas /\ w.key \in Keys
    BY <1>2 DEF LInv, LType, Delta, Dot
  <2>2. q # r /\ w.dot.cnt \in Covered(q, w.dot.rep)
    BY <1>3, <1>12, <2>1
  <2>3. Held(q, w.key)' = Held(q, w.key)
    BY <1>5, <1>9, <2>1, <2>2 DEF Held
  <2>. QED BY <2>1, <2>2, <2>3 DEF LInv, RecordedIsReflected
<1>13. RecordedIsReflected'
  BY <1>12 DEF RecordedIsReflected
<1>. QED BY <1>3, <1>7, <1>8, <1>11, <1>13 DEF LInv

\* A step that leaves the clocks, the data and the writes alone keeps the
\* invariant if it sends only writes.
LEMMA LOtherStep ==
  ASSUME LInv, CoreType', UNCHANGED <<local, hwm, pending, tracked, entries, tombs, written>>,
         wire' \subseteq [to : Replicas, via : {"push", "sync"}, delta : Delta],
         \A x \in wire' : x.delta \in written
  PROVE  LInv'
<1>1. ClockInv'
  BY DEF LInv, ClockInv, ReceivedStamped, ReceivedWithin
<1>2. LType' /\ WrittenSound' /\ WrittenDiffer' /\ WrittenSent' /\ RestartersSilent'
  BY DEF LInv, LType, WrittenSound, WrittenDiffer, WrittenSent, RestartersSilent
<1>3. StoreSound'
  BY DEF LInv, StoreSound, EntryWritten, TombWritten, EntryNewer
<1>4. RecordedIsReflected'
  BY DEF LInv, RecordedIsReflected, Held, Covered
<1>. QED BY <1>1, <1>2, <1>3, <1>4 DEF LInv

\* Sending and answering digests, and losing messages, keeps the invariant.
LEMMA LGossipStep ==
  ASSUME LInv,
         \/ \E r \in Replicas : SendDigests(r)
         \/ \E r \in Replicas, m \in digests : ReceiveDigest(r, m)
         \/ Lose
  PROVE  LInv'
<1>1. CoreType /\ LType /\ WrittenSent /\ StoreSound
  BY DEF LInv, ClockInv
<1>2. /\ wire \subseteq [to : Replicas, via : {"push", "sync"}, delta : Delta]
      /\ \A x \in wire : x.delta \in written
  BY <1>1 DEF LType, WrittenSent
<1>3. ASSUME NEW r \in Replicas, SendDigests(r) PROVE LInv'
  <2>1. /\ digests' = digests \cup {Digest(r, p) : p \in Peers(r)}
        /\ UNCHANGED <<local, hwm, pending, tracked, known, peerHWMs, wire>>
        /\ UNCHANGED <<entries, tombs, written>>
    BY <1>3 DEF SendDigests, BroadcastDigest
  <2>2. ASSUME NEW p \in Peers(r)
        PROVE  Digest(r, p) \in [to : Replicas, from : Replicas, hwm : VClock, empty : BOOLEAN]
    BY <1>1 DEF CoreType, ReceivedType, Peers, Digest
  <2>3. CoreType'
    BY <1>1, <2>1, <2>2 DEF CoreType, ReceivedType
  <2>. QED BY <1>2, <2>1, <2>3, LOtherStep
<1>4. ASSUME NEW r \in Replicas, NEW m \in digests, ReceiveDigest(r, m) PROVE LInv'
  <2>. DEFINE sent == DeltasSince(r, m.hwm)
  <2>1. /\ digests' \subseteq digests
        /\ known' = [known EXCEPT ![r] = @ \cup {m.from}]
        /\ peerHWMs' = [peerHWMs EXCEPT ![r][m.from] = m.hwm]
        /\ wire' \subseteq wire \cup [to : {m.from}, via : {"sync"}, delta : sent]
        /\ UNCHANGED <<local, hwm, pending, tracked, entries, tombs, written>>
    BY <1>4 DEF ReceiveDigest, AnswerDigest, Remaining, Syncs
  <2>2. sent \subseteq written
    BY <1>1 DEF DeltasSince, StoreSound, EntryWritten, TombWritten
  <2>. HIDE DEF sent
  <2>3. m.from \in Replicas /\ m.hwm \in VClock
    BY <1>1 DEF CoreType
  <2>4. CoreType'
    BY <1>1, <2>1, <2>3 DEF CoreType, ReceivedType
  <2>5. /\ wire' \subseteq [to : Replicas, via : {"push", "sync"}, delta : Delta]
        /\ \A x \in wire' : x.delta \in written
    BY <1>1, <1>2, <2>1, <2>2, <2>3 DEF LType
  <2>. QED BY <2>1, <2>4, <2>5, LOtherStep
<1>5. ASSUME Lose PROVE LInv'
  <2>1. /\ wire' \subseteq wire /\ digests' \subseteq digests
        /\ UNCHANGED <<local, hwm, pending, tracked, known, peerHWMs, entries, tombs, written>>
    BY <1>5 DEF Lose, LoseDelta, LoseDigest
  <2>2. CoreType'
    BY <1>1, <2>1 DEF CoreType, ReceivedType
  <2>. QED BY <1>2, <2>1, <2>2, LOtherStep
<1>. QED BY <1>3, <1>4, <1>5

-----------------------------------------------------------------------------
\* The invariant holds in every reachable state, restarts and crashes between
\* two transactions included.
THEOREM LInvariant == ASSUME SteadyWriters PROVE DurableSpec => []LInv
<1>1. LInv /\ [DurableNext]_durableVars => LInv'
  <2>. SUFFICES ASSUME LInv, [DurableNext]_durableVars PROVE LInv'
    OBVIOUS
  <2>1. CASE Next
    <3>1. CASE \E r \in Replicas, k \in Keys, v \in Values : Put(r, k, v)
      BY <3>1, LPutStep
    <3>2. CASE \E r \in Replicas, k \in Keys : PutFails(r, k)
      BY <3>2, LPutFailsStep
    <3>3. CASE \E r \in Replicas, k \in Keys : Remove(r, k)
      BY <3>3, LPutStep
    <3>4. CASE \E r \in Replicas, m \in wire : ReceiveDelta(r, m)
      BY <3>4, LReceiveStep
    <3>5. CASE \/ \E r \in Replicas : SendDigests(r)
               \/ \E r \in Replicas, m \in digests : ReceiveDigest(r, m)
               \/ Lose
      BY <3>5, LGossipStep
    <3>. QED BY <2>1, <3>1, <3>2, <3>3, <3>4, <3>5 DEF Next
  <2>2. CASE \E r \in Replicas : Restart(r)
    BY <2>2, LRestartStep
  <2>3. CASE \E r \in Replicas, m \in wire : CrashInApply(r, m)
    BY <2>3, LCrashStep
  <2>4. CASE UNCHANGED durableVars
    <3>1. /\ UNCHANGED <<local, hwm, pending, tracked, known, peerHWMs, wire, digests>>
          /\ UNCHANGED <<entries, tombs, written>>
      BY <2>4 DEF durableVars, vars, shell
    <3>2. CoreType'
      BY <3>1 DEF LInv, ClockInv, CoreType, ReceivedType
    <3>3. /\ wire' \subseteq [to : Replicas, via : {"push", "sync"}, delta : Delta]
          /\ \A x \in wire' : x.delta \in written
      BY <3>1 DEF LInv, LType, WrittenSent
    <3>. QED BY <3>1, <3>2, <3>3, LOtherStep
  <2>. QED BY <2>1, <2>2, <2>3, <2>4 DEF DurableNext
<1>. QED BY LInitial, <1>1, PTL DEF DurableSpec

\* The clocks, the entries, the tombstones and the messages of maps with one
\* writer per key keep their types, restarts included.
THEOREM TypeCorrect == ASSUME SteadyWriters PROVE DurableSpec => []TypeOK
<1>1. LInv => TypeOK
  BY DEF LInv, ClockInv, CoreType, ReceivedType, LType, TypeOK
<1>. QED BY <1>1, LInvariant, PTL

\* A replica that has recorded a write holds it or a later write to its key
\* (lwwClock.Allows and applyDelta), also when it starts again over what a
\* crash has left on disk.
THEOREM RecordedReflected == ASSUME SteadyWriters PROVE DurableSpec => []RecordedIsReflected
<1>1. LInv => RecordedIsReflected
  BY DEF LInv
<1>. QED BY <1>1, LInvariant, PTL

\* dot.go:17-20: replicas that have received every write show the same
\* entries, whatever the order of arrival.
THEOREM Agreement == ASSUME SteadyWriters PROVE DurableSpec => []AgreeOnceReceived
<1>1. ASSUME LInv, AllRecorded, NEW r \in Replicas, NEW k \in Keys,
             NEW w \in written, w.key = k, \A v \in written : v.key = k => v.dot.cnt <= w.dot.cnt
      PROVE  entries[r][k] = IF w.op = "put" THEN [val |-> w.val, dot |-> w.dot] ELSE NoEntry
  <2>1. LType /\ WrittenSound /\ StoreSound /\ WrittenDiffer
    BY <1>1 DEF LInv
  <2>2. Held(r, k) = w.dot \/ DotGT(Held(r, k), w.dot)
    BY <1>1 DEF LInv, RecordedIsReflected, AllRecorded
  <2>3. w.dot \in Dot /\ w.dot.cnt >= 1 /\ w.dot.cnt \in Nat /\ w \in Delta
    BY <2>1, OneWriter DEF Dot
  <2>4. Held(r, k) = NoDot \/ \E v \in written : v.key = k /\ v.dot = Held(r, k)
    BY <2>1, HeldIsWritten
  <2>5. Held(r, k) = NoDot \/ (Held(r, k) \in Dot /\ Held(r, k).rep = w.dot.rep)
    BY <1>1, <2>1, <2>4, OneWriter
  <2>6. Held(r, k).cnt >= w.dot.cnt /\ Held(r, k).cnt \in Nat
    BY <2>2, <2>3, <2>5, DotOrder
  <2>7. Held(r, k) # NoDot
    BY <2>3, <2>6 DEF NoDot
  <2>8. Held(r, k).cnt <= w.dot.cnt
    BY <1>1, <2>4, <2>7
  <2>9. Held(r, k) = w.dot
    <3>1. Held(r, k).cnt = w.dot.cnt
      BY <2>3, <2>6, <2>8
    <3>. QED BY <2>3, <2>5, <2>7, <3>1 DEF Dot
  <2>10. EntryWritten(r, k) /\ TombWritten(r, k)
    BY <2>1 DEF StoreSound
  <2>11. CASE entries[r][k] # NoEntry
    <3>1. PutDelta(k, entries[r][k].val, entries[r][k].dot) = w
      BY <2>1, <2>9, <2>10, <2>11 DEF EntryWritten, WrittenDiffer, PutDelta, Held
    <3>2. entries[r][k] \in [val : Values, dot : Dot]
      BY <2>1, <2>11 DEF LType
    <3>. QED BY <3>1, <3>2 DEF PutDelta
  <2>12. CASE entries[r][k] = NoEntry
    <3>1. RemoveDelta(k, tombs[r][k]) = w
      BY <2>1, <2>7, <2>9, <2>10, <2>12 DEF TombWritten, WrittenDiffer, RemoveDelta, Held
    <3>. QED BY <2>12, <3>1 DEF RemoveDelta
  <2>. QED BY <2>11, <2>12
<1>2. LInv => AgreeOnceReceived
  <2>. SUFFICES ASSUME LInv, AllRecorded, NEW r \in Replicas, NEW s \in Replicas, NEW k \in Keys
                PROVE  entries[r][k] = entries[s][k]
    <3>1. LInv => entries \in [Replicas -> [Keys -> [val : Values, dot : Dot] \cup {NoEntry}]]
      BY DEF LInv, LType
    <3>. QED BY <3>1 DEF AgreeOnceReceived, Agree
  <2>1. CASE \E w \in written : /\ w.key = k
                                /\ \A v \in written : v.key = k => v.dot.cnt <= w.dot.cnt
    <3>1. PICK w \in written : /\ w.key = k
                               /\ \A v \in written : v.key = k => v.dot.cnt <= w.dot.cnt
      BY <2>1
    <3>2. ASSUME NEW q \in Replicas
          PROVE  entries[q][k] = IF w.op = "put" THEN [val |-> w.val, dot |-> w.dot] ELSE NoEntry
      BY <1>1, <3>1
    <3>3. entries[r][k] = IF w.op = "put" THEN [val |-> w.val, dot |-> w.dot] ELSE NoEntry
      BY <3>2
    <3>4. entries[s][k] = IF w.op = "put" THEN [val |-> w.val, dot |-> w.dot] ELSE NoEntry
      BY <3>2
    <3>. QED BY <3>3, <3>4
  <2>2. CASE \A w \in written : w.key # k
    BY <2>2 DEF LInv, StoreSound, EntryWritten, PutDelta
  <2>3. ASSUME NEW u \in written, u.key = k
        PROVE  \E w \in written : /\ w.key = k
                                  /\ \A v \in written : v.key = k => v.dot.cnt <= w.dot.cnt
    \* The writer of k counts no further than local, so some write is the last.
    <3>. DEFINE L == local[u.dot.rep]
                gaps == {n \in 0..L : \E w \in written : w.key = k /\ w.dot.cnt = L - n}
    <3>1. /\ \A w \in written : w.key = k => w.dot.rep = u.dot.rep /\ w.dot.cnt \in 1..L
          /\ L \in Nat
      <4>1. LType /\ WrittenSound /\ local \in [Replicas -> Nat]
        BY DEF LInv, ClockInv, CoreType
      <4>. QED BY <2>3, <4>1, OneWriter DEF WrittenSound
    <3>. HIDE DEF L
    <3>2. \A w \in written : w.key = k => L - w.dot.cnt \in gaps
      BY <3>1
    <3>3. gaps \in SUBSET Nat /\ gaps # {}
      BY <2>3, <3>1, <3>2
    <3>4. PICK g \in gaps : \A n \in gaps : g <= n
      BY <3>3, LeastNatural
    <3>5. PICK w \in written : w.key = k /\ w.dot.cnt = L - g
      BY <3>4
    <3>6. ASSUME NEW v \in written, v.key = k PROVE v.dot.cnt <= w.dot.cnt
      BY <3>1, <3>2, <3>4, <3>5, <3>6
    <3>. QED BY <3>5, <3>6
  <2>. QED BY <2>1, <2>2, <2>3
<1>. QED BY <1>2, LInvariant, PTL
=============================================================================
