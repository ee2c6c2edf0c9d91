----------------------------- MODULE NodeProofs ------------------------------
(***************************************************************************)
(* Safety of the types of Node for every set of replicas, keys and values, *)
(* every transport fault and every bound.                                  *)
(*                                                                         *)
(* Each type is an instance with a copy of the replica core's operators.   *)
(* The copies are the operators of Replica, so the lemmas of ReplicaProofs *)
(* hold of every type.                                                     *)
(***************************************************************************)
EXTENDS Node, ReplicaProofs

-----------------------------------------------------------------------------
(* GList.  A dot names one item, and an item is in a list when and only    *)
(* when its dot is recorded there.                                         *)

GLType == /\ tracked \in [Replicas -> SUBSET Dot]
          /\ wire \subseteq [to : Replicas, via : {"push", "sync"}, delta : GL!Item]
          /\ items \in [Replicas -> SUBSET GL!Item]
          /\ appended \subseteq GL!Item

\* Every item has a dot that its author has stamped, and no other item has it.
ItemsStamped == \A i \in appended : i.dot.cnt \in 1..local[i.dot.rep]

ItemsDiffer == \A i, j \in appended : i.dot = j.dot => i = j

ItemsSent == \A m \in wire : m.delta \in appended

ItemsTracked == \A r \in Replicas : \A i \in items[r] : i.dot \in tracked[r]

GLInv == /\ CoreInv
         /\ GLType
         /\ ItemsStamped
         /\ ItemsDiffer
         /\ ItemsSent
         /\ ItemsTracked
         /\ GL!HoldsWhatItRecorded

\* The core of a list is that of Replica.
LEMMA GLCore ==
  /\ GL!ShellInit => ShellInit
  /\ \A r \in Replicas : GL!StampDot(r) => StampDot(r)
  /\ \A r \in Replicas, d \in Dot :
        GL!RecordDots(r, GL!Singleton(d)) => RecordDots(r, Singleton(d))
  /\ GL!Dot = Dot /\ GL!VClock = VClock
  /\ \A r, s \in Replicas : GL!Covered(r, s) = Covered(r, s)
  /\ \A r \in Replicas : GL!NextDot(r) = DotOf(r, local[r] + 1)
<1>1. GL!ShellInit => ShellInit
  BY DEF GL!ShellInit, ShellInit, GL!EmptyClock, EmptyClock
<1>2. ASSUME NEW r \in Replicas, NEW dots, GL!RecordDots(r, dots)
      PROVE  RecordDots(r, dots)
  BY <1>2 DEF GL!RecordDots, RecordDots, GL!RecordHWM, RecordHWM,
              GL!RecordPending, RecordPending, GL!AdvanceHWM, AdvanceHWM
<1>3. \A d : GL!Singleton(d) = Singleton(d)
  BY DEF GL!Singleton, Singleton
<1>4. \A r \in Replicas : GL!NextDot(r) = DotOf(r, local[r] + 1)
  BY DEF GL!NextDot, GL!DotOf, DotOf
<1>5. ASSUME NEW r \in Replicas, GL!StampDot(r) PROVE StampDot(r)
  BY <1>2, <1>3, <1>4, <1>5 DEF GL!StampDot, StampDot, NextDot
<1>6. /\ GL!Dot = Dot /\ GL!VClock = VClock
      /\ \A r, s \in Replicas : GL!Covered(r, s) = Covered(r, s)
  BY DEF GL!Dot, Dot, GL!VClock, VClock, GL!Covered, Covered
<1>. QED BY <1>1, <1>2, <1>3, <1>4, <1>5, <1>6

\* A new list is empty, and so is what has been recorded.
LEMMA GLInitial == GL!Init => GLInv
<1>. SUFFICES ASSUME GL!Init PROVE GLInv
  OBVIOUS
<1>1. ShellInit /\ items = [r \in Replicas |-> {}] /\ appended = {}
  BY GLCore DEF GL!Init
<1>2. CoreInv
  BY <1>1, CoreInitial
<1>3. GLType /\ ItemsStamped /\ ItemsDiffer /\ ItemsSent /\ ItemsTracked
  BY <1>1 DEF ShellInit, GLType, ItemsStamped, ItemsDiffer, ItemsSent, ItemsTracked
<1>4. GL!HoldsWhatItRecorded
  BY <1>1 DEF GL!HoldsWhatItRecorded
<1>. QED BY <1>2, <1>3, <1>4 DEF GLInv

\* GList.Append (node.go, glist.go:36-48) keeps the invariant.
LEMMA GLAppendStep ==
  ASSUME GLInv, NEW r \in Replicas, NEW v \in Values, GL!Append(r, v)
  PROVE  GLInv'
<1>. DEFINE n == local[r] + 1
            i == GL!NewItem(v, DotOf(r, n))
<1>1. /\ StampDot(r)
      /\ items' = [items EXCEPT ![r] = @ \cup {i}]
      /\ tracked' = [tracked EXCEPT ![r] = @ \cup {DotOf(r, n)}]
      /\ wire' = wire \cup [to : Replicas \ {r}, via : {"push"}, delta : {i}]
      /\ appended' = appended \cup {i}
      /\ known' = known /\ peerHWMs' = peerHWMs /\ digests' = digests
  BY GLCore DEF GL!Append, GL!NewItem, GL!TrackKey, GL!Propagate, GL!Pushes, GL!Peers
<1>2. CoreInv /\ GLType /\ local \in [Replicas -> Nat]
  BY DEF GLInv, CoreInv, CoreType
<1>3. /\ CoreInv' /\ n \in Nat /\ n >= 1
      /\ local' = [local EXCEPT ![r] = n]
      /\ Covered(r, r)' = Covered(r, r) \cup {n}
      /\ \A q, s \in Replicas : (q # r \/ s # r) => Covered(q, s)' = Covered(q, s)
  BY <1>1, <1>2, CoreStamp
<1>4. \A q, s \in Replicas : Covered(q, s) \subseteq 1..local[s]
  BY <1>2, CoveredBounds DEF CoreInv
<1>. HIDE DEF n
<1>5. i \in GL!Item /\ i.dot = DotOf(r, n) /\ DotOf(r, n) \in Dot
  BY <1>3, GLCore DEF GL!Item, GL!NewItem, Dot, DotOf
<1>. HIDE DEF i
<1>6. GLType'
  BY <1>1, <1>2, <1>5 DEF GLType
<1>7. ASSUME NEW j \in appended
      PROVE  /\ j.dot.rep \in Replicas /\ j.dot.cnt \in 1..local[j.dot.rep]
             /\ j.dot # i.dot
  <2>1. j.dot.rep \in Replicas /\ j.dot.cnt \in 1..local[j.dot.rep]
    BY <1>2, GLCore DEF GLInv, ItemsStamped, GLType, GL!Item, Dot
  <2>. QED BY <1>2, <1>5, <2>1 DEF n, DotOf
<1>8. ItemsStamped'
  <2>. SUFFICES ASSUME NEW j \in appended' PROVE j.dot.cnt \in 1..local'[j.dot.rep]
    BY DEF ItemsStamped
  <2>1. CASE j \in appended
    BY <1>2, <1>3, <1>7, <2>1 DEF n
  <2>2. CASE j = i
    BY <1>2, <1>3, <1>5, <2>2 DEF DotOf
  <2>. QED BY <1>1, <2>1, <2>2
<1>9. ItemsDiffer'
  BY <1>1, <1>7 DEF GLInv, ItemsDiffer
<1>10. ItemsSent'
  BY <1>1 DEF GLInv, ItemsSent
<1>11. ItemsTracked'
  BY <1>1, <1>2, <1>5 DEF GLInv, ItemsTracked, GLType
<1>12. GL!HoldsWhatItRecorded'
  <2>. SUFFICES ASSUME NEW q \in Replicas
                PROVE  items'[q] = {j \in appended' : j.dot.cnt \in Covered(q, j.dot.rep)'}
    BY DEF GL!HoldsWhatItRecorded, GL!Covered, Covered
  <2>1. items[q] = {j \in appended : j.dot.cnt \in Covered(q, j.dot.rep)}
    BY DEF GLInv, GL!HoldsWhatItRecorded, GL!Covered, Covered
  <2>2. ASSUME NEW j \in appended
        PROVE  j.dot.cnt \in Covered(q, j.dot.rep)' <=> j.dot.cnt \in Covered(q, j.dot.rep)
    BY <1>2, <1>3, <1>7 DEF n
  <2>3. /\ i.dot.rep = r /\ i.dot.cnt = n
        /\ n \in Covered(q, r)' <=> q = r
    BY <1>2, <1>3, <1>4, <1>5 DEF n, DotOf
  <2>4. items'[q] = IF q = r THEN items[q] \cup {i} ELSE items[q]
    BY <1>1, <1>2 DEF GLType
  <2>. QED BY <1>1, <2>1, <2>2, <2>3, <2>4
<1>. QED BY <1>3, <1>6, <1>8, <1>9, <1>10, <1>11, <1>12 DEF GLInv

\* A step that leaves the lists alone keeps the invariant if it sends only
\* items and records no item's dot.
LEMMA GLOtherStep ==
  ASSUME GLInv, CoreInv',
         \A s \in Replicas : local'[s] >= local[s],
         \A q, s \in Replicas : \A c \in 1..local[s] :
            c \in Covered(q, s)' <=> c \in Covered(q, s),
         UNCHANGED <<tracked, items, appended>>,
         \A m \in wire' : m \in wire \/ m \in [to : Replicas, via : {"push", "sync"}, delta : appended]
  PROVE  GLInv'
<1>1. ASSUME NEW j \in appended
      PROVE  j.dot.rep \in Replicas /\ j.dot.cnt \in 1..local[j.dot.rep]
  BY GLCore DEF GLInv, ItemsStamped, GLType, GL!Item, Dot
<1>2. GLType' /\ ItemsSent'
  BY DEF GLInv, GLType, ItemsSent
<1>3. ItemsStamped'
  <2>1. \A s \in Replicas : local[s] \in Nat /\ local'[s] \in Nat
    BY DEF GLInv, CoreInv, CoreType
  <2>. QED BY <1>1, <2>1 DEF ItemsStamped
<1>4. ItemsDiffer' /\ ItemsTracked'
  BY DEF GLInv, ItemsDiffer, ItemsTracked
<1>5. GL!HoldsWhatItRecorded'
  <2>. SUFFICES ASSUME NEW q \in Replicas
                PROVE  items[q] = {j \in appended : j.dot.cnt \in Covered(q, j.dot.rep)'}
    BY DEF GL!HoldsWhatItRecorded, GL!Covered, Covered
  <2>1. items[q] = {j \in appended : j.dot.cnt \in Covered(q, j.dot.rep)}
    BY DEF GLInv, GL!HoldsWhatItRecorded, GL!Covered, Covered
  <2>. QED BY <1>1, <2>1
<1>. QED BY <1>2, <1>3, <1>4, <1>5 DEF GLInv

\* GList.Append with a failing codec keeps the invariant: the dot it uses up is
\* no item's.
LEMMA GLAppendFailsStep ==
  ASSUME GLInv, NEW r \in Replicas, GL!AppendFails(r)
  PROVE  GLInv'
<1>1. StampDot(r) /\ UNCHANGED <<tracked, known, peerHWMs, wire, digests, items, appended>>
  BY GLCore DEF GL!AppendFails
<1>2. CoreInv /\ local \in [Replicas -> Nat]
  BY DEF GLInv, CoreInv, CoreType
<1>3. /\ CoreInv' /\ local' = [local EXCEPT ![r] = local[r] + 1]
      /\ Covered(r, r)' = Covered(r, r) \cup {local[r] + 1}
      /\ \A q, s \in Replicas : (q # r \/ s # r) => Covered(q, s)' = Covered(q, s)
  BY <1>1, <1>2, CoreStamp
<1>4. \A s \in Replicas : local'[s] >= local[s]
  BY <1>2, <1>3
<1>5. \A q, s \in Replicas : \A c \in 1..local[s] :
         c \in Covered(q, s)' <=> c \in Covered(q, s)
  BY <1>2, <1>3
<1>. QED BY <1>1, <1>3, <1>4, <1>5, GLOtherStep

\* gListState.Apply and applyDelta (glist.go:156-172, replica.go:136-157) keep
\* the invariant: the item and its dot are taken up together.
LEMMA GLReceiveDeltaStep ==
  ASSUME GLInv, NEW r \in Replicas, NEW m \in wire, GL!ReceiveDelta(r, m)
  PROVE  GLInv'
<1>. DEFINE i == m.delta
<1>1. CoreInv /\ GLType /\ i \in appended /\ i \in GL!Item /\ local \in [Replicas -> Nat]
  BY DEF GLInv, CoreInv, CoreType, GLType, ItemsSent
<1>2. i.dot \in Dot /\ i.dot.rep \in Replicas /\ i.dot.cnt \in 1..local[i.dot.rep]
  BY <1>1, GLCore DEF GLInv, ItemsStamped, GL!Item, Dot
<1>3. ASSUME NEW q \in Replicas
      PROVE  items[q] = {j \in appended : j.dot.cnt \in Covered(q, j.dot.rep)}
  BY DEF GLInv, GL!HoldsWhatItRecorded, GL!Covered, Covered
<1>. HIDE DEF i
<1>4. GL!Apply(r, i) = items[r] \cup {i}
  <2>1. ASSUME NEW j \in items[r], j.dot = i.dot PROVE j = i
    BY <1>1, <1>3, <2>1 DEF GLInv, ItemsDiffer
  <2>. QED BY <2>1 DEF GL!Apply, GL!Has
<1>5. /\ wire' \subseteq wire
      /\ items' = [items EXCEPT ![r] = @ \cup {i}]
      /\ RecordDots(r, Singleton(i.dot))
      /\ GL!TrackKey(r, i.dot, GL!Has(r, i.dot)')
      /\ UNCHANGED <<local, known, peerHWMs, digests, appended>>
  BY <1>2, <1>4, GLCore DEF GL!ReceiveDelta, GL!Remaining, i
<1>6. /\ Singleton(i.dot) \in VClock
      /\ Singleton(i.dot)[i.dot.rep] = i.dot.cnt
      /\ \A s \in Replicas \ {i.dot.rep} : Singleton(i.dot)[s] = 0
  BY <1>2 DEF Singleton, VClock, Dot
<1>7. \A s \in Replicas : local'[s] >= local[s] /\ Singleton(i.dot)[s] <= local'[s]
  BY <1>1, <1>2, <1>5, <1>6
<1>8. /\ CoreInv'
      /\ \A s \in Replicas : Covered(r, s)' = Covered(r, s) \cup
            (IF Singleton(i.dot)[s] = 0 THEN {} ELSE {Singleton(i.dot)[s]})
      /\ \A q \in Replicas \ {r}, s \in Replicas : Covered(q, s)' = Covered(q, s)
  BY <1>1, <1>5, <1>6, <1>7, CoreRecord
<1>9. /\ items' \in [Replicas -> SUBSET GL!Item] /\ items'[r] = items[r] \cup {i}
      /\ \A q \in Replicas \ {r} : items'[q] = items[q]
  BY <1>1, <1>5 DEF GLType
<1>10. tracked' = [tracked EXCEPT ![r] = @ \cup {i.dot}]
  <2>1. GL!Has(r, i.dot)'
    BY <1>9 DEF GL!Has, i
  <2>. QED BY <1>5, <2>1 DEF GL!TrackKey
<1>11. GLType' /\ ItemsSent' /\ ItemsStamped' /\ ItemsDiffer'
  BY <1>1, <1>2, <1>5, <1>9, <1>10
     DEF GLInv, GLType, ItemsSent, ItemsStamped, ItemsDiffer
<1>12. ItemsTracked'
  BY <1>1, <1>9, <1>10 DEF GLInv, ItemsTracked, GLType
<1>13. GL!HoldsWhatItRecorded'
  <2>. SUFFICES ASSUME NEW q \in Replicas
                PROVE  items'[q] = {j \in appended : j.dot.cnt \in Covered(q, j.dot.rep)'}
    BY <1>5 DEF GL!HoldsWhatItRecorded, GL!Covered, Covered
  <2>1. CASE q # r
    <3>1. \A j \in appended : j.dot.rep \in Replicas
      BY <1>1, GLCore DEF GLType, GL!Item, Dot
    <3>. QED BY <1>3, <1>8, <1>9, <2>1, <3>1
  <2>2. CASE q = r
    <3>1. ASSUME NEW j \in appended
          PROVE  j.dot.cnt \in Covered(r, j.dot.rep)'
                   <=> j.dot.cnt \in Covered(r, j.dot.rep) \/ j = i
      <4>1. j.dot \in Dot /\ j.dot.rep \in Replicas /\ (j.dot = i.dot => j = i)
        BY <1>1, GLCore DEF GLInv, ItemsDiffer, GLType, GL!Item, Dot
      <4>2. j.dot.cnt \in Covered(r, j.dot.rep)'
              <=> j.dot.cnt \in Covered(r, j.dot.rep) \/ j.dot = i.dot
        BY <1>2, <1>6, <1>8, <4>1 DEF Dot
      <4>. QED BY <4>1, <4>2
    <3>. QED BY <1>1, <1>3, <1>9, <2>2, <3>1
  <2>. QED BY <2>1, <2>2
<1>. QED BY <1>8, <1>11, <1>12, <1>13 DEF GLInv

\* Anti-entropy (replica.go:230-282) and lost messages keep the invariant.
LEMMA GLGossipStep ==
  ASSUME GLInv,
         \/ \E r \in Replicas : GL!SendDigests(r)
         \/ \E r \in Replicas, m \in digests : GL!ReceiveDigest(r, m)
         \/ GL!Lose
  PROVE  GLInv'
<1>1. CoreInv /\ local \in [Replicas -> Nat]
  BY DEF GLInv, CoreInv, CoreType
<1>. SUFFICES /\ CoreInv' /\ local' = local
              /\ \A q, s \in Replicas : Covered(q, s)' = Covered(q, s)
              /\ UNCHANGED <<tracked, items, appended>>
              /\ \A x \in wire' :
                   x \in wire \/ x \in [to : Replicas, via : {"push", "sync"}, delta : appended]
  BY <1>1, GLOtherStep
<1>2. ASSUME NEW r \in Replicas, GL!SendDigests(r)
      PROVE  /\ CoreInv' /\ \A q, s \in Replicas : Covered(q, s)' = Covered(q, s)
             /\ UNCHANGED <<local, tracked, items, appended, wire>>
  <2>1. /\ digests' = digests \cup {Digest(r, p) : p \in Peers(r)}
        /\ UNCHANGED <<local, hwm, pending, tracked, known, peerHWMs, wire, items, appended>>
    BY <1>2 DEF GL!SendDigests, GL!BroadcastDigest, GL!Digest, Digest, GL!Peers, Peers
  <2>. QED BY <1>1, <2>1, CoreBroadcast
<1>3. ASSUME NEW r \in Replicas, NEW m \in digests, GL!ReceiveDigest(r, m)
      PROVE  /\ CoreInv' /\ \A q, s \in Replicas : Covered(q, s)' = Covered(q, s)
             /\ UNCHANGED <<local, tracked, items, appended>>
             /\ \A x \in wire' :
                  x \in wire \/ x \in [to : Replicas, via : {"push", "sync"}, delta : appended]
  <2>1. /\ digests' \subseteq digests
        /\ known' = [known EXCEPT ![r] = @ \cup {m.from}]
        /\ peerHWMs' = [peerHWMs EXCEPT ![r][m.from] = m.hwm]
        /\ wire' \subseteq wire \cup [to : {m.from}, via : {"sync"}, delta : items[r]]
        /\ UNCHANGED <<local, hwm, pending, tracked, items, appended>>
    BY <1>3 DEF GL!ReceiveDigest, GL!AnswerDigest, GL!Remaining, GL!Syncs, GL!DeltasSince
  <2>2. items[r] \subseteq appended
    BY DEF GLInv, GL!HoldsWhatItRecorded
  <2>. QED BY <1>1, <2>1, <2>2, CoreAnswer
<1>4. ASSUME GL!Lose
      PROVE  /\ CoreInv' /\ \A q, s \in Replicas : Covered(q, s)' = Covered(q, s)
             /\ UNCHANGED <<local, tracked, items, appended>> /\ wire' \subseteq wire
  <2>1. /\ wire' \subseteq wire /\ digests' \subseteq digests
        /\ UNCHANGED <<local, hwm, pending, tracked, known, peerHWMs, items, appended>>
    BY <1>4 DEF GL!Lose, GL!LoseDelta, GL!LoseDigest
  <2>. QED BY <1>1, <2>1, CoreUnchanged
<1>. QED BY <1>2, <1>3, <1>4

\* Every step of a group of lists keeps the invariant.
LEMMA GLStep == GLInv /\ GL!Next => GLInv'
<1>. SUFFICES ASSUME GLInv, GL!Next PROVE GLInv'
  OBVIOUS
<1>1. CASE \E r \in Replicas, v \in Values : GL!Append(r, v)
  BY <1>1, GLAppendStep
<1>2. CASE \E r \in Replicas : GL!AppendFails(r)
  BY <1>2, GLAppendFailsStep
<1>3. CASE \E r \in Replicas, m \in wire : GL!ReceiveDelta(r, m)
  BY <1>3, GLReceiveDeltaStep
<1>4. CASE \/ \E r \in Replicas : GL!SendDigests(r)
           \/ \E r \in Replicas, m \in digests : GL!ReceiveDigest(r, m)
           \/ GL!Lose
  BY <1>4, GLGossipStep
<1>. QED BY <1>1, <1>2, <1>3, <1>4 DEF GL!Next

\* What a list with the invariant promises: its types, and that the answer to
\* a digest, however stale, has every item that its sender lacks.
LEMMA GLConsequences == GLInv => GL!TypeOK /\ GL!DigestAnswerComplete
<1>. SUFFICES ASSUME GLInv PROVE GL!TypeOK /\ GL!DigestAnswerComplete
  OBVIOUS
<1>1. GL!TypeOK
  BY GLCore DEF GLInv, CoreInv, CoreType, ReceivedType, GLType, GL!TypeOK
<1>2. ASSUME NEW m \in digests, NEW i \in items[m.to] \ items[m.from]
      PROVE  tracked[m.to] # {} /\ i.dot.cnt > m.hwm[i.dot.rep]
  <2>1. /\ m.to \in Replicas /\ m.from \in Replicas /\ m.hwm \in VClock
        /\ LTE(m.hwm, hwm[m.from])
    BY DEF GLInv, CoreInv, CoreType, ReportedMarksSound
  <2>2. /\ items[m.to] \subseteq appended
        /\ items[m.from] = {j \in appended : j.dot.cnt \in Covered(m.from, j.dot.rep)}
    BY <2>1 DEF GLInv, GL!HoldsWhatItRecorded, GL!Covered, Covered
  <2>3. i.dot.rep \in Replicas /\ i.dot.cnt \in 1..local[i.dot.rep]
    BY <2>2, GLCore DEF GLInv, ItemsStamped, GLType, GL!Item, Dot
  <2>4. /\ 1..hwm[m.from][i.dot.rep] \subseteq Covered(m.from, i.dot.rep)
        /\ hwm[m.from][i.dot.rep] \in Nat /\ local[i.dot.rep] \in Nat
    BY <2>1, <2>3, CoveredBounds DEF GLInv, CoreInv
  <2>5. i.dot.cnt \notin 1..hwm[m.from][i.dot.rep]
    BY <2>2, <2>4
  <2>6. m.hwm[i.dot.rep] \in Nat /\ m.hwm[i.dot.rep] <= hwm[m.from][i.dot.rep]
    BY <2>1, <2>3 DEF LTE, VClock
  <2>7. i.dot \in tracked[m.to]
    BY <2>1 DEF GLInv, ItemsTracked
  <2>. QED BY <2>3, <2>4, <2>5, <2>6, <2>7
<1>3. GL!DigestAnswerComplete
  BY <1>2 DEF GL!DigestAnswerComplete, GL!SameHash, GL!DeltasSince
<1>. QED BY <1>1, <1>3

-----------------------------------------------------------------------------
(* PNCounter.  The larger count wins although counts carry the dots of     *)
(* operations: that is sound because the operations of one replica on one  *)
(* side have increasing counts, as long as no count wraps around.          *)

\* Nobody can be asked for so much that a count wraps around.
NoWrapFor(A) == /\ Amounts \subseteq 0..A
                /\ \A r \in Replicas : MaxOps[r] * A < Modulus

NoWrap == \E A \in Nat : NoWrapFor(A)

PNEntry == [count : Nat, dot : Dot \cup {NoDot}]

PNType == /\ tracked \in [Replicas -> SUBSET {""}]
          /\ wire \subseteq [to : Replicas, via : {"push", "sync"}, delta : PN!Delta]
          /\ sides \in [Replicas -> [PN!Side -> [Replicas -> PNEntry]]]
          /\ asked \in [PN!Side -> [Replicas -> Nat]]
          /\ ops \subseteq PN!Delta

AskedWithin(A) == \A i \in PN!Side, s \in Replicas : asked[i][s] <= local[s] * A

\* An operation has a dot that its replica has stamped and brought its side to
\* no more than was asked for by now; no two have the same dot.
OpsSound == \A o \in ops : /\ o.dot.rep = o.rep
                           /\ o.dot.cnt \in 1..local[o.rep]
                           /\ o.count <= asked[o.side][o.rep]

OpsDiffer == \A o, p \in ops : o.dot = p.dot => o = p

OpsSent == \A m \in wire : m.delta \in ops

\* Every entry that has a dot is what some operation wrote.
EntriesWritten ==
    \A r, s \in Replicas, i \in PN!Side :
        sides[r][i][s].dot # NoDot => PN!PNDelta(i, s, sides[r][i][s]) \in ops

PNInv(A) == /\ CoreInv
            /\ PNType
            /\ AskedWithin(A)
            /\ OpsSound
            /\ OpsDiffer
            /\ OpsSent
            /\ EntriesWritten
            /\ PN!NoOverCount
            /\ PN!RecordedIsCounted

\* Every entry of a counter has a count and maybe a dot.
LEMMA PNEntryType ==
  ASSUME PNType, NEW r \in Replicas, NEW i \in PN!Side, NEW s \in Replicas
  PROVE  /\ sides[r][i][s] \in PNEntry
         /\ sides[r][i][s].count \in Nat
         /\ sides[r][i][s].dot \in Dot \cup {NoDot}
<1>1. sides[r] \in [PN!Side -> [Replicas -> PNEntry]]
  BY DEF PNType
<1>2. sides[r][i] \in [Replicas -> PNEntry]
  BY <1>1
<1>3. sides[r][i][s] \in PNEntry
  BY <1>2
<1>. QED BY <1>3 DEF PNEntry

\* The core of a counter is that of Replica, whatever its transport does.
LEMMA PNCore ==
  /\ PN!ShellInit => ShellInit
  /\ \A r \in Replicas : PN!StampDot(r) => StampDot(r)
  /\ \A r \in Replicas, d \in Dot :
        PN!RecordDots(r, PN!Singleton(d)) => RecordDots(r, Singleton(d))
  /\ PN!Dot = Dot /\ PN!VClock = VClock /\ PN!NoDot = NoDot
  /\ \A r \in Replicas : PN!NextDot(r) = DotOf(r, local[r] + 1)
<1>1. PN!ShellInit => ShellInit
  BY DEF PN!ShellInit, ShellInit, PN!EmptyClock, EmptyClock
<1>2. ASSUME NEW r \in Replicas, NEW dots, PN!RecordDots(r, dots)
      PROVE  RecordDots(r, dots)
  BY <1>2 DEF PN!RecordDots, RecordDots, PN!RecordHWM, RecordHWM,
              PN!RecordPending, RecordPending, PN!AdvanceHWM, AdvanceHWM
<1>3. \A d : PN!Singleton(d) = Singleton(d)
  BY DEF PN!Singleton, Singleton
<1>4. \A r \in Replicas : PN!NextDot(r) = DotOf(r, local[r] + 1)
  BY DEF PN!NextDot, PN!DotOf, DotOf
<1>5. ASSUME NEW r \in Replicas, PN!StampDot(r) PROVE StampDot(r)
  BY <1>2, <1>3, <1>4, <1>5 DEF PN!StampDot, StampDot, NextDot
<1>6. PN!Dot = Dot /\ PN!VClock = VClock /\ PN!NoDot = NoDot
  BY DEF PN!Dot, Dot, PN!VClock, VClock, PN!NoDot, NoDot
<1>. QED BY <1>1, <1>2, <1>3, <1>4, <1>5, <1>6

\* A new counter has counted nothing.
LEMMA PNInitial == ASSUME NEW A \in Nat PROVE PN!Init => PNInv(A)
<1>. SUFFICES ASSUME PN!Init PROVE PNInv(A)
  OBVIOUS
<1>1. /\ ShellInit /\ asked = [i \in PN!Side |-> [r \in Replicas |-> 0]] /\ ops = {}
      /\ sides = [r \in Replicas |-> [i \in PN!Side |-> [s \in Replicas |->
                     [count |-> 0, dot |-> NoDot]]]]
  BY PNCore DEF PN!Init, PN!NoEntry
<1>2. CoreInv
  BY <1>1, CoreInitial
<1>3. PNType
  BY <1>1 DEF ShellInit, PNType, PNEntry
<1>4. AskedWithin(A)
  BY <1>1 DEF ShellInit, AskedWithin
<1>5. OpsSound /\ OpsDiffer /\ OpsSent /\ EntriesWritten
  BY <1>1 DEF ShellInit, OpsSound, OpsDiffer, OpsSent, EntriesWritten
<1>6. PN!NoOverCount /\ PN!RecordedIsCounted
  BY <1>1 DEF PN!NoOverCount, PN!RecordedIsCounted
<1>. QED BY <1>2, <1>3, <1>4, <1>5, <1>6 DEF PNInv

\* One more operation of at most A, below the bound, cannot wrap around.
LEMMA SumBelowModulus ==
  ASSUME NEW A \in Nat, NEW n \in Nat, NEW k \in Nat, NEW c \in Nat, NEW a \in 0..A,
         NEW M \in Nat \ {0}, n < k, c <= n * A, k * A < M
  PROVE  (c + a) % M = c + a /\ c + a <= (n + 1) * A
<1>1. (n + 1) * A = n * A + A /\ n * A \in Nat /\ k * A \in Nat
  OBVIOUS
<1>2. (n + 1) * A <= k * A
  <2>1. PICK j \in Nat : k = (n + 1) + j
    <3>1. k - (n + 1) \in Nat
      OBVIOUS
    <3>. QED BY <3>1
  <2>2. k * A = (n + 1) * A + j * A /\ j * A >= 0
    BY <2>1
  <2>. QED BY <2>2
<1>3. c + a \in 0..M - 1
  BY <1>1, <1>2
<1>4. ASSUME NEW x \in 0..M - 1 PROVE x % M = x
  OBVIOUS
<1>. QED BY <1>1, <1>3, <1>4

\* Increment and Decrement (node.go, pncounter.go:41-58) keep the invariant.
LEMMA PNUpdateStep ==
  ASSUME NEW A \in Nat, NoWrapFor(A), PNInv(A),
         NEW r \in Replicas, NEW i \in PN!Side, NEW a \in Amounts, PN!Update(r, i, a)
  PROVE  PNInv(A)'
<1>. DEFINE n == local[r] + 1
            c == sides[r][i][r].count
            e == [count |-> c + a, dot |-> DotOf(r, n)]
            o == PN!PNDelta(i, r, e)
<1>1. CoreInv /\ PNType /\ local \in [Replicas -> Nat] /\ local[r] \in Nat
  BY DEF PNInv, CoreInv, CoreType
<1>2. /\ a \in 0..A /\ a \in Nat /\ c \in Nat /\ c = asked[i][r] /\ c <= local[r] * A
      /\ MaxOps[r] \in Nat /\ Modulus \in Nat \ {0} /\ local[r] < MaxOps[r]
  <2>1. a \in 0..A /\ MaxOps[r] \in Nat /\ Modulus \in Nat \ {0} /\ local[r] < MaxOps[r]
    BY NodeAssumption DEF PN!Update, NoWrapFor
  <2>2. c = asked[i][r] /\ asked[i][r] <= local[r] * A /\ asked[i][r] \in Nat
    BY DEF PNInv, PNType, PN!NoOverCount, AskedWithin
  <2>. QED BY <2>1, <2>2
<1>3. (c + a) % Modulus = c + a /\ c + a <= n * A
  <2>1. MaxOps[r] * A < Modulus
    BY DEF NoWrapFor
  <2>. QED BY <1>1, <1>2, <2>1, SumBelowModulus
<1>4. PN!Added(r, i, a) = e
  BY <1>3, PNCore DEF PN!Added
<1>5. /\ StampDot(r)
      /\ sides' = [sides EXCEPT ![r][i][r] = e]
      /\ tracked' = [tracked EXCEPT ![r] = @ \ {""}]
      /\ wire' = wire \cup [to : Replicas \ {r}, via : {"push"}, delta : {o}]
      /\ asked' = [asked EXCEPT ![i][r] = @ + a]
      /\ ops' = ops \cup {o}
      /\ known' = known /\ peerHWMs' = peerHWMs /\ digests' = digests
  BY <1>4, PNCore DEF PN!Update, PN!TrackKey, PN!Present, PN!Propagate, PN!Pushes, PN!Peers
<1>. HIDE DEF c, e, o
<1>6. /\ CoreInv' /\ n \in Nat /\ n >= 1
      /\ local' = [local EXCEPT ![r] = n]
      /\ Covered(r, r)' = Covered(r, r) \cup {n}
      /\ \A q, s \in Replicas : (q # r \/ s # r) => Covered(q, s)' = Covered(q, s)
  <2>1. StampDot(r) /\ known' = known /\ peerHWMs' = peerHWMs /\ digests' = digests
    BY <1>5
  <2>. QED BY <1>1, <2>1, CoreStamp
<1>7. \A q, s \in Replicas : Covered(q, s) \subseteq 1..local[s]
  BY <1>1, CoveredBounds DEF CoreInv
<1>. HIDE DEF n
<1>8. /\ o \in PN!Delta /\ e \in PNEntry
      /\ o.side = i /\ o.rep = r /\ o.count = c + a /\ o.dot = DotOf(r, n)
  BY <1>2, <1>6, PNCore DEF PN!Delta, PN!PNDelta, PNEntry, Dot, DotOf, e, o
<1>9. /\ sides' \in [Replicas -> [PN!Side -> [Replicas -> PNEntry]]]
      /\ sides'[r][i][r] = e
      /\ \A q, s \in Replicas, j \in PN!Side :
            (q # r \/ s # r \/ j # i) => sides'[q][j][s] = sides[q][j][s]
  <2>. DEFINE row == [sides[r][i] EXCEPT ![r] = e]
              both == [sides[r] EXCEPT ![i] = row]
  <2>1. sides \in [Replicas -> [PN!Side -> [Replicas -> PNEntry]]] /\ e \in PNEntry
    BY <1>1, <1>8 DEF PNType
  <2>2. /\ row \in [Replicas -> PNEntry] /\ row[r] = e
        /\ \A s \in Replicas : s # r => row[s] = sides[r][i][s]
    BY <2>1
  <2>3. sides' = [sides EXCEPT ![r] = both]
    BY <1>5
  <2>. HIDE DEF row
  <2>4. /\ both \in [PN!Side -> [Replicas -> PNEntry]] /\ both[i] = row
        /\ \A j \in PN!Side : j # i => both[j] = sides[r][j]
    BY <2>1, <2>2
  <2>. HIDE DEF both
  <2>5. /\ sides' \in [Replicas -> [PN!Side -> [Replicas -> PNEntry]]] /\ sides'[r] = both
        /\ \A q \in Replicas : q # r => sides'[q] = sides[q]
    BY <2>1, <2>3, <2>4
  <2>. QED BY <2>2, <2>4, <2>5
<1>10. /\ asked' \in [PN!Side -> [Replicas -> Nat]]
       /\ asked'[i][r] = c + a
       /\ \A s \in Replicas, j \in PN!Side : (s # r \/ j # i) => asked'[j][s] = asked[j][s]
  <2>1. asked \in [PN!Side -> [Replicas -> Nat]] /\ c + a \in Nat
    <3>1. asked \in [PN!Side -> [Replicas -> Nat]]
      BY <1>1 DEF PNType
    <3>2. c + a \in Nat
      BY <1>2
    <3>. QED BY <3>1, <3>2
  <2>2. asked' = [asked EXCEPT ![i][r] = c + a]
    BY <1>2, <1>5
  <2>. QED BY <2>1, <2>2
<1>11. PNType'
  BY <1>1, <1>5, <1>8, <1>9, <1>10 DEF PNType
<1>12. AskedWithin(A)'
  <2>. SUFFICES ASSUME NEW j \in PN!Side, NEW s \in Replicas
                PROVE  asked'[j][s] <= local'[s] * A
    BY DEF AskedWithin
  <2>1. asked[j][s] <= local[s] * A /\ asked[j][s] \in Nat
    BY <1>1 DEF PNInv, AskedWithin, PNType
  <2>2. CASE s = r /\ j = i
    BY <1>1, <1>3, <1>6, <1>10, <2>2
  <2>3. CASE s = r /\ j # i
    <3>1. n * A = local[r] * A + A /\ local[r] * A \in Nat
      BY <1>1 DEF n
    <3>. QED BY <1>1, <1>6, <1>10, <2>1, <2>3, <3>1
  <2>4. CASE s # r
    BY <1>1, <1>6, <1>10, <2>1, <2>4
  <2>. QED BY <2>2, <2>3, <2>4
<1>13. ASSUME NEW p \in ops
       PROVE  /\ p.side \in PN!Side /\ p.rep \in Replicas /\ p.count \in Nat /\ p.dot \in Dot
              /\ p.dot.rep = p.rep /\ p.dot.cnt \in 1..local[p.rep]
              /\ p.count <= asked[p.side][p.rep] /\ p.dot # o.dot
  <2>1. /\ p.side \in PN!Side /\ p.rep \in Replicas /\ p.count \in Nat /\ p.dot \in Dot
        /\ p.dot.rep = p.rep /\ p.dot.cnt \in 1..local[p.rep]
        /\ p.count <= asked[p.side][p.rep]
    BY <1>1, PNCore DEF PNInv, OpsSound, PNType, PN!Delta
  <2>2. p.dot # o.dot
    BY <1>1, <1>8, <2>1 DEF n, DotOf
  <2>. QED BY <2>1, <2>2
<1>14. \A j \in PN!Side, s \in Replicas :
          /\ asked[j][s] \in Nat /\ asked'[j][s] \in Nat /\ asked'[j][s] >= asked[j][s]
          /\ local[s] \in Nat /\ local'[s] \in Nat /\ local'[s] >= local[s]
  <2>1. \A s \in Replicas : local[s] \in Nat /\ local'[s] \in Nat /\ local'[s] >= local[s]
    BY <1>1, <1>6 DEF n
  <2>2. ASSUME NEW j \in PN!Side, NEW s \in Replicas
        PROVE  asked[j][s] \in Nat /\ asked'[j][s] \in Nat /\ asked'[j][s] >= asked[j][s]
    <3>1. asked[j][s] \in Nat /\ asked'[j][s] \in Nat
      BY <1>1, <1>10 DEF PNType
    <3>. QED BY <1>2, <1>10, <3>1
  <2>. QED BY <2>1, <2>2
<1>15. OpsSound'
  <2>. SUFFICES ASSUME NEW p \in ops'
                PROVE  /\ p.dot.rep = p.rep /\ p.dot.cnt \in 1..local'[p.rep]
                       /\ p.count <= asked'[p.side][p.rep]
    BY DEF OpsSound
  <2>1. CASE p \in ops
    BY <1>13, <1>14, <2>1
  <2>2. CASE p = o
    BY <1>1, <1>2, <1>6, <1>8, <1>10, <2>2 DEF DotOf
  <2>. QED BY <1>5, <2>1, <2>2
<1>16. OpsDiffer'
  BY <1>5, <1>13 DEF PNInv, OpsDiffer
<1>17. OpsSent'
  BY <1>5 DEF PNInv, OpsSent
<1>18. EntriesWritten'
  <2>. SUFFICES ASSUME NEW q \in Replicas, NEW s \in Replicas, NEW j \in PN!Side,
                       sides'[q][j][s].dot # NoDot
                PROVE  PN!PNDelta(j, s, sides'[q][j][s]) \in ops'
    BY DEF EntriesWritten
  <2>1. ops' = ops \cup {o}
    BY <1>5
  <2>2. CASE q = r /\ s = r /\ j = i
    BY <1>9, <2>1, <2>2 DEF o
  <2>3. CASE ~(q = r /\ s = r /\ j = i)
    <3>1. sides'[q][j][s] = sides[q][j][s]
      BY <1>9, <2>3
    <3>. QED BY <2>1, <3>1 DEF PNInv, EntriesWritten
  <2>. QED BY <2>2, <2>3
<1>19. PN!NoOverCount'
  <2>1. ASSUME NEW j \in PN!Side, NEW s \in Replicas, NEW q \in Replicas
        PROVE  sides'[s][j][s].count = asked'[j][s] /\ sides'[q][j][s].count <= asked'[j][s]
    <3>1. sides[s][j][s].count = asked[j][s] /\ sides[q][j][s].count <= asked[j][s]
      BY DEF PNInv, PN!NoOverCount
    <3>2. sides[q][j][s].count \in Nat
      BY <1>1, PNEntryType
    <3>3. CASE s = r /\ j = i
      <4>1. sides'[r][i][r].count = c + a /\ asked'[i][r] = c + a
        BY <1>9, <1>10 DEF e
      <4>2. CASE q = r
        BY <1>2, <3>3, <4>1, <4>2
      <4>3. CASE q # r
        BY <1>2, <1>9, <3>1, <3>2, <3>3, <4>1, <4>3
      <4>. QED BY <4>2, <4>3
    <3>4. CASE ~(s = r /\ j = i)
      BY <1>9, <1>10, <3>1, <3>4
    <3>. QED BY <3>3, <3>4
  <2>. QED BY <2>1 DEF PN!NoOverCount
<1>20. PN!RecordedIsCounted'
  <2>. SUFFICES ASSUME NEW q \in Replicas, NEW p \in ops',
                       p.dot.cnt \in Covered(q, p.dot.rep)'
                PROVE  sides'[q][p.side][p.rep].count >= p.count
    BY DEF PN!RecordedIsCounted, PN!Covered, Covered
  <2>1. CASE p \in ops
    <3>1. p.dot.cnt \in Covered(q, p.dot.rep)
      BY <1>1, <1>6, <1>13, <2>1 DEF n
    <3>2. sides[q][p.side][p.rep].count >= p.count
      BY <2>1, <3>1 DEF PNInv, PN!RecordedIsCounted, PN!Covered, Covered
    <3>3. CASE q = r /\ p.side = i /\ p.rep = r
      <4>1. c >= p.count /\ p.count \in Nat
        BY <1>13, <2>1, <3>2, <3>3 DEF c
      <4>. QED BY <1>2, <1>9, <3>3, <4>1 DEF e
    <3>4. CASE ~(q = r /\ p.side = i /\ p.rep = r)
      BY <1>9, <1>13, <2>1, <3>2, <3>4
    <3>. QED BY <3>3, <3>4
  <2>2. CASE p = o
    <3>1. p.side = i /\ p.rep = r /\ p.count = c + a /\ p.dot.rep = r /\ p.dot.cnt = n
      BY <1>8, <2>2 DEF DotOf
    <3>2. q = r
      BY <1>1, <1>6, <1>7, <3>1 DEF n
    <3>. QED BY <1>2, <1>9, <3>1, <3>2 DEF e
  <2>. QED BY <1>5, <2>1, <2>2
<1>. QED BY <1>6, <1>11, <1>12, <1>15, <1>16, <1>17, <1>18, <1>19, <1>20 DEF PNInv

\* pnCounterState.Apply and applyDelta (pncounter.go:150-175, replica.go:136-157)
\* keep the invariant: a delta that is refused says nothing new.
LEMMA PNReceiveDeltaStep ==
  ASSUME NEW A \in Nat, PNInv(A), NEW r \in Replicas, NEW m \in wire, PN!ReceiveDelta(r, m)
  PROVE  PNInv(A)'
<1>. DEFINE d == m.delta
            old == sides[r][d.side][d.rep]
            e == IF d.count > old.count THEN [count |-> d.count, dot |-> d.dot] ELSE old
<1>1. CoreInv /\ PNType /\ local \in [Replicas -> Nat] /\ d \in ops
  BY DEF PNInv, CoreInv, CoreType, OpsSent
<1>2. ASSUME NEW o \in ops
      PROVE  /\ o.side \in PN!Side /\ o.rep \in Replicas /\ o.count \in Nat /\ o.dot \in Dot
             /\ o.dot.rep = o.rep /\ o.dot.cnt \in 1..local[o.rep]
             /\ o.count <= asked[o.side][o.rep]
             /\ o = [side |-> o.side, rep |-> o.rep, count |-> o.count, dot |-> o.dot]
  BY <1>1, PNCore DEF PNInv, OpsSound, PNType, PN!Delta
<1>. HIDE DEF d
<1>3. /\ wire' \subseteq wire
      /\ sides' = [sides EXCEPT ![r] = PN!Apply(r, d)]
      /\ RecordDots(r, Singleton(d.dot))
      /\ tracked' = [tracked EXCEPT ![r] = @ \ {""}]
      /\ UNCHANGED <<local, known, peerHWMs, digests, asked, ops>>
  BY <1>1, <1>2, PNCore DEF PN!ReceiveDelta, PN!Remaining, PN!TrackKey, PN!Present, d
<1>4. old \in PNEntry /\ old.count \in Nat
  BY <1>1, <1>2, PNEntryType
<1>5. /\ e \in PNEntry /\ e.count \in Nat /\ e.count >= d.count /\ e.count >= old.count
      /\ e.count = d.count \/ e.count = old.count
      /\ e = old \/ PN!PNDelta(d.side, d.rep, e) = d
  BY <1>1, <1>2, <1>4 DEF PNEntry, PN!PNDelta
<1>6. /\ sides' \in [Replicas -> [PN!Side -> [Replicas -> PNEntry]]]
      /\ sides'[r][d.side][d.rep] = e
      /\ \A q, s \in Replicas, j \in PN!Side :
            (q # r \/ s # d.rep \/ j # d.side) => sides'[q][j][s] = sides[q][j][s]
  <2>. DEFINE row == [sides[r][d.side] EXCEPT ![d.rep] = e]
              both == [sides[r] EXCEPT ![d.side] = row]
  <2>1. d.side \in PN!Side /\ d.rep \in Replicas
    BY <1>1, <1>2
  <2>2. /\ sides[r] \in [PN!Side -> [Replicas -> PNEntry]]
        /\ sides \in [Replicas -> [PN!Side -> [Replicas -> PNEntry]]]
    BY <1>1 DEF PNType
  <2>3. sides[r][d.side] \in [Replicas -> PNEntry]
    BY <2>1, <2>2
  <2>4. PN!Apply(r, d) = both
    <3>1. CASE d.count > old.count
      BY <3>1 DEF PN!Apply
    <3>2. CASE ~(d.count > old.count)
      <4>1. row = sides[r][d.side]
        BY <2>1, <2>3, <3>2
      <4>2. both = sides[r]
        BY <2>1, <2>2, <4>1
      <4>. QED BY <3>2, <4>2 DEF PN!Apply
    <3>. QED BY <3>1, <3>2
  <2>. HIDE DEF e
  <2>5. /\ row \in [Replicas -> PNEntry] /\ row[d.rep] = e
        /\ \A s \in Replicas : s # d.rep => row[s] = sides[r][d.side][s]
    BY <1>5, <2>1, <2>3
  <2>. HIDE DEF row
  <2>6. /\ both \in [PN!Side -> [Replicas -> PNEntry]] /\ both[d.side] = row
        /\ \A j \in PN!Side : j # d.side => both[j] = sides[r][j]
    BY <2>1, <2>2, <2>5
  <2>. HIDE DEF both
  <2>7. /\ sides' \in [Replicas -> [PN!Side -> [Replicas -> PNEntry]]] /\ sides'[r] = both
        /\ \A q \in Replicas : q # r => sides'[q] = sides[q]
    BY <1>3, <2>2, <2>4, <2>6
  <2>. QED BY <2>5, <2>6, <2>7
<1>. HIDE DEF e, old
<1>7. /\ Singleton(d.dot) \in VClock
      /\ Singleton(d.dot)[d.rep] = d.dot.cnt
      /\ \A s \in Replicas \ {d.rep} : Singleton(d.dot)[s] = 0
  BY <1>1, <1>2 DEF Singleton, VClock, Dot
<1>8. \A s \in Replicas : local'[s] >= local[s] /\ Singleton(d.dot)[s] <= local'[s]
  <2>1. local' = local /\ \A s \in Replicas : local[s] \in Nat
    BY <1>1, <1>3
  <2>. QED BY <1>1, <1>2, <1>7, <2>1
<1>9. /\ CoreInv'
      /\ \A s \in Replicas : Covered(r, s)' = Covered(r, s) \cup
            (IF Singleton(d.dot)[s] = 0 THEN {} ELSE {Singleton(d.dot)[s]})
      /\ \A q \in Replicas \ {r}, s \in Replicas : Covered(q, s)' = Covered(q, s)
  <2>1. /\ RecordDots(r, Singleton(d.dot)) /\ local' \in [Replicas -> Nat]
        /\ known' = known /\ peerHWMs' = peerHWMs /\ digests' = digests
    BY <1>1, <1>3
  <2>. QED BY <1>1, <1>7, <1>8, <2>1, CoreRecord
<1>10. PNType'
  <2>1. tracked' \in [Replicas -> SUBSET {""}]
    BY <1>1, <1>3 DEF PNType
  <2>2. wire' \subseteq wire /\ asked' = asked /\ ops' = ops
    BY <1>3
  <2>. QED BY <1>1, <1>6, <2>1, <2>2 DEF PNType
<1>11. AskedWithin(A)' /\ OpsSound' /\ OpsDiffer' /\ OpsSent'
  <2>1. wire' \subseteq wire /\ asked' = asked /\ ops' = ops /\ local' = local
    BY <1>3
  <2>. QED BY <2>1 DEF PNInv, AskedWithin, OpsSound, OpsDiffer, OpsSent
<1>12. EntriesWritten'
  <2>. SUFFICES ASSUME NEW q \in Replicas, NEW s \in Replicas, NEW j \in PN!Side,
                       sides'[q][j][s].dot # NoDot
                PROVE  PN!PNDelta(j, s, sides'[q][j][s]) \in ops
    BY <1>3 DEF EntriesWritten
  <2>1. CASE sides'[q][j][s] = sides[q][j][s]
    BY <2>1 DEF PNInv, EntriesWritten
  <2>2. CASE sides'[q][j][s] # sides[q][j][s]
    <3>1. q = r /\ s = d.rep /\ j = d.side
      BY <1>6, <2>2
    <3>2. e # old
      BY <1>6, <2>2, <3>1 DEF old
    <3>. QED BY <1>1, <1>5, <1>6, <3>1, <3>2
  <2>. QED BY <2>1, <2>2
<1>13. PN!NoOverCount'
  <2>1. ASSUME NEW j \in PN!Side, NEW s \in Replicas, NEW q \in Replicas
        PROVE  sides'[s][j][s].count = asked[j][s] /\ sides'[q][j][s].count <= asked[j][s]
    <3>1. sides[s][j][s].count = asked[j][s] /\ sides[q][j][s].count <= asked[j][s]
      BY DEF PNInv, PN!NoOverCount
    <3>2. asked[j][s] \in Nat
      BY <1>1 DEF PNType
    <3>3. CASE s = d.rep /\ j = d.side
      <4>1. d.count <= asked[j][s] /\ d.count \in Nat
        BY <1>1, <1>2, <3>3
      <4>2. sides'[q][j][s].count <= asked[j][s]
        <5>1. CASE q = r
          BY <1>4, <1>5, <1>6, <3>1, <3>2, <3>3, <4>1, <5>1 DEF old
        <5>2. CASE q # r
          BY <1>6, <3>1, <5>2
        <5>. QED BY <5>1, <5>2
      <4>3. sides'[s][j][s].count = asked[j][s]
        <5>1. CASE s = r
          <6>1. old.count = asked[j][s]
            BY <3>1, <3>3, <5>1 DEF old
          <6>2. e.count = asked[j][s]
            BY <1>5, <3>2, <4>1, <6>1
          <6>. QED BY <1>6, <3>3, <5>1, <6>2
        <5>2. CASE s # r
          BY <1>6, <3>1, <5>2
        <5>. QED BY <5>1, <5>2
      <4>. QED BY <4>2, <4>3
    <3>4. CASE ~(s = d.rep /\ j = d.side)
      BY <1>6, <3>1, <3>4
    <3>. QED BY <3>3, <3>4
  <2>2. asked' = asked
    BY <1>3
  <2>. QED BY <2>1, <2>2 DEF PN!NoOverCount
<1>14. PN!RecordedIsCounted'
  <2>. SUFFICES ASSUME NEW q \in Replicas, NEW o \in ops,
                       o.dot.cnt \in Covered(q, o.dot.rep)'
                PROVE  sides'[q][o.side][o.rep].count >= o.count
    BY <1>3 DEF PN!RecordedIsCounted, PN!Covered, Covered
  <2>1. CASE o.dot.cnt \in Covered(q, o.dot.rep)
    <3>1. sides[q][o.side][o.rep].count >= o.count
      BY <2>1 DEF PNInv, PN!RecordedIsCounted, PN!Covered, Covered
    <3>2. CASE q = r /\ o.rep = d.rep /\ o.side = d.side
      BY <1>2, <1>4, <1>5, <1>6, <3>1, <3>2 DEF old
    <3>3. CASE ~(q = r /\ o.rep = d.rep /\ o.side = d.side)
      BY <1>2, <1>6, <3>1, <3>3
    <3>. QED BY <3>2, <3>3
  <2>2. CASE o.dot.cnt \notin Covered(q, o.dot.rep)
    <3>1. q = r /\ o.rep = d.rep /\ o.dot.cnt = d.dot.cnt
      BY <1>2, <1>7, <1>9, <2>2
    <3>2. o.dot = d.dot
      BY <1>1, <1>2, <3>1 DEF Dot
    <3>3. o = d
      BY <1>1, <3>2 DEF PNInv, OpsDiffer
    <3>. QED BY <1>5, <1>6, <3>1, <3>3
  <2>. QED BY <2>1, <2>2
<1>. QED BY <1>9, <1>10, <1>11, <1>12, <1>13, <1>14 DEF PNInv

\* Anti-entropy and lost messages keep the invariant.
LEMMA PNGossipStep ==
  ASSUME NEW A \in Nat, PNInv(A),
         \/ \E r \in Replicas : PN!SendDigests(r)
         \/ \E r \in Replicas, m \in digests : PN!ReceiveDigest(r, m)
         \/ PN!Lose
  PROVE  PNInv(A)'
<1>1. CoreInv /\ PNType
  BY DEF PNInv
<1>2. ASSUME NEW r \in Replicas, PN!SendDigests(r)
      PROVE  /\ CoreInv' /\ \A q, s \in Replicas : Covered(q, s)' = Covered(q, s)
             /\ UNCHANGED <<local, tracked, sides, asked, ops, wire>>
  <2>1. /\ digests' = digests \cup {Digest(r, p) : p \in Peers(r)}
        /\ UNCHANGED <<local, hwm, pending, tracked, known, peerHWMs, wire, sides, asked, ops>>
    BY <1>2 DEF PN!SendDigests, PN!BroadcastDigest, PN!Digest, Digest, PN!Peers, Peers
  <2>. QED BY <1>1, <2>1, CoreBroadcast
<1>3. ASSUME NEW r \in Replicas, NEW m \in digests, PN!ReceiveDigest(r, m)
      PROVE  /\ CoreInv' /\ \A q, s \in Replicas : Covered(q, s)' = Covered(q, s)
             /\ UNCHANGED <<local, tracked, sides, asked, ops>>
             /\ \A x \in wire' :
                  x \in wire \/ x \in [to : Replicas, via : {"push", "sync"}, delta : ops]
  <2>. DEFINE sent == PN!DeltasSince(r, m.hwm)
  <2>1. sent \subseteq ops
    BY PNCore DEF PN!DeltasSince, PNInv, EntriesWritten
  <2>2. /\ digests' \subseteq digests
        /\ known' = [known EXCEPT ![r] = @ \cup {m.from}]
        /\ peerHWMs' = [peerHWMs EXCEPT ![r][m.from] = m.hwm]
        /\ wire' \subseteq wire \cup [to : {m.from}, via : {"sync"}, delta : sent]
        /\ UNCHANGED <<local, hwm, pending, tracked, sides, asked, ops>>
    BY <1>3 DEF PN!ReceiveDigest, PN!AnswerDigest, PN!Remaining, PN!Syncs
  <2>. HIDE DEF sent
  <2>. QED BY <1>1, <2>1, <2>2, CoreAnswer
<1>4. ASSUME PN!Lose
      PROVE  /\ CoreInv' /\ \A q, s \in Replicas : Covered(q, s)' = Covered(q, s)
             /\ UNCHANGED <<local, tracked, sides, asked, ops>> /\ wire' \subseteq wire
  <2>1. /\ wire' \subseteq wire /\ digests' \subseteq digests
        /\ UNCHANGED <<local, hwm, pending, tracked, known, peerHWMs, sides, asked, ops>>
    BY <1>4 DEF PN!Lose, PN!LoseDelta, PN!LoseDigest
  <2>. QED BY <1>1, <2>1, CoreUnchanged
<1>5. /\ CoreInv' /\ \A q, s \in Replicas : Covered(q, s)' = Covered(q, s)
      /\ UNCHANGED <<local, tracked, sides, asked, ops>>
      /\ \A x \in wire' :
           x \in wire \/ x \in [to : Replicas, via : {"push", "sync"}, delta : ops]
  BY <1>2, <1>3, <1>4
<1>6. PNType' /\ OpsSent'
  BY <1>5 DEF PNInv, PNType, OpsSent
<1>7. AskedWithin(A)' /\ OpsSound' /\ OpsDiffer' /\ EntriesWritten'
  BY <1>5 DEF PNInv, AskedWithin, OpsSound, OpsDiffer, EntriesWritten
<1>8. PN!NoOverCount'
  BY <1>5 DEF PNInv, PN!NoOverCount
<1>9. PN!RecordedIsCounted'
  <2>. SUFFICES ASSUME NEW q \in Replicas, NEW o \in ops,
                       o.dot.cnt \in Covered(q, o.dot.rep)'
                PROVE  sides[q][o.side][o.rep].count >= o.count
    BY <1>5 DEF PN!RecordedIsCounted, PN!Covered, Covered
  <2>1. o.dot.rep \in Replicas
    BY <1>1, PNCore DEF PNType, PN!Delta, Dot
  <2>2. o.dot.cnt \in Covered(q, o.dot.rep)
    BY <1>5, <2>1
  <2>. QED BY <2>2 DEF PNInv, PN!RecordedIsCounted, PN!Covered, Covered
<1>. QED BY <1>5, <1>6, <1>7, <1>8, <1>9 DEF PNInv

\* Every step of a group of counters keeps the invariant.
LEMMA PNStep ==
  ASSUME NEW A \in Nat, NoWrapFor(A), PNInv(A), PN!Next
  PROVE  PNInv(A)'
<1>1. CASE \E r \in Replicas, i \in PN!Side, a \in Amounts : PN!Update(r, i, a)
  BY <1>1, PNUpdateStep
<1>2. CASE \E r \in Replicas, m \in wire : PN!ReceiveDelta(r, m)
  BY <1>2, PNReceiveDeltaStep
<1>3. CASE \/ \E r \in Replicas : PN!SendDigests(r)
           \/ \E r \in Replicas, m \in digests : PN!ReceiveDigest(r, m)
           \/ PN!Lose
  BY <1>3, PNGossipStep
<1>. QED BY <1>1, <1>2, <1>3 DEF PN!Next

\* The types need no bound on the counts: a count that wraps around is one
\* still.  What they need is that dots, of entries and in flight, are stamped.
DotsStamped ==
    /\ \A m \in wire : m.delta.dot.cnt \in 1..local[m.delta.dot.rep]
    /\ \A r, s \in Replicas, i \in PN!Side :
          LET y == sides[r][i][s].dot IN y # NoDot => y.cnt \in 1..local[y.rep]

PNTyped == CoreInv /\ PNType /\ DotsStamped

\* Entry e is stored for s on side i of r.
Stores(r, i, s, e) == sides' = [sides EXCEPT ![r][i][s] = e]

\* Storing an entry keeps the sides a table of entries.
LEMMA PNStore ==
  ASSUME PNType, NEW r \in Replicas, NEW i \in PN!Side, NEW s \in Replicas, NEW e \in PNEntry,
         Stores(r, i, s, e)
  PROVE  /\ sides' \in [Replicas -> [PN!Side -> [Replicas -> PNEntry]]]
         /\ \A q, t \in Replicas, j \in PN!Side :
               sides'[q][j][t] = e \/ sides'[q][j][t] = sides[q][j][t]
<1>. DEFINE row == [sides[r][i] EXCEPT ![s] = e]
            both == [sides[r] EXCEPT ![i] = row]
<1>1. sides \in [Replicas -> [PN!Side -> [Replicas -> PNEntry]]]
  BY DEF PNType
<1>2. /\ row \in [Replicas -> PNEntry]
      /\ \A t \in Replicas : row[t] = e \/ row[t] = sides[r][i][t]
  BY <1>1
<1>3. sides' = [sides EXCEPT ![r] = both]
  BY DEF Stores
<1>. HIDE DEF row
<1>4. /\ both \in [PN!Side -> [Replicas -> PNEntry]]
      /\ \A j \in PN!Side : both[j] = IF j = i THEN row ELSE sides[r][j]
  BY <1>1, <1>2
<1>. HIDE DEF both
<1>5. /\ sides' \in [Replicas -> [PN!Side -> [Replicas -> PNEntry]]]
      /\ \A q \in Replicas : sides'[q] = IF q = r THEN both ELSE sides[q]
  BY <1>1, <1>3, <1>4
<1>. QED BY <1>2, <1>4, <1>5

\* Increment and Decrement keep the types, whatever the amounts.
LEMMA PNUpdateTyped ==
  ASSUME PNTyped, NEW r \in Replicas, NEW i \in PN!Side, NEW a \in Amounts, PN!Update(r, i, a)
  PROVE  PNTyped'
<1>. DEFINE n == local[r] + 1
            e == PN!Added(r, i, a)
            o == PN!PNDelta(i, r, e)
<1>1. /\ CoreInv /\ PNType /\ DotsStamped
      /\ local \in [Replicas -> Nat] /\ local[r] \in Nat /\ n \in 1..n
  BY DEF PNTyped, CoreInv, CoreType
<1>2. e = [count |-> (sides[r][i][r].count + a) % Modulus, dot |-> DotOf(r, n)]
  BY PNCore DEF PN!Added
<1>3. /\ StampDot(r)
      /\ sides' = [sides EXCEPT ![r][i][r] = e]
      /\ tracked' = [tracked EXCEPT ![r] = @ \ {""}]
      /\ wire' = wire \cup [to : Replicas \ {r}, via : {"push"}, delta : {o}]
      /\ asked' = [asked EXCEPT ![i][r] = @ + a]
      /\ ops' = ops \cup {o}
      /\ known' = known /\ peerHWMs' = peerHWMs /\ digests' = digests
  BY PNCore DEF PN!Update, PN!TrackKey, PN!Present, PN!Propagate, PN!Pushes, PN!Peers
<1>4. (sides[r][i][r].count + a) % Modulus \in Nat /\ a \in Nat
  <2>1. sides[r][i][r].count \in Nat /\ a \in Nat /\ Modulus \in Nat \ {0}
    BY <1>1, PNEntryType, NodeAssumption
  <2>. QED BY <2>1
<1>5. e \in PNEntry /\ e.dot = DotOf(r, n) /\ DotOf(r, n) \in Dot
  BY <1>1, <1>2, <1>4 DEF PNEntry, Dot, DotOf
<1>. HIDE DEF e
<1>6. o \in PN!Delta /\ o.dot = DotOf(r, n)
  BY <1>5, PNCore DEF PN!Delta, PN!PNDelta, PNEntry
<1>. HIDE DEF o
<1>7. CoreInv' /\ local' = [local EXCEPT ![r] = n]
  BY <1>1, <1>3, CoreStamp
<1>8. /\ sides' \in [Replicas -> [PN!Side -> [Replicas -> PNEntry]]]
      /\ \A q, t \in Replicas, j \in PN!Side :
            sides'[q][j][t] = e \/ sides'[q][j][t] = sides[q][j][t]
  <2>1. PICK x : x = e
    OBVIOUS
  <2>2. PNType /\ x \in PNEntry /\ Stores(r, i, r, x)
    BY <1>1, <1>3, <1>5, <2>1 DEF Stores
  <2>3. /\ sides' \in [Replicas -> [PN!Side -> [Replicas -> PNEntry]]]
        /\ \A q, t \in Replicas, j \in PN!Side :
              sides'[q][j][t] = x \/ sides'[q][j][t] = sides[q][j][t]
    BY <2>2, PNStore
  <2>. QED BY <2>1, <2>3
<1>9. PNType'
  <2>1. asked' \in [PN!Side -> [Replicas -> Nat]]
    <3>1. asked \in [PN!Side -> [Replicas -> Nat]] /\ asked[i][r] + a \in Nat
      <4>1. asked \in [PN!Side -> [Replicas -> Nat]]
        BY <1>1 DEF PNType
      <4>2. asked[i] \in [Replicas -> Nat]
        BY <4>1
      <4>3. asked[i][r] \in Nat
        BY <4>2
      <4>. QED BY <1>4, <4>1, <4>3
    <3>2. asked' = [asked EXCEPT ![i][r] = asked[i][r] + a]
      BY <1>3
    <3>. QED BY <3>1, <3>2
  <2>. QED BY <1>1, <1>3, <1>6, <1>8, <2>1 DEF PNType
<1>10. /\ \A y \in Dot : y.cnt \in 1..local[y.rep] => y.cnt \in 1..local'[y.rep]
       /\ DotOf(r, n).cnt \in 1..local'[DotOf(r, n).rep]
  <2>1. \A s \in Replicas : local[s] \in Nat /\ local'[s] \in Nat /\ local'[s] >= local[s]
    BY <1>1, <1>7
  <2>. QED BY <1>1, <1>7, <2>1 DEF Dot, DotOf
<1>11. DotsStamped'
  <2>1. ASSUME NEW m \in wire' PROVE m.delta.dot.cnt \in 1..local'[m.delta.dot.rep]
    <3>1. m \in wire => m.delta.dot \in Dot
      BY <1>1, PNCore DEF PNType, PN!Delta
    <3>2. m.delta = o \/ m \in wire
      BY <1>3
    <3>. QED BY <1>1, <1>6, <1>10, <3>1, <3>2 DEF DotsStamped
  <2>2. ASSUME NEW q \in Replicas, NEW t \in Replicas, NEW j \in PN!Side,
               sides'[q][j][t].dot # NoDot
        PROVE  sides'[q][j][t].dot.cnt \in 1..local'[sides'[q][j][t].dot.rep]
    <3>1. CASE sides'[q][j][t] = e
      BY <1>5, <1>10, <3>1
    <3>2. CASE sides'[q][j][t] = sides[q][j][t]
      <4>1. sides[q][j][t].dot \in Dot
        BY <1>1, <2>2, <3>2, PNEntryType
      <4>2. sides[q][j][t].dot.cnt \in 1..local[sides[q][j][t].dot.rep]
        BY <1>1, <2>2, <3>2 DEF DotsStamped
      <4>. QED BY <1>10, <3>2, <4>1, <4>2
    <3>. QED BY <1>8, <3>1, <3>2
  <2>. QED BY <2>1, <2>2 DEF DotsStamped
<1>. QED BY <1>7, <1>9, <1>11 DEF PNTyped

\* Receiving a delta keeps the types.
LEMMA PNReceiveTyped ==
  ASSUME PNTyped, NEW r \in Replicas, NEW m \in wire, PN!ReceiveDelta(r, m)
  PROVE  PNTyped'
<1>. DEFINE d == m.delta
            e == IF d.count > sides[r][d.side][d.rep].count
                 THEN [count |-> d.count, dot |-> d.dot] ELSE sides[r][d.side][d.rep]
<1>1. CoreInv /\ PNType /\ DotsStamped /\ local \in [Replicas -> Nat]
  BY DEF PNTyped, CoreInv, CoreType
<1>2. /\ d.side \in PN!Side /\ d.rep \in Replicas /\ d.count \in Nat /\ d.dot \in Dot
      /\ d.dot.cnt \in 1..local[d.dot.rep]
  BY <1>1, PNCore DEF PNType, PN!Delta, DotsStamped
<1>3. /\ wire' \subseteq wire
      /\ sides' = [sides EXCEPT ![r] = PN!Apply(r, d)]
      /\ RecordDots(r, Singleton(d.dot))
      /\ tracked' = [tracked EXCEPT ![r] = @ \ {""}]
      /\ UNCHANGED <<local, known, peerHWMs, digests, asked, ops>>
  BY <1>2, PNCore DEF PN!ReceiveDelta, PN!Remaining, PN!TrackKey, PN!Present
<1>4. sides[r][d.side][d.rep] \in PNEntry
  BY <1>1, <1>2, PNEntryType
<1>5. e \in PNEntry /\ (e.dot = d.dot \/ e = sides[r][d.side][d.rep])
  BY <1>2, <1>4 DEF PNEntry
<1>6. sides' = [sides EXCEPT ![r][d.side][d.rep] = e]
  <2>1. CASE d.count > sides[r][d.side][d.rep].count
    BY <1>3, <2>1 DEF PN!Apply
  <2>2. CASE ~(d.count > sides[r][d.side][d.rep].count)
    <3>1. sides' = sides /\ e = sides[r][d.side][d.rep]
      BY <1>1, <1>3, <2>2 DEF PN!Apply, PNType
    <3>2. [sides[r] EXCEPT ![d.side][d.rep] = sides[r][d.side][d.rep]] = sides[r]
      BY <1>1, <1>2 DEF PNType
    <3>. QED BY <1>1, <1>2, <3>1, <3>2 DEF PNType
  <2>. QED BY <2>1, <2>2
<1>. HIDE DEF e
<1>7. /\ sides' \in [Replicas -> [PN!Side -> [Replicas -> PNEntry]]]
      /\ \A q, t \in Replicas, j \in PN!Side :
            sides'[q][j][t] = e \/ sides'[q][j][t] = sides[q][j][t]
  <2>1. PICK x, i, s : x = e /\ i = d.side /\ s = d.rep
    OBVIOUS
  <2>2. /\ PNType /\ x \in PNEntry /\ i \in PN!Side /\ s \in Replicas
        /\ Stores(r, i, s, x)
    BY <1>1, <1>2, <1>5, <1>6, <2>1 DEF Stores
  <2>3. /\ sides' \in [Replicas -> [PN!Side -> [Replicas -> PNEntry]]]
        /\ \A q, t \in Replicas, j \in PN!Side :
              sides'[q][j][t] = x \/ sides'[q][j][t] = sides[q][j][t]
    BY <2>2, PNStore
  <2>. QED BY <2>1, <2>3
<1>8. CoreInv'
  <2>1. /\ Singleton(d.dot) \in VClock
        /\ local' \in [Replicas -> Nat]
        /\ \A s \in Replicas : local'[s] >= local[s] /\ Singleton(d.dot)[s] <= local'[s]
    <3>1. d.dot.rep \in Replicas /\ d.dot.cnt \in Nat /\ local' = local
      BY <1>2, <1>3 DEF Dot
    <3>2. Singleton(d.dot) \in VClock
      BY <3>1 DEF Singleton, VClock
    <3>3. ASSUME NEW s \in Replicas PROVE Singleton(d.dot)[s] <= local[s] /\ local[s] \in Nat
      BY <1>1, <1>2, <3>1 DEF Singleton
    <3>. QED BY <1>1, <3>1, <3>2, <3>3
  <2>. HIDE DEF d
  <2>2. known' = known /\ peerHWMs' = peerHWMs /\ digests' = digests
    BY <1>3
  <2>. QED BY <1>1, <1>3, <2>1, <2>2, CoreRecord
<1>9. PNType'
  BY <1>1, <1>3, <1>7 DEF PNType
<1>10. DotsStamped'
  <2>1. ASSUME NEW x \in wire' PROVE x.delta.dot.cnt \in 1..local'[x.delta.dot.rep]
    BY <1>1, <1>3 DEF DotsStamped
  <2>2. ASSUME NEW q \in Replicas, NEW t \in Replicas, NEW j \in PN!Side,
               sides'[q][j][t].dot # NoDot
        PROVE  sides'[q][j][t].dot.cnt \in 1..local'[sides'[q][j][t].dot.rep]
    <3>1. CASE sides'[q][j][t] = sides[q][j][t]
      BY <1>1, <1>3, <2>2, <3>1 DEF DotsStamped
    <3>2. CASE sides'[q][j][t] = e
      BY <1>1, <1>2, <1>3, <1>5, <2>2, <3>2 DEF DotsStamped
    <3>. QED BY <1>7, <3>1, <3>2
  <2>. QED BY <2>1, <2>2 DEF DotsStamped
<1>. QED BY <1>8, <1>9, <1>10 DEF PNTyped

\* Anti-entropy and lost messages keep the types.
LEMMA PNGossipTyped ==
  ASSUME PNTyped,
         \/ \E r \in Replicas : PN!SendDigests(r)
         \/ \E r \in Replicas, m \in digests : PN!ReceiveDigest(r, m)
         \/ PN!Lose
  PROVE  PNTyped'
<1>. DEFINE Sound(x) == /\ x \in [to : Replicas, via : {"push", "sync"}, delta : PN!Delta]
                        /\ x.delta.dot.cnt \in 1..local[x.delta.dot.rep]
<1>1. CoreInv /\ PNType /\ DotsStamped
  BY DEF PNTyped
<1>2. ASSUME NEW r \in Replicas, PN!SendDigests(r)
      PROVE  CoreInv' /\ UNCHANGED <<local, tracked, sides, asked, ops, wire>>
  <2>1. /\ digests' = digests \cup {Digest(r, p) : p \in Peers(r)}
        /\ UNCHANGED <<local, hwm, pending, tracked, known, peerHWMs, wire, sides, asked, ops>>
    BY <1>2 DEF PN!SendDigests, PN!BroadcastDigest, PN!Digest, Digest, PN!Peers, Peers
  <2>. QED BY <1>1, <2>1, CoreBroadcast
<1>3. ASSUME NEW r \in Replicas, NEW m \in digests, PN!ReceiveDigest(r, m)
      PROVE  /\ CoreInv' /\ UNCHANGED <<local, tracked, sides, asked, ops>>
             /\ \A x \in wire' : x \in wire \/ Sound(x)
  <2>. DEFINE sent == PN!DeltasSince(r, m.hwm)
  <2>1. \A y \in sent : y \in PN!Delta /\ y.dot.cnt \in 1..local[y.dot.rep]
    <3>. SUFFICES ASSUME NEW s \in Replicas, NEW i \in PN!Side, sides[r][i][s].dot # NoDot
                  PROVE  LET y == PN!PNDelta(i, s, sides[r][i][s])
                         IN  y \in PN!Delta /\ y.dot.cnt \in 1..local[y.dot.rep]
      BY PNCore DEF PN!DeltasSince
    <3>1. sides[r][i][s].count \in Nat /\ sides[r][i][s].dot \in Dot
      BY <1>1, PNEntryType
    <3>. QED BY <1>1, <3>1, PNCore DEF DotsStamped, PN!Delta, PN!PNDelta
  <2>2. /\ digests' \subseteq digests
        /\ known' = [known EXCEPT ![r] = @ \cup {m.from}]
        /\ peerHWMs' = [peerHWMs EXCEPT ![r][m.from] = m.hwm]
        /\ wire' \subseteq wire \cup [to : {m.from}, via : {"sync"}, delta : sent]
        /\ UNCHANGED <<local, hwm, pending, tracked, sides, asked, ops>>
    BY <1>3 DEF PN!ReceiveDigest, PN!AnswerDigest, PN!Remaining, PN!Syncs
  <2>. HIDE DEF sent
  <2>3. CoreInv' /\ m.from \in Replicas
    BY <1>1, <2>2, CoreAnswer
  <2>. QED BY <2>1, <2>2, <2>3
<1>4. ASSUME PN!Lose
      PROVE  CoreInv' /\ UNCHANGED <<local, tracked, sides, asked, ops>> /\ wire' \subseteq wire
  <2>1. /\ wire' \subseteq wire /\ digests' \subseteq digests
        /\ UNCHANGED <<local, hwm, pending, tracked, known, peerHWMs, sides, asked, ops>>
    BY <1>4 DEF PN!Lose, PN!LoseDelta, PN!LoseDigest
  <2>. QED BY <1>1, <2>1, CoreUnchanged
<1>5. /\ CoreInv' /\ UNCHANGED <<local, tracked, sides, asked, ops>>
      /\ \A x \in wire' : x \in wire \/ Sound(x)
  <2>. HIDE DEF Sound
  <2>. QED BY <1>2, <1>3, <1>4
<1>6. PNType'
  BY <1>1, <1>5 DEF PNType
<1>7. DotsStamped'
  BY <1>1, <1>5 DEF DotsStamped
<1>. QED BY <1>5, <1>6, <1>7 DEF PNTyped

\* A counter is typed from the start and stays so, whether or not a count
\* wraps around.
LEMMA PNTypedStep == (PN!Init => PNTyped) /\ (PNTyped /\ PN!Next => PNTyped')
<1>1. ASSUME PN!Init PROVE PNTyped
  <2>1. /\ ShellInit /\ asked = [i \in PN!Side |-> [r \in Replicas |-> 0]] /\ ops = {}
        /\ sides = [r \in Replicas |-> [i \in PN!Side |-> [s \in Replicas |->
                       [count |-> 0, dot |-> NoDot]]]]
    BY <1>1, PNCore DEF PN!Init, PN!NoEntry
  <2>. QED BY <2>1, CoreInitial DEF ShellInit, PNTyped, PNType, PNEntry, DotsStamped
<1>2. ASSUME PNTyped, PN!Next PROVE PNTyped'
  <2>1. CASE \E r \in Replicas, i \in PN!Side, a \in Amounts : PN!Update(r, i, a)
    BY <1>2, <2>1, PNUpdateTyped
  <2>2. CASE \E r \in Replicas, m \in wire : PN!ReceiveDelta(r, m)
    BY <1>2, <2>2, PNReceiveTyped
  <2>3. CASE \/ \E r \in Replicas : PN!SendDigests(r)
             \/ \E r \in Replicas, m \in digests : PN!ReceiveDigest(r, m)
             \/ PN!Lose
    BY <1>2, <2>3, PNGossipTyped
  <2>. QED BY <1>2, <2>1, <2>2, <2>3 DEF PN!Next
<1>. QED BY <1>1, <1>2
-----------------------------------------------------------------------------
(* MVRegister.  A context covers what its writer had received and the      *)
(* write itself, in full for the writer's own dots: so what Apply prunes   *)
(* was superseded, and nothing older of the same writer is left.           *)

MVType == /\ tracked = [r \in Replicas |-> {}]
          /\ \A m \in digests : m.empty
          /\ wire \subseteq [to : Replicas, via : {"push", "sync"}, delta : MV!Delta]
          /\ current \in [Replicas -> SUBSET Dot]
          /\ writes \subseteq [dot : Dot, ctx : VClock, seen : [Replicas -> SUBSET Nat]]

\* A replica has received every dot that it has stamped.
OwnReceived == \A r \in Replicas : 1..local[r] \subseteq Covered(r, r)

WritesSound ==
    \A w \in writes :
        /\ w.dot.cnt \in 1..local[w.dot.rep]
        /\ w.dot.cnt <= w.ctx[w.dot.rep]
        /\ \A s \in Replicas : \A n \in 1..w.ctx[s] : n \in w.seen[s] \/ DotOf(s, n) = w.dot

\* A write had seen the earlier writes of its writer.
LaterSawEarlier ==
    \A v, w \in writes : (v.dot.rep = w.dot.rep /\ v.dot.cnt < w.dot.cnt)
                            => v.dot.cnt \in w.seen[v.dot.rep]

WritesSent == \A m \in wire : \E w \in writes : m.delta = [dot |-> w.dot, ctx |-> w.ctx]

CurrentWritten ==
    \A r \in Replicas : \A d \in current[r] :
        d.cnt \in Covered(r, d.rep) /\ \E w \in writes : w.dot = d

MVInv == /\ CoreInv
         /\ MVType
         /\ OwnReceived
         /\ WritesSound
         /\ LaterSawEarlier
         /\ WritesSent
         /\ CurrentWritten
         /\ MV!ConcurrentWritesKept
         /\ MV!OneValuePerWriter

\* The core of a register is that of Replica, whatever its transport does.
LEMMA MVCore ==
  /\ MV!ShellInit => ShellInit
  /\ \A r \in Replicas : MV!StampDot(r) => StampDot(r)
  /\ \A r \in Replicas, d \in Dot :
        MV!RecordDots(r, MV!Singleton(d)) => RecordDots(r, Singleton(d))
  /\ MV!Dot = Dot /\ MV!VClock = VClock
  /\ \A r \in Replicas : MV!NextDot(r) = DotOf(r, local[r] + 1)
<1>1. MV!ShellInit => ShellInit
  BY DEF MV!ShellInit, ShellInit, MV!EmptyClock, EmptyClock
<1>2. ASSUME NEW r \in Replicas, NEW dots, MV!RecordDots(r, dots)
      PROVE  RecordDots(r, dots)
  BY <1>2 DEF MV!RecordDots, RecordDots, MV!RecordHWM, RecordHWM,
              MV!RecordPending, RecordPending, MV!AdvanceHWM, AdvanceHWM
<1>3. \A d : MV!Singleton(d) = Singleton(d)
  BY DEF MV!Singleton, Singleton
<1>4. \A r \in Replicas : MV!NextDot(r) = DotOf(r, local[r] + 1)
  BY DEF MV!NextDot, MV!DotOf, DotOf
<1>5. ASSUME NEW r \in Replicas, MV!StampDot(r) PROVE StampDot(r)
  BY <1>2, <1>3, <1>4, <1>5 DEF MV!StampDot, StampDot, NextDot
<1>6. MV!Dot = Dot /\ MV!VClock = VClock
  BY DEF MV!Dot, Dot, MV!VClock, VClock
<1>. QED BY <1>1, <1>2, <1>3, <1>4, <1>5, <1>6

\* The two properties of the register in terms of what has been received.
LEMMA MVReading ==
  /\ MV!ConcurrentWritesKept <=>
       \A r \in Replicas : \A v \in writes : v.dot.cnt \in Covered(r, v.dot.rep) =>
          \/ v.dot \in current[r]
          \/ \E w \in writes : /\ w.dot.cnt \in Covered(r, w.dot.rep)
                               /\ w.dot # v.dot /\ v.dot.cnt \in w.seen[v.dot.rep]
  /\ MV!OneValuePerWriter <=>
       \A r \in Replicas : \A d, e \in current[r] : d.rep = e.rep => d = e
BY DEF MV!ConcurrentWritesKept, MV!OneValuePerWriter, MV!Received, MV!Supersedes,
       MV!Covered, Covered

\* A new register is empty.
LEMMA MVInitial == MV!Init => MVInv
<1>. SUFFICES ASSUME MV!Init PROVE MVInv
  OBVIOUS
<1>1. ShellInit /\ current = [r \in Replicas |-> {}] /\ writes = {}
  BY MVCore DEF MV!Init
<1>2. CoreInv
  BY <1>1, CoreInitial
<1>3. MVType
  BY <1>1 DEF ShellInit, MVType
<1>4. OwnReceived
  BY <1>1 DEF ShellInit, OwnReceived
<1>5. WritesSound /\ LaterSawEarlier /\ WritesSent /\ CurrentWritten
  BY <1>1 DEF ShellInit, WritesSound, LaterSawEarlier, WritesSent, CurrentWritten
<1>6. MV!ConcurrentWritesKept /\ MV!OneValuePerWriter
  BY <1>1, MVReading
<1>. QED BY <1>2, <1>3, <1>4, <1>5, <1>6 DEF MVInv

\* MVRegister.Write (node.go, mvreg.go:31-43) keeps the invariant: the write has
\* seen every value that it replaces.
LEMMA MVWriteStep ==
  ASSUME MVInv, NEW r \in Replicas, MV!Write(r)
  PROVE  MVInv'
<1>. DEFINE n == local[r] + 1
            x == DotOf(r, n)
            ctx == hwm'[r]
            seen == [s \in Replicas |-> Covered(r, s)]
            w == [dot |-> x, ctx |-> ctx, seen |-> seen]
<1>1. /\ StampDot(r)
      /\ current' = [current EXCEPT ![r] = {x}]
      /\ tracked' = [tracked EXCEPT ![r] = @ \ {""}]
      /\ wire' = wire \cup [to : Replicas \ {r}, via : {"push"}, delta : {[dot |-> x, ctx |-> ctx]}]
      /\ writes' = writes \cup {w}
      /\ known' = known /\ peerHWMs' = peerHWMs /\ digests' = digests
  BY MVCore DEF MV!Write, MV!WriteDelta, MV!TrackKey, MV!Present, MV!Propagate, MV!Pushes, MV!Peers,
                MV!Covered, Covered
<1>2. CoreInv /\ MVType /\ local \in [Replicas -> Nat]
  BY DEF MVInv, CoreInv, CoreType
<1>3. /\ CoreInv' /\ n \in Nat /\ n >= 1
      /\ local' = [local EXCEPT ![r] = n]
      /\ Covered(r, r)' = Covered(r, r) \cup {n}
      /\ \A q, s \in Replicas : (q # r \/ s # r) => Covered(q, s)' = Covered(q, s)
  <2>1. StampDot(r) /\ known' = known /\ peerHWMs' = peerHWMs /\ digests' = digests
    BY <1>1
  <2>. QED BY <1>2, <2>1, CoreStamp
<1>4. \A q, s \in Replicas : Covered(q, s) \subseteq 1..local[s]
  BY <1>2, CoveredBounds DEF CoreInv
<1>5. /\ ctx \in VClock
      /\ \A s \in Replicas : 1..ctx[s] \subseteq Covered(r, s)'
  BY <1>3 DEF CoreInv, CoreType, ReceivedType, Covered
<1>6. OwnReceived'
  <2>1. ASSUME NEW q \in Replicas PROVE 1..local'[q] \subseteq Covered(q, q)'
    <3>1. 1..local[q] \subseteq Covered(q, q)
      BY DEF MVInv, OwnReceived
    <3>. QED BY <1>2, <1>3, <3>1
  <2>. QED BY <2>1 DEF OwnReceived
<1>7. ctx[r] >= n
  <2>1. /\ ctx[r] \in 0..n /\ ctx[r] + 1 \notin pending'[r][r]
        /\ Covered(r, r)' = 1..ctx[r] \cup pending'[r][r] /\ local'[r] = n
    BY <1>2, <1>3, <1>5 DEF CoreInv, ReceivedStamped, ReceivedWithin, VClock, Covered
  <2>2. 1..n \subseteq Covered(r, r)'
    BY <1>6, <2>1 DEF OwnReceived
  <2>. QED BY <1>3, <2>1, <2>2, MarkReached
<1>. HIDE DEF n, ctx
<1>8. /\ x \in Dot /\ x.rep = r /\ x.cnt = n
      /\ seen \in [Replicas -> SUBSET Nat] /\ \A s \in Replicas : seen[s] = Covered(r, s)
  BY <1>2, <1>3, <1>4 DEF Dot, DotOf
<1>. HIDE DEF seen
<1>9. ASSUME NEW v \in writes
      PROVE  /\ v.dot \in Dot /\ v.dot.rep \in Replicas /\ v.dot.cnt \in 1..local[v.dot.rep]
             /\ v.ctx \in VClock /\ v.dot # x /\ v.dot.cnt <= v.ctx[v.dot.rep]
             /\ \A s \in Replicas : \A k \in 1..v.ctx[s] : k \in v.seen[s] \/ DotOf(s, k) = v.dot
  <2>1. /\ v.dot \in Dot /\ v.dot.rep \in Replicas /\ v.dot.cnt \in 1..local[v.dot.rep]
        /\ v.ctx \in VClock /\ v.dot.cnt <= v.ctx[v.dot.rep]
        /\ \A s \in Replicas : \A k \in 1..v.ctx[s] : k \in v.seen[s] \/ DotOf(s, k) = v.dot
    BY <1>2 DEF MVInv, WritesSound, MVType, Dot
  <2>2. v.dot # x
    BY <1>2, <1>8, <2>1 DEF n
  <2>. QED BY <2>1, <2>2
<1>. HIDE DEF x
<1>10. MVType'
  <2>1. wire' \subseteq [to : Replicas, via : {"push", "sync"}, delta : MV!Delta]
    BY <1>1, <1>2, <1>5, <1>8, MVCore DEF MVType, MV!Delta
  <2>2. tracked' = [q \in Replicas |-> {}] /\ current' \in [Replicas -> SUBSET Dot]
    BY <1>1, <1>2, <1>8 DEF MVType
  <2>3. writes' \subseteq [dot : Dot, ctx : VClock, seen : [Replicas -> SUBSET Nat]]
    BY <1>1, <1>2, <1>5, <1>8 DEF MVType
  <2>. QED BY <1>1, <1>2, <2>1, <2>2, <2>3 DEF MVType
<1>11. WritesSound'
  <2>. SUFFICES ASSUME NEW v \in writes'
                PROVE  /\ v.dot.cnt \in 1..local'[v.dot.rep] /\ v.dot.cnt <= v.ctx[v.dot.rep]
                       /\ \A s \in Replicas : \A k \in 1..v.ctx[s] :
                             k \in v.seen[s] \/ DotOf(s, k) = v.dot
    BY DEF WritesSound
  <2>1. CASE v \in writes
    BY <1>2, <1>3, <1>9, <2>1 DEF n
  <2>2. CASE v = w
    <3>1. v.dot.cnt \in 1..local'[v.dot.rep] /\ v.dot.cnt <= v.ctx[v.dot.rep]
      BY <1>2, <1>3, <1>5, <1>7, <1>8, <2>2 DEF VClock
    <3>2. ASSUME NEW s \in Replicas, NEW k \in 1..ctx[s]
          PROVE  k \in seen[s] \/ DotOf(s, k) = x
      BY <1>3, <1>5, <1>8 DEF x
    <3>. QED BY <2>2, <3>1, <3>2
  <2>. QED BY <1>1, <2>1, <2>2
<1>12. LaterSawEarlier'
  <2>. SUFFICES ASSUME NEW u \in writes', NEW v \in writes',
                       u.dot.rep = v.dot.rep, u.dot.cnt < v.dot.cnt
                PROVE  u.dot.cnt \in v.seen[u.dot.rep]
    BY DEF LaterSawEarlier
  <2>1. CASE u \in writes /\ v \in writes
    BY <2>1 DEF MVInv, LaterSawEarlier
  <2>2. CASE u \in writes /\ v = w
    BY <1>2, <1>8, <1>9, <2>2 DEF MVInv, OwnReceived
  <2>3. CASE u = w
    <3>1. u.dot.rep = r /\ u.dot.cnt = n
      BY <1>8, <2>3
    <3>2. v # w
      BY <1>3, <2>3, <3>1
    <3>3. v \in writes
      BY <1>1, <3>2
    <3>4. v.dot.cnt \in 1..local[r] /\ local[r] \in Nat
      BY <1>2, <1>9, <3>1, <3>3
    <3>. QED BY <3>1, <3>4 DEF n
  <2>. QED BY <1>1, <2>1, <2>2, <2>3
<1>13. WritesSent'
  <2>. SUFFICES ASSUME NEW m \in wire'
                PROVE  \E v \in writes' : m.delta = [dot |-> v.dot, ctx |-> v.ctx]
    BY DEF WritesSent
  <2>1. CASE m \in wire
    <3>1. PICK v \in writes : m.delta = [dot |-> v.dot, ctx |-> v.ctx]
      BY <2>1 DEF MVInv, WritesSent
    <3>. QED BY <1>1, <3>1
  <2>2. CASE m \notin wire
    <3>1. m.delta = [dot |-> w.dot, ctx |-> w.ctx]
      BY <1>1, <2>2
    <3>. QED BY <1>1, <3>1
  <2>. QED BY <2>1, <2>2
<1>14. /\ current'[r] = {x}
       /\ \A q \in Replicas : q # r => current'[q] = current[q]
       /\ \A q, s \in Replicas : Covered(q, s) \subseteq Covered(q, s)'
  BY <1>1, <1>2, <1>3 DEF MVType
<1>15. CurrentWritten'
  <2>. SUFFICES ASSUME NEW q \in Replicas, NEW d \in current'[q]
                PROVE  d.cnt \in Covered(q, d.rep)' /\ \E v \in writes' : v.dot = d
    BY DEF CurrentWritten
  <2>1. CASE q = r
    <3>1. d = w.dot /\ w \in writes'
      BY <1>1, <1>14, <2>1
    <3>2. d.rep = r /\ d.cnt = n
      BY <1>8, <3>1
    <3>. QED BY <1>3, <2>1, <3>1, <3>2
  <2>2. CASE q # r
    <3>1. d \in Dot /\ d.cnt \in Covered(q, d.rep) /\ \E v \in writes : v.dot = d
      BY <1>2, <1>14, <2>2 DEF MVInv, CurrentWritten, MVType
    <3>. QED BY <1>1, <1>14, <3>1 DEF Dot
  <2>. QED BY <2>1, <2>2
<1>16. MV!ConcurrentWritesKept'
  <2>. SUFFICES ASSUME NEW q \in Replicas, NEW v \in writes', v.dot.cnt \in Covered(q, v.dot.rep)'
                PROVE  \/ v.dot \in current'[q]
                       \/ \E u \in writes' : /\ u.dot.cnt \in Covered(q, u.dot.rep)'
                                             /\ u.dot # v.dot /\ v.dot.cnt \in u.seen[v.dot.rep]
    BY DEF MV!ConcurrentWritesKept, MV!Received, MV!Supersedes, MV!Covered, Covered
  <2>1. CASE v = w
    <3>1. n \in Covered(q, r)'
      BY <1>8, <2>1
    <3>2. q = r
      BY <1>2, <1>3, <1>4, <3>1 DEF n
    <3>. QED BY <1>14, <2>1, <3>2
  <2>2. CASE v \in writes
    <3>1. v.dot.cnt \in Covered(q, v.dot.rep)
      BY <1>2, <1>3, <1>9, <2>2 DEF n
    <3>2. CASE q = r
      <4>1. PICK u \in writes' : u = w
        BY <1>1
      <4>2. u.dot.cnt = n /\ u.dot.rep = r /\ u.dot # v.dot /\ u.seen = seen
        BY <1>8, <1>9, <2>2, <4>1
      <4>3. u.dot.cnt \in Covered(q, u.dot.rep)'
        BY <1>3, <3>2, <4>2
      <4>4. v.dot.cnt \in u.seen[v.dot.rep]
        BY <1>8, <1>9, <2>2, <3>1, <3>2, <4>2
      <4>. QED BY <4>2, <4>3, <4>4
    <3>3. CASE q # r
      <4>1. \/ v.dot \in current[q]
            \/ \E u \in writes : /\ u.dot.cnt \in Covered(q, u.dot.rep)
                                 /\ u.dot # v.dot /\ v.dot.cnt \in u.seen[v.dot.rep]
        BY <2>2, <3>1, MVReading DEF MVInv
      <4>. QED BY <1>1, <1>9, <1>14, <3>3, <4>1
    <3>. QED BY <3>2, <3>3
  <2>. QED BY <1>1, <2>1, <2>2
<1>17. MV!OneValuePerWriter'
  BY <1>14 DEF MVInv, MV!OneValuePerWriter
<1>. QED BY <1>3, <1>6, <1>10, <1>11, <1>12, <1>13, <1>15, <1>16, <1>17 DEF MVInv

\* A step that leaves the values alone keeps the invariant if it sends and
\* records nothing of a write.
LEMMA MVOtherStep ==
  ASSUME MVInv, CoreInv', MVType', OwnReceived',
         \A s \in Replicas : local'[s] >= local[s],
         \A q, s \in Replicas : \A c \in 1..local[s] :
            c \in Covered(q, s)' <=> c \in Covered(q, s),
         UNCHANGED <<current, writes>>, wire' \subseteq wire
  PROVE  MVInv'
<1>1. ASSUME NEW v \in writes
      PROVE  v.dot.rep \in Replicas /\ v.dot.cnt \in 1..local[v.dot.rep]
  BY DEF MVInv, WritesSound, MVType, Dot
<1>2. WritesSound'
  <2>1. \A s \in Replicas : local[s] \in Nat /\ local'[s] \in Nat
    BY DEF MVInv, CoreInv, CoreType
  <2>2. \A v \in writes : v.dot.cnt \in 1..local'[v.dot.rep]
    BY <1>1, <2>1
  <2>. QED BY <2>2 DEF MVInv, WritesSound
<1>3. LaterSawEarlier' /\ WritesSent'
  BY DEF MVInv, LaterSawEarlier, WritesSent
<1>4. CurrentWritten'
  <2>. SUFFICES ASSUME NEW q \in Replicas, NEW d \in current[q]
                PROVE  d.cnt \in Covered(q, d.rep)' /\ \E v \in writes : v.dot = d
    BY DEF CurrentWritten
  <2>1. d.cnt \in Covered(q, d.rep) /\ \E v \in writes : v.dot = d
    BY DEF MVInv, CurrentWritten
  <2>. QED BY <1>1, <2>1
<1>5. MV!ConcurrentWritesKept'
  <2>. SUFFICES ASSUME NEW q \in Replicas, NEW v \in writes, v.dot.cnt \in Covered(q, v.dot.rep)'
                PROVE  \/ v.dot \in current[q]
                       \/ \E u \in writes : /\ u.dot.cnt \in Covered(q, u.dot.rep)'
                                            /\ u.dot # v.dot /\ v.dot.cnt \in u.seen[v.dot.rep]
    BY DEF MV!ConcurrentWritesKept, MV!Received, MV!Supersedes, MV!Covered, Covered
  <2>1. \/ v.dot \in current[q]
        \/ \E u \in writes : /\ u.dot.cnt \in Covered(q, u.dot.rep)
                             /\ u.dot # v.dot /\ v.dot.cnt \in u.seen[v.dot.rep]
    BY <1>1, MVReading DEF MVInv
  <2>. QED BY <1>1, <2>1
<1>6. MV!OneValuePerWriter'
  BY DEF MVInv, MV!OneValuePerWriter
<1>. QED BY <1>2, <1>3, <1>4, <1>5, <1>6 DEF MVInv

\* MVRegister.Write with a failing codec keeps the invariant.
LEMMA MVWriteFailsStep ==
  ASSUME MVInv, NEW r \in Replicas, MV!WriteFails(r)
  PROVE  MVInv'
<1>1. StampDot(r) /\ UNCHANGED <<tracked, known, peerHWMs, wire, digests, current, writes>>
  BY MVCore DEF MV!WriteFails
<1>2. CoreInv /\ local \in [Replicas -> Nat]
  BY DEF MVInv, CoreInv, CoreType
<1>3. /\ CoreInv' /\ local' = [local EXCEPT ![r] = local[r] + 1]
      /\ Covered(r, r)' = Covered(r, r) \cup {local[r] + 1}
      /\ \A q, s \in Replicas : (q # r \/ s # r) => Covered(q, s)' = Covered(q, s)
  BY <1>1, <1>2, CoreStamp
<1>4. \A s \in Replicas : local'[s] >= local[s]
  BY <1>2, <1>3
<1>5. \A q, s \in Replicas : \A c \in 1..local[s] :
         c \in Covered(q, s)' <=> c \in Covered(q, s)
  BY <1>2, <1>3
<1>6. MVType'
  BY <1>1 DEF MVInv, MVType
<1>7. ASSUME NEW q \in Replicas PROVE 1..local'[q] \subseteq Covered(q, q)'
  <2>1. 1..local[q] \subseteq Covered(q, q)
    BY DEF MVInv, OwnReceived
  <2>. QED BY <1>2, <1>3, <2>1
<1>8. OwnReceived'
  BY <1>7 DEF OwnReceived
<1>. QED BY <1>1, <1>3, <1>4, <1>5, <1>6, <1>8, MVOtherStep

\* mvRegisterState.Apply and applyDelta (mvreg.go:130-180, replica.go:136-157)
\* keep the invariant: what goes is superseded by the write that arrives, and
\* what is refused by a later one of the same writer.
LEMMA MVReceiveDeltaStep ==
  ASSUME MVInv, NEW r \in Replicas, NEW m \in wire, MV!ReceiveDelta(r, m)
  PROVE  MVInv'
<1>1. CoreInv /\ MVType /\ local \in [Replicas -> Nat]
  BY DEF MVInv, CoreInv, CoreType
<1>2. PICK w \in writes : m.delta = [dot |-> w.dot, ctx |-> w.ctx]
  BY DEF MVInv, WritesSent
<1>3. ASSUME NEW v \in writes
      PROVE  /\ v.dot \in Dot /\ v.dot.rep \in Replicas /\ v.dot.cnt \in 1..local[v.dot.rep]
             /\ v.dot.cnt \in Nat /\ v.ctx \in VClock /\ v.dot.cnt <= v.ctx[v.dot.rep]
             /\ \A s \in Replicas : \A k \in 1..v.ctx[s] : k \in v.seen[s] \/ DotOf(s, k) = v.dot
  BY <1>1 DEF MVInv, WritesSound, MVType, Dot
<1>. DEFINE surviving == {e \in current[r] : e.cnt > w.ctx[e.rep]}
            later == \E e \in surviving : e.rep = w.dot.rep /\ e.cnt >= w.dot.cnt
            new == IF later THEN surviving ELSE surviving \cup {w.dot}
<1>4. /\ wire' \subseteq wire
      /\ current' = [current EXCEPT ![r] = new]
      /\ RecordDots(r, Singleton(w.dot))
      /\ tracked' = [tracked EXCEPT ![r] = @ \ {""}]
      /\ UNCHANGED <<local, known, peerHWMs, digests, writes>>
  <2>1. m.delta.dot = w.dot /\ m.delta.ctx = w.ctx
    BY <1>2
  <2>2. MV!Apply(r, m.delta) = new
    BY <2>1 DEF MV!Apply
  <2>. HIDE DEF new
  <2>. QED BY <1>3, <2>1, <2>2, MVCore
           DEF MV!ReceiveDelta, MV!Remaining, MV!TrackKey, MV!Present
<1>5. /\ Singleton(w.dot) \in VClock
      /\ Singleton(w.dot)[w.dot.rep] = w.dot.cnt
      /\ \A s \in Replicas \ {w.dot.rep} : Singleton(w.dot)[s] = 0
  BY <1>3 DEF Singleton, VClock, Dot
<1>6. \A s \in Replicas : local'[s] >= local[s] /\ Singleton(w.dot)[s] <= local'[s]
  <2>1. local' = local /\ \A s \in Replicas : local[s] \in Nat
    BY <1>1, <1>4
  <2>. QED BY <1>3, <1>5, <2>1
<1>7. /\ CoreInv'
      /\ \A s \in Replicas : Covered(r, s)' = Covered(r, s) \cup
            (IF Singleton(w.dot)[s] = 0 THEN {} ELSE {Singleton(w.dot)[s]})
      /\ \A q \in Replicas \ {r}, s \in Replicas : Covered(q, s)' = Covered(q, s)
  <2>1. /\ RecordDots(r, Singleton(w.dot)) /\ local' \in [Replicas -> Nat]
        /\ known' = known /\ peerHWMs' = peerHWMs /\ digests' = digests
    BY <1>1, <1>4
  <2>. QED BY <1>1, <1>5, <1>6, <2>1, CoreRecord
<1>8. /\ \A q, s \in Replicas : Covered(q, s) \subseteq Covered(q, s)'
      /\ w.dot.cnt \in Covered(r, w.dot.rep)'
      /\ \A v \in writes, q \in Replicas : v.dot.cnt \in Covered(q, v.dot.rep)'
            => v.dot.cnt \in Covered(q, v.dot.rep) \/ (q = r /\ v.dot = w.dot)
  <2>1. \A q, s \in Replicas : Covered(q, s) \subseteq Covered(q, s)'
    BY <1>7
  <2>2. w.dot.cnt \in Covered(r, w.dot.rep)'
    BY <1>3, <1>5, <1>7
  <2>3. ASSUME NEW v \in writes, NEW q \in Replicas, v.dot.cnt \in Covered(q, v.dot.rep)',
               v.dot.cnt \notin Covered(q, v.dot.rep)
        PROVE  q = r /\ v.dot = w.dot
    <3>1. q = r /\ v.dot.rep = w.dot.rep /\ v.dot.cnt = w.dot.cnt
      BY <1>3, <1>5, <1>7, <2>3
    <3>. QED BY <1>3, <3>1 DEF Dot
  <2>. QED BY <2>1, <2>2, <2>3
<1>9. /\ surviving \subseteq current[r] /\ new \subseteq current[r] \cup {w.dot}
      /\ current[r] \subseteq Dot
  BY <1>1 DEF MVType
<1>10. ASSUME NEW d \in current[r]
       PROVE  /\ d \in Dot /\ d.rep \in Replicas /\ d.cnt \in Nat /\ d.cnt >= 1
              /\ d.cnt \in Covered(r, d.rep) /\ \E v \in writes : v.dot = d
  <2>1. d.cnt \in Covered(r, d.rep) /\ \E v \in writes : v.dot = d
    BY DEF MVInv, CurrentWritten
  <2>. QED BY <1>3, <2>1
\* A value that the context covers was seen by the writer, or is the write.
<1>11. ASSUME NEW d \in current[r], d \notin surviving
       PROVE  d = w.dot \/ d.cnt \in w.seen[d.rep]
  <2>1. d.cnt \in 1..w.ctx[d.rep] /\ DotOf(d.rep, d.cnt) = d
    BY <1>3, <1>10, <1>11 DEF Dot, DotOf, VClock
  <2>. QED BY <1>3, <1>10, <2>1
\* A value of the same writer that is left is a later one, which saw the write.
<1>12. ASSUME NEW d \in surviving, d.rep = w.dot.rep
       PROVE  d.cnt > w.dot.cnt
  BY <1>3, <1>10, <1>12 DEF VClock
<1>13. ASSUME later
       PROVE  \E u \in writes : /\ u.dot.cnt \in Covered(r, u.dot.rep)
                                /\ u.dot # w.dot /\ w.dot.cnt \in u.seen[w.dot.rep]
  <2>1. PICK d \in surviving : d.rep = w.dot.rep
    BY <1>13
  <2>2. PICK u \in writes : u.dot = d
    BY <1>9, <1>10
  <2>3. u.dot.rep = w.dot.rep /\ w.dot.cnt < u.dot.cnt
    BY <1>12, <2>1, <2>2, <1>3
  <2>. QED BY <1>9, <1>10, <2>1, <2>2, <2>3 DEF MVInv, LaterSawEarlier
<1>14. /\ current' \in [Replicas -> SUBSET Dot] /\ current'[r] = new
       /\ \A q \in Replicas : q # r => current'[q] = current[q]
  <2>1. new \in SUBSET Dot
    BY <1>3, <1>9
  <2>. HIDE DEF new
  <2>. QED BY <1>1, <1>4, <2>1 DEF MVType
<1>15. w.dot \in new \/ later
  OBVIOUS
<1>16. \A d \in current[r] : d \in new \/ d \notin surviving
  OBVIOUS
<1>17. \A d, e \in new : d.rep = e.rep => d = e
  <2>1. \A d, e \in current[r] : d.rep = e.rep => d = e
    BY MVReading DEF MVInv
  <2>2. ASSUME NEW d \in surviving, ~later PROVE d.rep # w.dot.rep
    BY <1>3, <1>9, <1>10, <1>12, <2>2
  <2>. QED BY <1>9, <2>1, <2>2
<1>. HIDE DEF surviving, later, new
<1>18. MVType'
  BY <1>1, <1>4, <1>14 DEF MVType
<1>19. OwnReceived'
  BY <1>4, <1>8 DEF MVInv, OwnReceived
<1>20. WritesSound' /\ LaterSawEarlier' /\ WritesSent'
  BY <1>4 DEF MVInv, WritesSound, LaterSawEarlier, WritesSent
<1>21. CurrentWritten'
  <2>. SUFFICES ASSUME NEW q \in Replicas, NEW d \in current'[q]
                PROVE  d.cnt \in Covered(q, d.rep)' /\ \E v \in writes : v.dot = d
    BY <1>4 DEF CurrentWritten
  <2>1. CASE d \in current[q]
    <3>1. d \in Dot /\ d.cnt \in Covered(q, d.rep) /\ \E v \in writes : v.dot = d
      BY <1>1, <2>1 DEF MVInv, CurrentWritten, MVType
    <3>. QED BY <1>8, <3>1 DEF Dot
  <2>2. CASE d \notin current[q]
    <3>1. q = r /\ d = w.dot
      BY <1>9, <1>14, <2>2
    <3>. QED BY <1>8, <3>1
  <2>. QED BY <2>1, <2>2
<1>22. MV!ConcurrentWritesKept'
  <2>. SUFFICES ASSUME NEW q \in Replicas, NEW v \in writes, v.dot.cnt \in Covered(q, v.dot.rep)'
                PROVE  \/ v.dot \in current'[q]
                       \/ \E u \in writes : /\ u.dot.cnt \in Covered(q, u.dot.rep)'
                                            /\ u.dot # v.dot /\ v.dot.cnt \in u.seen[v.dot.rep]
    BY <1>4 DEF MV!ConcurrentWritesKept, MV!Received, MV!Supersedes, MV!Covered, Covered
  <2>1. CASE q = r /\ v.dot = w.dot
    BY <1>3, <1>8, <1>13, <1>14, <1>15, <2>1
  <2>2. CASE ~(q = r /\ v.dot = w.dot)
    <3>1. \/ v.dot \in current[q]
          \/ \E u \in writes : /\ u.dot.cnt \in Covered(q, u.dot.rep)
                               /\ u.dot # v.dot /\ v.dot.cnt \in u.seen[v.dot.rep]
      BY <1>8, <2>2, MVReading DEF MVInv
    <3>2. CASE v.dot \in current[q]
      <4>1. CASE q # r
        BY <1>14, <3>2, <4>1
      <4>2. CASE q = r
        BY <1>8, <1>11, <1>14, <1>16, <2>2, <3>2, <4>2
      <4>. QED BY <4>1, <4>2
    <3>3. CASE v.dot \notin current[q]
      BY <1>3, <1>8, <3>1, <3>3
    <3>. QED BY <3>2, <3>3
  <2>. QED BY <2>1, <2>2
<1>23. MV!OneValuePerWriter'
  <2>1. ASSUME NEW q \in Replicas, NEW d \in current'[q], NEW e \in current'[q], d.rep = e.rep
        PROVE  d = e
    BY <1>14, <1>17, <2>1, MVReading DEF MVInv
  <2>. QED BY <2>1 DEF MV!OneValuePerWriter
<1>. QED BY <1>7, <1>18, <1>19, <1>20, <1>21, <1>22, <1>23 DEF MVInv

\* Anti-entropy and lost messages keep the invariant.  The Merkle map of a
\* register is always empty, so no digest is ever answered with a value.
LEMMA MVGossipStep ==
  ASSUME MVInv,
         \/ \E r \in Replicas : MV!SendDigests(r)
         \/ \E r \in Replicas, m \in digests : MV!ReceiveDigest(r, m)
         \/ MV!Lose
  PROVE  MVInv'
<1>1. CoreInv /\ MVType /\ local \in [Replicas -> Nat]
  BY DEF MVInv, CoreInv, CoreType
<1>2. ASSUME NEW r \in Replicas, MV!SendDigests(r)
      PROVE  /\ CoreInv' /\ \A q, s \in Replicas : Covered(q, s)' = Covered(q, s)
             /\ UNCHANGED <<local, tracked, current, writes, wire>>
             /\ \A x \in digests' : x.empty
  <2>1. /\ digests' = digests \cup {Digest(r, p) : p \in Peers(r)}
        /\ UNCHANGED <<local, hwm, pending, tracked, known, peerHWMs, wire, current, writes>>
    BY <1>2 DEF MV!SendDigests, MV!BroadcastDigest, MV!Digest, Digest, MV!Peers, Peers
  <2>2. \A p \in Peers(r) : Digest(r, p).empty
    BY <1>1 DEF MVType, Digest
  <2>. QED BY <1>1, <2>1, <2>2, CoreBroadcast DEF MVType
<1>3. ASSUME NEW r \in Replicas, NEW m \in digests, MV!ReceiveDigest(r, m)
      PROVE  /\ CoreInv' /\ \A q, s \in Replicas : Covered(q, s)' = Covered(q, s)
             /\ UNCHANGED <<local, tracked, current, writes, wire>>
             /\ digests' \subseteq digests
  <2>1. MV!SameHash(r, m)
    BY <1>1 DEF MV!SameHash, MVType
  <2>2. /\ digests' \subseteq digests
        /\ known' = [known EXCEPT ![r] = @ \cup {m.from}]
        /\ peerHWMs' = [peerHWMs EXCEPT ![r][m.from] = m.hwm]
        /\ UNCHANGED <<local, hwm, pending, tracked, wire, current, writes>>
    BY <1>3, <2>1 DEF MV!ReceiveDigest, MV!AnswerDigest, MV!Remaining
  <2>. QED BY <1>1, <2>2, CoreAnswer
<1>4. ASSUME MV!Lose
      PROVE  /\ CoreInv' /\ \A q, s \in Replicas : Covered(q, s)' = Covered(q, s)
             /\ UNCHANGED <<local, tracked, current, writes>>
             /\ wire' \subseteq wire /\ digests' \subseteq digests
  <2>1. /\ wire' \subseteq wire /\ digests' \subseteq digests
        /\ UNCHANGED <<local, hwm, pending, tracked, known, peerHWMs, current, writes>>
    BY <1>4 DEF MV!Lose, MV!LoseDelta, MV!LoseDigest
  <2>. QED BY <1>1, <2>1, CoreUnchanged
<1>5. /\ CoreInv' /\ \A q, s \in Replicas : Covered(q, s)' = Covered(q, s)
      /\ UNCHANGED <<local, tracked, current, writes>>
      /\ wire' \subseteq wire /\ \A x \in digests' : x.empty
  BY <1>1, <1>2, <1>3, <1>4 DEF MVType
<1>6. MVType' /\ OwnReceived'
  BY <1>5 DEF MVInv, MVType, OwnReceived
<1>7. \A s \in Replicas : local'[s] >= local[s]
  BY <1>1, <1>5
<1>. QED BY <1>5, <1>6, <1>7, MVOtherStep

\* Every step of a group of registers keeps the invariant.
LEMMA MVStep == MVInv /\ MV!Next => MVInv'
<1>. SUFFICES ASSUME MVInv, MV!Next PROVE MVInv'
  OBVIOUS
<1>1. CASE \E r \in Replicas : MV!Write(r)
  BY <1>1, MVWriteStep
<1>2. CASE \E r \in Replicas : MV!WriteFails(r)
  BY <1>2, MVWriteFailsStep
<1>3. CASE \E r \in Replicas, m \in wire : MV!ReceiveDelta(r, m)
  BY <1>3, MVReceiveDeltaStep
<1>4. CASE \/ \E r \in Replicas : MV!SendDigests(r)
           \/ \E r \in Replicas, m \in digests : MV!ReceiveDigest(r, m)
           \/ MV!Lose
  BY <1>4, MVGossipStep
<1>. QED BY <1>1, <1>2, <1>3, <1>4 DEF MV!Next
-----------------------------------------------------------------------------
(* AWLWWMap.  The context of a remove covers what the remover had received *)
(* and the remove itself, which is no put.  So a put that a context covers *)
(* was observed, and every other put prevails over the remove.             *)

NoKeyTomb == [dot |-> NoDot, ctx |-> EmptyClock]

AWPut == [op : {"put"}, key : Keys, dot : Dot]

AWRemove == [op : {"remove"}, key : Keys, dot : Dot, ctx : VClock]

AWTomb == [dot : Dot, ctx : VClock] \cup {NoKeyTomb}

AWType == /\ tracked \in [Replicas -> SUBSET Keys]
          /\ wire \subseteq [to : Replicas, via : {"push", "sync"}, delta : AWPut \cup AWRemove]
          /\ entries \in [Replicas -> [Keys -> Dot \cup {NoDot}]]
          /\ tombs \in [Replicas -> [Keys -> AWTomb]]
          /\ puts \subseteq [key : Keys, dot : Dot]
          /\ removes \subseteq [key : Keys, dot : Dot, seen : [Replicas -> SUBSET Nat]]

\* Puts and removes have dots that their replicas have stamped, each its own.
PutsSound ==
    /\ \A p \in puts : p.dot.cnt \in 1..local[p.dot.rep]
    /\ \A p, q \in puts : p.dot = q.dot => p.key = q.key
    /\ \A w \in removes : w.dot.cnt \in 1..local[w.dot.rep]
    /\ \A p \in puts, w \in removes : p.dot # w.dot

\* t is the dot and the context of a remove of k.
RemoveKnown(k, t) ==
    \E w \in removes :
        /\ w.key = k /\ w.dot = t.dot
        /\ \A s \in Replicas : \A n \in 1..t.ctx[s] : n \in w.seen[s] \/ DotOf(s, n) = w.dot

AWSent ==
    \A m \in wire : IF m.delta.op = "put"
                    THEN [key |-> m.delta.key, dot |-> m.delta.dot] \in puts
                    ELSE RemoveKnown(m.delta.key, m.delta)

\* An entry is a put that was received, a tombstone is a remove, and both are
\* in the Merkle map.
EntryPut(r, k) ==
    \E p \in puts : /\ p.key = k /\ p.dot = entries[r][k]
                    /\ p.dot.cnt \in Covered(r, p.dot.rep)

EntriesPut == \A r \in Replicas, k \in Keys : entries[r][k] # NoDot => EntryPut(r, k)

TombsKnown == \A r \in Replicas, k \in Keys :
                 tombs[r][k] # NoKeyTomb => RemoveKnown(k, tombs[r][k])

StoredTracked == \A r \in Replicas, k \in Keys :
                    (entries[r][k] # NoDot \/ tombs[r][k] # NoKeyTomb) => k \in tracked[r]

AWInv == /\ CoreInv
         /\ AWType
         /\ PutsSound
         /\ AWSent
         /\ EntriesPut
         /\ TombsKnown
         /\ StoredTracked

\* The core of a map is that of Replica.
LEMMA AWCore ==
  /\ AW!ShellInit => ShellInit
  /\ \A r \in Replicas : AW!StampDot(r) => StampDot(r)
  /\ \A r \in Replicas, d \in Dot :
        AW!RecordDots(r, AW!Singleton(d)) => RecordDots(r, Singleton(d))
  /\ AW!Dot = Dot /\ AW!VClock = VClock /\ AW!NoDot = NoDot /\ AW!NoTomb = NoKeyTomb
  /\ \A r \in Replicas : AW!NextDot(r) = DotOf(r, local[r] + 1)
  /\ AW!Delta = AWPut \cup AWRemove
<1>1. AW!ShellInit => ShellInit
  BY DEF AW!ShellInit, ShellInit, AW!EmptyClock, EmptyClock
<1>2. ASSUME NEW r \in Replicas, NEW dots, AW!RecordDots(r, dots)
      PROVE  RecordDots(r, dots)
  BY <1>2 DEF AW!RecordDots, RecordDots, AW!RecordHWM, RecordHWM,
              AW!RecordPending, RecordPending, AW!AdvanceHWM, AdvanceHWM
<1>3. \A d : AW!Singleton(d) = Singleton(d)
  BY DEF AW!Singleton, Singleton
<1>4. \A r \in Replicas : AW!NextDot(r) = DotOf(r, local[r] + 1)
  BY DEF AW!NextDot, AW!DotOf, DotOf
<1>5. ASSUME NEW r \in Replicas, AW!StampDot(r) PROVE StampDot(r)
  BY <1>2, <1>3, <1>4, <1>5 DEF AW!StampDot, StampDot, NextDot
<1>6. AW!Dot = Dot /\ AW!VClock = VClock /\ AW!NoDot = NoDot
  BY DEF AW!Dot, Dot, AW!VClock, VClock, AW!NoDot, NoDot
<1>7. AW!NoTomb = NoKeyTomb
  BY <1>6 DEF AW!NoTomb, NoKeyTomb, AW!EmptyClock, EmptyClock
<1>8. AW!Delta = AWPut \cup AWRemove
  BY <1>6 DEF AW!Delta, AWPut, AWRemove
<1>. QED BY <1>1, <1>2, <1>3, <1>4, <1>5, <1>6, <1>7, <1>8

\* A new map is empty.
LEMMA AWInitial == AW!Init => AWInv
<1>. SUFFICES ASSUME AW!Init PROVE AWInv
  OBVIOUS
<1>1. /\ ShellInit /\ puts = {} /\ removes = {}
      /\ entries = [r \in Replicas |-> [k \in Keys |-> NoDot]]
      /\ tombs = [r \in Replicas |-> [k \in Keys |-> NoKeyTomb]]
  BY AWCore DEF AW!Init
<1>2. CoreInv
  BY <1>1, CoreInitial
<1>3. AWType
  BY <1>1 DEF ShellInit, AWType, AWTomb
<1>4. PutsSound /\ AWSent /\ EntriesPut /\ TombsKnown
  BY <1>1 DEF ShellInit, PutsSound, AWSent, EntriesPut, TombsKnown
<1>5. StoredTracked
  BY <1>1 DEF StoredTracked
<1>. QED BY <1>2, <1>3, <1>4, <1>5 DEF AWInv

\* A put that the context of a remove of its key covers was observed.
LEMMA CoveredPutObserved ==
  ASSUME AWType, PutsSound, NEW p \in puts, NEW t, RemoveKnown(p.key, t),
         p.dot.cnt <= t.ctx[p.dot.rep], t.ctx \in VClock
  PROVE  \E w \in removes : AW!Observed(w, p.key, p.dot)
<1>1. PICK w \in removes :
        /\ w.key = p.key /\ w.dot = t.dot
        /\ \A s \in Replicas : \A n \in 1..t.ctx[s] : n \in w.seen[s] \/ DotOf(s, n) = w.dot
  BY DEF RemoveKnown
<1>2. p.dot \in Dot /\ p.dot.cnt \in 1..local[p.dot.rep] /\ p.dot # w.dot
  BY DEF AWType, PutsSound
<1>3. DotOf(p.dot.rep, p.dot.cnt) = p.dot /\ p.dot.rep \in Replicas /\ p.dot.cnt \in Nat
  BY <1>2 DEF Dot, DotOf
<1>4. p.dot.cnt \in 1..t.ctx[p.dot.rep]
  BY <1>2, <1>3 DEF VClock
<1>5. p.dot.cnt \in w.seen[p.dot.rep]
  BY <1>1, <1>2, <1>3, <1>4
<1>. QED BY <1>1, <1>5 DEF AW!Observed

\* Storing an entry or a tombstone under one key, and tracking the key
\* afterwards, keeps the invariant if both are what they should be.
LEMMA AWStoreStep ==
  ASSUME AWInv, CoreInv', AWType', PutsSound', AWSent',
         NEW r \in Replicas, NEW k \in Keys,
         puts \subseteq puts', removes \subseteq removes',
         \A q, s \in Replicas : Covered(q, s) \subseteq Covered(q, s)',
         \A q \in Replicas, j \in Keys : (q # r \/ j # k) =>
            entries'[q][j] = entries[q][j] /\ tombs'[q][j] = tombs[q][j],
         entries'[r][k] # NoDot => EntryPut(r, k)',
         tombs'[r][k] # NoKeyTomb => (RemoveKnown(k, tombs[r][k]))',
         AW!TrackKey(r, k, AW!Present(r, k)')
  PROVE  AWInv'
<1>1. EntriesPut'
  <2>. SUFFICES ASSUME NEW q \in Replicas, NEW j \in Keys, entries'[q][j] # NoDot
                PROVE  EntryPut(q, j)'
    BY DEF EntriesPut
  <2>1. CASE ~(q = r /\ j = k)
    <3>1. EntryPut(q, j) /\ entries'[q][j] = entries[q][j]
      BY <2>1 DEF AWInv, EntriesPut
    <3>2. \A p \in puts : p.dot.rep \in Replicas
      BY DEF AWInv, AWType, Dot
    <3>. QED BY <3>1, <3>2 DEF EntryPut
  <2>. QED BY <2>1
<1>2. TombsKnown'
  <2>. SUFFICES ASSUME NEW q \in Replicas, NEW j \in Keys, tombs'[q][j] # NoKeyTomb
                PROVE  (RemoveKnown(j, tombs[q][j]))'
    BY DEF TombsKnown
  <2>1. CASE ~(q = r /\ j = k)
    <3>1. RemoveKnown(j, tombs[q][j]) /\ tombs'[q][j] = tombs[q][j]
      BY <2>1 DEF AWInv, TombsKnown
    <3>. QED BY <3>1 DEF RemoveKnown
  <2>. QED BY <2>1
<1>3. StoredTracked'
  <2>. SUFFICES ASSUME NEW q \in Replicas, NEW j \in Keys,
                       entries'[q][j] # NoDot \/ tombs'[q][j] # NoKeyTomb
                PROVE  j \in tracked'[q]
    BY DEF StoredTracked
  <2>1. AW!Present(r, k)' <=> entries'[r][k] # NoDot \/ tombs'[r][k] # NoKeyTomb
    BY AWCore DEF AW!Present
  <2>2. tracked' = [tracked EXCEPT ![r] = IF AW!Present(r, k)' THEN @ \cup {k} ELSE @ \ {k}]
    BY DEF AW!TrackKey
  <2>3. tracked \in [Replicas -> SUBSET Keys]
    BY DEF AWInv, AWType
  <2>4. CASE q = r /\ j = k
    BY <2>1, <2>2, <2>3, <2>4
  <2>5. CASE ~(q = r /\ j = k)
    <3>1. j \in tracked[q]
      BY <2>5 DEF AWInv, StoredTracked
    <3>. QED BY <2>2, <2>3, <2>5, <3>1
  <2>. QED BY <2>4, <2>5
<1>. QED BY <1>1, <1>2, <1>3 DEF AWInv

\* AWLWWMap.Put (node.go, awlwwmap.go:31-44) keeps the invariant.
LEMMA AWPutStep ==
  ASSUME AWInv, NEW r \in Replicas, NEW k \in Keys, AW!Put(r, k)
  PROVE  AWInv' /\ AW!AddWinsStep
<1>. DEFINE n == local[r] + 1
            x == DotOf(r, n)
            p == [key |-> k, dot |-> x]
            d == [op |-> "put", key |-> k, dot |-> x]
<1>1. /\ StampDot(r)
      /\ entries' = [entries EXCEPT ![r][k] = x]
      /\ tombs' = [tombs EXCEPT ![r][k] = NoKeyTomb]
      /\ tracked' = [tracked EXCEPT ![r] = IF AW!Present(r, k)' THEN @ \cup {k} ELSE @ \ {k}]
      /\ wire' = wire \cup [to : Replicas \ {r}, via : {"push"}, delta : {d}]
      /\ puts' = puts \cup {p} /\ removes' = removes
      /\ known' = known /\ peerHWMs' = peerHWMs /\ digests' = digests
  BY AWCore DEF AW!Put, AW!PutDelta, AW!Store, AW!TrackKey, AW!Propagate, AW!Pushes, AW!Peers
<1>2. CoreInv /\ AWType /\ local \in [Replicas -> Nat]
  BY DEF AWInv, CoreInv, CoreType
<1>3. /\ CoreInv' /\ n \in Nat /\ n >= 1
      /\ local' = [local EXCEPT ![r] = n]
      /\ Covered(r, r)' = Covered(r, r) \cup {n}
      /\ \A q, s \in Replicas : (q # r \/ s # r) => Covered(q, s)' = Covered(q, s)
  <2>1. StampDot(r) /\ known' = known /\ peerHWMs' = peerHWMs /\ digests' = digests
    BY <1>1
  <2>. QED BY <1>2, <2>1, CoreStamp
<1>. HIDE DEF n
<1>4. x \in Dot /\ x.rep = r /\ x.cnt = n /\ x # NoDot
  BY <1>3 DEF Dot, DotOf, NoDot
<1>. HIDE DEF x
<1>5. /\ entries' \in [Replicas -> [Keys -> Dot \cup {NoDot}]]
      /\ entries'[r][k] = x
      /\ \A q \in Replicas, j \in Keys : (q # r \/ j # k) => entries'[q][j] = entries[q][j]
  BY <1>1, <1>2, <1>4 DEF AWType
<1>6. /\ tombs' \in [Replicas -> [Keys -> AWTomb]]
      /\ tombs'[r][k] = NoKeyTomb
      /\ \A q \in Replicas, j \in Keys : (q # r \/ j # k) => tombs'[q][j] = tombs[q][j]
  <2>1. NoKeyTomb \in AWTomb
    BY DEF AWTomb
  <2>. QED BY <1>1, <1>2, <2>1 DEF AWType
<1>7. AW!TrackKey(r, k, AW!Present(r, k)')
  BY DEF AW!Put
<1>8. AWType'
  <2>1. d \in AWPut /\ p \in [key : Keys, dot : Dot]
    BY <1>4 DEF AWPut
  <2>2. tracked' \in [Replicas -> SUBSET Keys]
    BY <1>1, <1>2 DEF AWType
  <2>3. wire' \subseteq [to : Replicas, via : {"push", "sync"}, delta : AWPut \cup AWRemove]
    BY <1>1, <1>2, <2>1 DEF AWType
  <2>4. puts' \subseteq [key : Keys, dot : Dot] /\ removes' = removes
    BY <1>1, <1>2, <2>1 DEF AWType
  <2>. QED BY <1>2, <1>5, <1>6, <2>2, <2>3, <2>4 DEF AWType
<1>9. \A y \in Dot : y.cnt \in 1..local[y.rep] =>
         /\ y # x /\ y.cnt \in 1..local'[y.rep]
         /\ \A q \in Replicas : y.cnt \in Covered(q, y.rep)' <=> y.cnt \in Covered(q, y.rep)
  BY <1>1, <1>2, OldDots DEF x, n
<1>10. /\ \A q \in puts : q.dot \in Dot /\ q.dot.cnt \in 1..local[q.dot.rep]
       /\ \A w \in removes : w.dot \in Dot /\ w.dot.cnt \in 1..local[w.dot.rep]
  BY <1>2 DEF AWInv, PutsSound, AWType
<1>11. PutsSound'
  <2>1. puts' = puts \cup {p} /\ removes' = removes
    BY <1>1
  <2>2. x.cnt \in 1..local'[r]
    BY <1>2, <1>3, <1>4
  <2>3. \A q \in puts' : q.dot.cnt \in 1..local'[q.dot.rep]
    BY <1>4, <1>9, <1>10, <2>1, <2>2
  <2>. QED BY <1>9, <1>10, <2>1, <2>3 DEF AWInv, PutsSound
<1>12. AWSent'
  <2>. SUFFICES ASSUME NEW m \in wire'
                PROVE  IF m.delta.op = "put"
                       THEN [key |-> m.delta.key, dot |-> m.delta.dot] \in puts'
                       ELSE RemoveKnown(m.delta.key, m.delta)'
    BY DEF AWSent
  <2>1. CASE m \in wire
    BY <1>1, <2>1 DEF AWInv, AWSent, RemoveKnown
  <2>2. CASE m \notin wire
    <3>1. m.delta = d
      BY <1>1, <2>2
    <3>. QED BY <1>1, <3>1
  <2>. QED BY <2>1, <2>2
<1>13. AWInv'
  <2>1. \A q, s \in Replicas : Covered(q, s) \subseteq Covered(q, s)'
    BY <1>3
  <2>2. EntryPut(r, k)'
    <3>1. PICK y \in puts' : y = p
      BY <1>1
    <3>2. y.key = k /\ y.dot = entries'[r][k] /\ y.dot.rep = r /\ y.dot.cnt = n
      BY <1>4, <1>5, <3>1
    <3>. QED BY <1>3, <3>2 DEF EntryPut
  <2>3. puts \subseteq puts' /\ removes \subseteq removes'
    BY <1>1
  <2>. HIDE DEF p, d
  <2>. QED BY <1>3, <1>5, <1>6, <1>7, <1>8, <1>11, <1>12, <2>1, <2>2, <2>3, AWStoreStep
<1>14. AW!AddWinsStep
  <2>1. \A q \in Replicas, j \in Keys : entries[q][j] # NoDot => entries'[q][j] # NoDot
    BY <1>4, <1>5
  <2>2. \A q \in Replicas : \A y \in puts : ~AW!Received(q, y.dot) => ~AW!Received(q, y.dot)'
    BY <1>9, <1>10 DEF AW!Received, AW!Covered, Covered
  <2>. QED BY <2>1, <2>2, AWCore DEF AW!AddWinsStep
<1>. QED BY <1>13, <1>14

\* AWLWWMap.Remove (node.go, awlwwmap.go:56-65) keeps the invariant: its context
\* is made of marks, and the entry that it takes out had been received.
LEMMA AWRemoveStep ==
  ASSUME AWInv, NEW r \in Replicas, NEW k \in Keys, AW!Remove(r, k)
  PROVE  AWInv' /\ AW!AddWinsStep
<1>. DEFINE n == local[r] + 1
            x == DotOf(r, n)
            ctx == hwm'[r]
            t == [dot |-> x, ctx |-> ctx]
            seen == [s \in Replicas |-> Covered(r, s)]
            w == [key |-> k, dot |-> x, seen |-> seen]
            d == [op |-> "remove", key |-> k, dot |-> x, ctx |-> ctx]
<1>1. /\ StampDot(r)
      /\ entries' = [entries EXCEPT ![r][k] = NoDot]
      /\ tombs' = [tombs EXCEPT ![r][k] = t]
      /\ AW!TrackKey(r, k, AW!Present(r, k)')
      /\ wire' = wire \cup [to : Replicas \ {r}, via : {"push"}, delta : {d}]
      /\ removes' = removes \cup {w} /\ puts' = puts
      /\ known' = known /\ peerHWMs' = peerHWMs /\ digests' = digests
  BY AWCore DEF AW!Remove, AW!RemoveDelta, AW!Store, AW!Propagate, AW!Pushes, AW!Peers,
                AW!Covered, Covered
<1>2. CoreInv /\ AWType /\ local \in [Replicas -> Nat]
  BY DEF AWInv, CoreInv, CoreType
<1>3. /\ CoreInv' /\ n \in Nat /\ n >= 1
      /\ local' = [local EXCEPT ![r] = n]
      /\ Covered(r, r)' = Covered(r, r) \cup {n}
      /\ \A q, s \in Replicas : (q # r \/ s # r) => Covered(q, s)' = Covered(q, s)
  <2>1. StampDot(r) /\ known' = known /\ peerHWMs' = peerHWMs /\ digests' = digests
    BY <1>1
  <2>. QED BY <1>2, <2>1, CoreStamp
<1>4. \A q, s \in Replicas : Covered(q, s) \subseteq 1..local[s]
  BY <1>2, CoveredBounds DEF CoreInv
<1>5. /\ ctx \in VClock
      /\ \A s \in Replicas : 1..ctx[s] \subseteq Covered(r, s)'
  BY <1>3 DEF CoreInv, CoreType, ReceivedType, Covered
<1>. HIDE DEF ctx
<1>6. \A y \in Dot : y.cnt \in 1..local[y.rep] =>
         /\ y # x /\ y.cnt \in 1..local'[y.rep]
         /\ \A q \in Replicas : y.cnt \in Covered(q, y.rep)' <=> y.cnt \in Covered(q, y.rep)
  <2>1. StampDot(r) /\ known' = known /\ peerHWMs' = peerHWMs /\ digests' = digests
    BY <1>1
  <2>. QED BY <1>2, <2>1, OldDots
<1>. HIDE DEF n
<1>7. /\ x \in Dot /\ x.rep = r /\ x.cnt = n
      /\ seen \in [Replicas -> SUBSET Nat] /\ \A s \in Replicas : seen[s] = Covered(r, s)
  BY <1>2, <1>3, <1>4 DEF Dot, DotOf
<1>8. \A s \in Replicas : \A c \in 1..ctx[s] : c \in seen[s] \/ DotOf(s, c) = x
  BY <1>3, <1>5, <1>7 DEF x
<1>. HIDE DEF x, seen
<1>9. /\ entries' \in [Replicas -> [Keys -> Dot \cup {NoDot}]]
      /\ entries'[r][k] = NoDot
      /\ \A q \in Replicas, j \in Keys : (q # r \/ j # k) => entries'[q][j] = entries[q][j]
  BY <1>1, <1>2 DEF AWType
<1>10. /\ tombs' \in [Replicas -> [Keys -> AWTomb]] /\ tombs'[r][k] = t
       /\ \A q \in Replicas, j \in Keys : (q # r \/ j # k) => tombs'[q][j] = tombs[q][j]
  <2>1. t \in AWTomb
    BY <1>5, <1>7 DEF AWTomb
  <2>2. tombs' = [tombs EXCEPT ![r][k] = t] /\ tombs \in [Replicas -> [Keys -> AWTomb]]
    BY <1>1, <1>2 DEF AWType
  <2>. HIDE DEF t
  <2>. QED BY <2>1, <2>2
<1>11. AWType'
  <2>1. d \in AWRemove /\ w \in [key : Keys, dot : Dot, seen : [Replicas -> SUBSET Nat]]
    BY <1>5, <1>7 DEF AWRemove
  <2>2. tracked' \in [Replicas -> SUBSET Keys]
    BY <1>1, <1>2 DEF AWType, AW!TrackKey
  <2>. HIDE DEF d, w, t
  <2>3. wire' \subseteq [to : Replicas, via : {"push", "sync"}, delta : AWPut \cup AWRemove]
    BY <1>1, <1>2, <2>1 DEF AWType
  <2>4. /\ removes' \subseteq [key : Keys, dot : Dot, seen : [Replicas -> SUBSET Nat]]
        /\ puts' = puts
    BY <1>1, <1>2, <2>1 DEF AWType
  <2>. QED BY <1>2, <1>9, <1>10, <2>2, <2>3, <2>4 DEF AWType
<1>12. /\ \A q \in puts : q.dot \in Dot /\ q.dot.cnt \in 1..local[q.dot.rep]
       /\ \A v \in removes : v.dot \in Dot /\ v.dot.cnt \in 1..local[v.dot.rep]
  BY <1>2 DEF AWInv, PutsSound, AWType
<1>13. PutsSound'
  <2>1. removes' = removes \cup {w} /\ puts' = puts
    BY <1>1
  <2>2. x.cnt \in 1..local'[r]
    BY <1>2, <1>3, <1>7
  <2>3. \A v \in removes' : v.dot.cnt \in 1..local'[v.dot.rep]
    BY <1>6, <1>7, <1>12, <2>1, <2>2
  <2>4. \A y \in puts : y.dot.cnt \in 1..local'[y.dot.rep] /\ y.dot # x
    BY <1>6, <1>12
  <2>. QED BY <2>1, <2>3, <2>4 DEF AWInv, PutsSound
\* The new tombstone and the new delta are known by the new remove.
<1>14. ASSUME NEW z, z.dot = x, z.ctx = ctx PROVE RemoveKnown(k, z)'
  <2>1. PICK v \in removes' : v = w
    BY <1>1
  <2>2. v.key = k /\ v.dot = z.dot /\ v.seen = seen
    BY <1>14, <2>1
  <2>. QED BY <1>8, <1>14, <2>2 DEF RemoveKnown
<1>15. AWSent'
  <2>. SUFFICES ASSUME NEW m \in wire'
                PROVE  IF m.delta.op = "put"
                       THEN [key |-> m.delta.key, dot |-> m.delta.dot] \in puts'
                       ELSE RemoveKnown(m.delta.key, m.delta)'
    BY DEF AWSent
  <2>1. CASE m \in wire
    BY <1>1, <2>1 DEF AWInv, AWSent, RemoveKnown
  <2>2. CASE m \notin wire
    <3>1. m.delta = d
      BY <1>1, <2>2
    <3>2. m.delta.op # "put" /\ m.delta.key = k /\ m.delta.dot = x /\ m.delta.ctx = ctx
      BY <3>1
    <3>. QED BY <1>14, <3>2
  <2>. QED BY <2>1, <2>2
<1>16. AWInv'
  <2>1. \A q, s \in Replicas : Covered(q, s) \subseteq Covered(q, s)'
    BY <1>3
  <2>2. (RemoveKnown(k, tombs[r][k]))'
    <3>1. PICK z : z = tombs'[r][k]
      OBVIOUS
    <3>2. z.dot = x /\ z.ctx = ctx
      BY <1>10, <3>1
    <3>. QED BY <1>14, <3>1, <3>2 DEF RemoveKnown
  <2>3. puts \subseteq puts' /\ removes \subseteq removes' /\ AW!TrackKey(r, k, AW!Present(r, k)')
    BY <1>1
  <2>. HIDE DEF d, w, t
  <2>. QED BY <1>3, <1>9, <1>10, <1>11, <1>13, <1>15, <2>1, <2>2, <2>3, AWStoreStep
<1>17. AW!AddWinsStep
  <2>1. ASSUME NEW q \in Replicas, NEW j \in Keys,
               entries[q][j] # NoDot, entries'[q][j] = NoDot
        PROVE  \E v \in removes' : AW!Observed(v, j, entries[q][j])
    <3>1. q = r /\ j = k
      BY <1>9, <2>1
    <3>2. PICK p \in puts : p.dot = entries[r][k] /\ p.dot.cnt \in Covered(r, p.dot.rep)
      BY <2>1, <3>1 DEF AWInv, EntriesPut, EntryPut
    <3>3. p.dot.rep \in Replicas
      BY <1>12 DEF Dot
    <3>4. PICK v \in removes' : v = w
      BY <1>1
    <3>5. v.key = k /\ v.seen = seen
      BY <3>4
    <3>. QED BY <1>7, <3>1, <3>2, <3>3, <3>5 DEF AW!Observed
  <2>2. \A q \in Replicas : \A y \in puts : ~AW!Received(q, y.dot) => ~AW!Received(q, y.dot)'
    BY <1>6, <1>12 DEF AW!Received, AW!Covered, Covered
  <2>. QED BY <2>1, <2>2, AWCore DEF AW!AddWinsStep
<1>. QED BY <1>16, <1>17

\* AWLWWMap.Put with a failing codec keeps the invariant: its dot is no put's.
LEMMA AWPutFailsStep ==
  ASSUME AWInv, NEW r \in Replicas, AW!PutFails(r)
  PROVE  AWInv' /\ AW!AddWinsStep
<1>1. /\ StampDot(r)
      /\ UNCHANGED <<tracked, known, peerHWMs, wire, digests, entries, tombs, puts, removes>>
  BY AWCore DEF AW!PutFails
<1>2. CoreInv /\ AWType
  BY DEF AWInv
<1>3. CoreInv' /\ \A q, s \in Replicas : Covered(q, s) \subseteq Covered(q, s)'
  BY <1>1, <1>2, CoreStamp
<1>4. \A y \in Dot : y.cnt \in 1..local[y.rep] =>
         /\ y.cnt \in 1..local'[y.rep]
         /\ \A q \in Replicas : y.cnt \in Covered(q, y.rep)' <=> y.cnt \in Covered(q, y.rep)
  BY <1>1, <1>2, OldDots
<1>5. /\ \A q \in puts : q.dot \in Dot /\ q.dot.cnt \in 1..local[q.dot.rep]
      /\ \A v \in removes : v.dot \in Dot /\ v.dot.cnt \in 1..local[v.dot.rep]
  BY <1>2 DEF AWInv, PutsSound, AWType
<1>6. AWType' /\ PutsSound'
  BY <1>1, <1>2, <1>4, <1>5 DEF AWInv, AWType, PutsSound
<1>7. AWSent' /\ TombsKnown' /\ StoredTracked'
  BY <1>1 DEF AWInv, AWSent, TombsKnown, RemoveKnown, StoredTracked
<1>8. EntriesPut'
  BY <1>1, <1>4, <1>5 DEF AWInv, EntriesPut, EntryPut
<1>9. AW!AddWinsStep
  <2>1. \A q \in Replicas : \A y \in puts : ~AW!Received(q, y.dot) => ~AW!Received(q, y.dot)'
    BY <1>4, <1>5 DEF AW!Received, AW!Covered, Covered
  <2>. QED BY <1>1, <2>1 DEF AW!AddWinsStep
<1>. QED BY <1>3, <1>6, <1>7, <1>8, <1>9 DEF AWInv

\* addWinsClock.Allows and applyDelta (clock_addwins.go:18-74,
\* replica.go:136-157) keep the invariant.  A put that is refused found a
\* greater put or the tombstone of a remove that had observed it; a remove that
\* is applied had observed the entry.
LEMMA AWReceiveDeltaStep ==
  ASSUME AWInv, NEW r \in Replicas, NEW m \in wire, AW!ReceiveDelta(r, m)
  PROVE  AWInv' /\ AW!AddWinsStep
<1>. DEFINE d == m.delta
            k == d.key
<1>1. CoreInv /\ AWType /\ PutsSound /\ local \in [Replicas -> Nat]
  BY DEF AWInv, CoreInv, CoreType
<1>2. d \in AWPut \cup AWRemove
  BY <1>1 DEF AWType
<1>3. /\ k \in Keys /\ d.dot \in Dot /\ d.dot.rep \in Replicas /\ d.op \in {"put", "remove"}
      /\ d.op = "remove" => d.ctx \in VClock /\ d \in AWRemove
  BY <1>2 DEF AWPut, AWRemove, Dot
<1>4. IF d.op = "put" THEN [key |-> k, dot |-> d.dot] \in puts ELSE RemoveKnown(k, d)
  BY DEF AWInv, AWSent
<1>5. d.dot.cnt \in 1..local[d.dot.rep]
  <2>1. CASE d.op = "put"
    <3>1. PICK p \in puts : p.dot = d.dot
      BY <1>4, <2>1
    <3>. QED BY <1>1, <3>1 DEF PutsSound
  <2>2. CASE d.op # "put"
    BY <1>1, <1>4, <2>2 DEF PutsSound, RemoveKnown
  <2>. QED BY <2>1, <2>2
<1>6. /\ wire' \subseteq wire
      /\ IF AW!Allows(r, d) THEN AW!Store(r, d) ELSE UNCHANGED <<entries, tombs>>
      /\ RecordDots(r, Singleton(d.dot))
      /\ AW!TrackKey(r, k, AW!Present(r, k)')
      /\ UNCHANGED <<local, known, peerHWMs, digests, puts, removes>>
  BY <1>3, AWCore DEF AW!ReceiveDelta, AW!Remaining
<1>. HIDE DEF d
<1>7. /\ Singleton(d.dot) \in VClock
      /\ Singleton(d.dot)[d.dot.rep] = d.dot.cnt
      /\ \A s \in Replicas \ {d.dot.rep} : Singleton(d.dot)[s] = 0
  BY <1>3 DEF Singleton, VClock, Dot
<1>8. \A s \in Replicas : local'[s] >= local[s] /\ Singleton(d.dot)[s] <= local'[s]
  <2>1. local' = local /\ \A s \in Replicas : local[s] \in Nat
    BY <1>1, <1>6
  <2>. QED BY <1>3, <1>5, <1>7, <2>1
<1>9. /\ CoreInv'
      /\ \A s \in Replicas : Covered(r, s)' = Covered(r, s) \cup
            (IF Singleton(d.dot)[s] = 0 THEN {} ELSE {Singleton(d.dot)[s]})
      /\ \A q \in Replicas \ {r}, s \in Replicas : Covered(q, s)' = Covered(q, s)
  <2>1. /\ RecordDots(r, Singleton(d.dot)) /\ local' \in [Replicas -> Nat]
        /\ known' = known /\ peerHWMs' = peerHWMs /\ digests' = digests
    BY <1>1, <1>6
  <2>. QED BY <1>1, <1>7, <1>8, <2>1, CoreRecord
<1>10. /\ \A q, s \in Replicas : Covered(q, s) \subseteq Covered(q, s)'
       /\ d.dot.cnt \in Covered(r, d.dot.rep)'
       /\ \A y \in Dot, q \in Replicas :
             (y.cnt \in Covered(q, y.rep)' /\ y.cnt \notin Covered(q, y.rep))
               => q = r /\ y = d.dot
  <2>1. \A q, s \in Replicas : Covered(q, s) \subseteq Covered(q, s)'
    BY <1>9
  <2>2. d.dot.cnt \in Covered(r, d.dot.rep)'
    BY <1>1, <1>3, <1>5, <1>7, <1>9
  <2>3. ASSUME NEW y \in Dot, NEW q \in Replicas,
               y.cnt \in Covered(q, y.rep)', y.cnt \notin Covered(q, y.rep)
        PROVE  q = r /\ y = d.dot
    <3>1. y.rep \in Replicas
      BY DEF Dot
    <3>2. q = r /\ y.rep = d.dot.rep /\ y.cnt = d.dot.cnt
      BY <1>3, <1>7, <1>9, <2>3, <3>1
    <3>. QED BY <1>3, <3>2 DEF Dot
  <2>. QED BY <2>1, <2>2, <2>3
\* The key afterwards.
<1>. DEFINE e == IF AW!Allows(r, d) THEN IF d.op = "put" THEN d.dot ELSE NoDot ELSE entries[r][k]
            t == IF AW!Allows(r, d)
                 THEN IF d.op = "put" THEN NoKeyTomb ELSE [dot |-> d.dot, ctx |-> d.ctx]
                 ELSE tombs[r][k]
<1>11. entries[r][k] \in Dot \cup {NoDot} /\ tombs[r][k] \in AWTomb
  BY <1>1, <1>3 DEF AWType
<1>12. e \in Dot \cup {NoDot} /\ t \in AWTomb
  BY <1>3, <1>11 DEF AWTomb
<1>13. entries' = [entries EXCEPT ![r][k] = e] /\ tombs' = [tombs EXCEPT ![r][k] = t]
  <2>1. CASE AW!Allows(r, d)
    BY <1>6, <2>1, AWCore DEF AW!Store
  <2>2. CASE ~AW!Allows(r, d)
    BY <1>1, <1>6, <2>2 DEF AWType
  <2>. QED BY <2>1, <2>2
<1>. HIDE DEF e, t
<1>14. /\ entries' \in [Replicas -> [Keys -> Dot \cup {NoDot}]] /\ entries'[r][k] = e
       /\ tombs' \in [Replicas -> [Keys -> AWTomb]] /\ tombs'[r][k] = t
       /\ \A q \in Replicas, j \in Keys : (q # r \/ j # k) =>
            entries'[q][j] = entries[q][j] /\ tombs'[q][j] = tombs[q][j]
  BY <1>1, <1>3, <1>12, <1>13 DEF AWType
<1>15. AWType'
  <2>1. tracked' \in [Replicas -> SUBSET Keys]
    BY <1>1, <1>3, <1>6 DEF AWType, AW!TrackKey
  <2>2. wire' \subseteq wire /\ puts' = puts /\ removes' = removes
    BY <1>6
  <2>. QED BY <1>1, <1>14, <2>1, <2>2 DEF AWType
<1>16. PutsSound' /\ AWSent'
  <2>1. wire' \subseteq wire /\ puts' = puts /\ removes' = removes /\ local' = local
    BY <1>6
  <2>2. PutsSound'
    BY <1>1, <2>1 DEF PutsSound
  <2>3. AWSent'
    BY <2>1 DEF AWInv, AWSent, RemoveKnown
  <2>. QED BY <2>2, <2>3
<1>17. ASSUME e # NoDot PROVE EntryPut(r, k)'
  <2>1. \E p \in puts : p.key = k /\ p.dot = e /\ p.dot.cnt \in Covered(r, p.dot.rep)'
    <3>1. CASE e = d.dot /\ d.op = "put"
      <4>1. PICK p \in puts : p.key = k /\ p.dot = d.dot
        BY <1>4, <3>1
      <4>. QED BY <1>10, <3>1, <4>1
    <3>2. CASE e = entries[r][k]
      <4>1. PICK p \in puts : p.key = k /\ p.dot = entries[r][k] /\ p.dot.cnt \in Covered(r, p.dot.rep)
        BY <1>3, <1>17, <3>2 DEF AWInv, EntriesPut, EntryPut
      <4>2. p.dot.rep \in Replicas
        BY <1>1 DEF AWType, Dot
      <4>. QED BY <1>10, <3>2, <4>1, <4>2
    <3>. QED BY <1>17, <3>1, <3>2 DEF e
  <2>2. puts' = puts
    BY <1>6
  <2>. QED BY <1>14, <2>1, <2>2 DEF EntryPut
<1>18. ASSUME t # NoKeyTomb PROVE (RemoveKnown(k, tombs[r][k]))'
  <2>1. RemoveKnown(k, t)
    <3>1. CASE AW!Allows(r, d) /\ d.op # "put"
      BY <1>4, <3>1 DEF RemoveKnown, t
    <3>2. CASE t = tombs[r][k]
      BY <1>3, <1>18, <3>2 DEF AWInv, TombsKnown
    <3>. QED BY <1>18, <3>1, <3>2 DEF t
  <2>2. removes' = removes
    BY <1>6
  <2>. QED BY <1>14, <2>1, <2>2 DEF RemoveKnown
<1>19. AWInv'
  <2>1. puts \subseteq puts' /\ removes \subseteq removes'
    BY <1>6
  <2>2. AW!TrackKey(r, k, AW!Present(r, k)')
    BY <1>6
  <2>. QED BY <1>3, <1>9, <1>10, <1>14, <1>15, <1>16, <1>17, <1>18, <2>1, <2>2, AWStoreStep
<1>20. AW!AddWinsStep
  <2>1. ASSUME NEW q \in Replicas, NEW j \in Keys,
               entries[q][j] # NoDot, entries'[q][j] = NoDot
        PROVE  \E v \in removes' : AW!Observed(v, j, entries[q][j])
    <3>1. q = r /\ j = k /\ e = NoDot
      BY <1>14, <2>1
    <3>2. PICK p \in puts : p.key = k /\ p.dot = entries[r][k]
      BY <1>3, <2>1, <3>1 DEF AWInv, EntriesPut, EntryPut
    <3>3. AW!Allows(r, d) /\ d.op # "put"
      <4>1. d.op = "put" => d.dot # NoDot
        BY <1>1, <1>5, <1>3 DEF NoDot
      <4>. QED BY <2>1, <3>1, <4>1 DEF e
    <3>4. p.dot.cnt <= d.ctx[p.dot.rep]
      BY <2>1, <3>1, <3>2, <3>3, AWCore DEF AW!Allows
    <3>5. \E v \in removes : AW!Observed(v, p.key, p.dot)
      BY <1>1, <1>3, <1>4, <3>2, <3>3, <3>4, CoveredPutObserved
    <3>. QED BY <1>6, <3>1, <3>2, <3>5
  <2>2. ASSUME NEW q \in Replicas, NEW p \in puts,
               ~AW!Received(q, p.dot), AW!Received(q, p.dot)'
        PROVE  entries'[q][p.key] # NoDot \/ \E v \in removes : AW!Observed(v, p.key, p.dot)
    <3>1. q = r /\ p.dot = d.dot
      BY <1>1, <1>10, <2>2 DEF AW!Received, AW!Covered, Covered, AWType
    <3>2. d.op = "put" /\ p.key = k /\ d.dot # NoDot
      <4>1. d.op = "put"
        BY <1>1, <1>4, <3>1 DEF PutsSound, RemoveKnown
      <4>2. PICK y \in puts : y.key = k /\ y.dot = d.dot
        BY <1>4, <4>1
      <4>3. d.dot # NoDot
        BY <1>1, <1>3, <1>5 DEF NoDot
      <4>. QED BY <1>1, <3>1, <4>1, <4>2, <4>3 DEF PutsSound
    <3>3. CASE AW!Allows(r, d) \/ entries[r][k] # NoDot
      BY <1>14, <3>1, <3>2, <3>3 DEF e
    <3>4. CASE ~AW!Allows(r, d) /\ entries[r][k] = NoDot
      <4>1. tombs[r][k] # NoKeyTomb /\ ~(d.dot.cnt > tombs[r][k].ctx[d.dot.rep])
        BY <3>2, <3>4, AWCore DEF AW!Allows
      <4>2. RemoveKnown(k, tombs[r][k]) /\ tombs[r][k].ctx \in VClock
        BY <1>3, <1>11, <4>1 DEF AWInv, TombsKnown, AWTomb
      <4>3. p.dot.cnt <= tombs[r][k].ctx[p.dot.rep]
        BY <1>3, <3>1, <4>1, <4>2 DEF Dot, VClock
      <4>. QED BY <1>1, <3>2, <4>2, <4>3, CoveredPutObserved
    <3>. QED BY <3>3, <3>4
  <2>. QED BY <2>1, <2>2, AWCore DEF AW!AddWinsStep
<1>. QED BY <1>19, <1>20

\* Anti-entropy (replica.go:230-282) and lost messages keep the invariant and
\* change no map.
LEMMA AWGossipStep ==
  ASSUME AWInv,
         \/ \E r \in Replicas : AW!SendDigests(r)
         \/ \E r \in Replicas, m \in digests : AW!ReceiveDigest(r, m)
         \/ AW!Lose
  PROVE  AWInv' /\ AW!AddWinsStep
<1>1. CoreInv /\ AWType
  BY DEF AWInv
<1>. DEFINE Sound(x) == /\ x \in AWPut \cup AWRemove
                        /\ IF x.op = "put" THEN [key |-> x.key, dot |-> x.dot] \in puts
                                           ELSE RemoveKnown(x.key, x)
<1>2. ASSUME NEW r \in Replicas, AW!SendDigests(r)
      PROVE  /\ CoreInv' /\ \A q, s \in Replicas : Covered(q, s)' = Covered(q, s)
             /\ UNCHANGED <<local, tracked, entries, tombs, puts, removes, wire>>
  <2>1. /\ digests' = digests \cup {Digest(r, p) : p \in Peers(r)}
        /\ UNCHANGED <<local, hwm, pending, tracked, known, peerHWMs, wire>>
        /\ UNCHANGED <<entries, tombs, puts, removes>>
    BY <1>2 DEF AW!SendDigests, AW!BroadcastDigest, AW!Digest, Digest, AW!Peers, Peers
  <2>. QED BY <1>1, <2>1, CoreBroadcast
<1>3. ASSUME NEW r \in Replicas, NEW m \in digests, AW!ReceiveDigest(r, m)
      PROVE  /\ CoreInv' /\ \A q, s \in Replicas : Covered(q, s)' = Covered(q, s)
             /\ UNCHANGED <<local, tracked, entries, tombs, puts, removes>>
             /\ \A x \in wire' : x \in wire \/
                   /\ x \in [to : Replicas, via : {"push", "sync"}, delta : AWPut \cup AWRemove]
                   /\ Sound(x.delta)
  <2>. DEFINE sent == AW!DeltasSince(r, m.hwm)
  <2>1. ASSUME NEW k \in Keys, entries[r][k] # NoDot
        PROVE  Sound(AW!PutDelta(k, entries[r][k]))
    <3>1. PICK p \in puts : p.key = k /\ p.dot = entries[r][k]
      BY <2>1 DEF AWInv, EntriesPut, EntryPut
    <3>2. p \in [key : Keys, dot : Dot]
      BY <1>1 DEF AWType
    <3>3. p = [key |-> k, dot |-> entries[r][k]] /\ entries[r][k] \in Dot
      BY <3>1, <3>2
    <3>. QED BY <3>3 DEF AW!PutDelta, AWPut
  <2>2. ASSUME NEW k \in Keys, tombs[r][k] # NoKeyTomb
        PROVE  Sound(AW!RemoveDelta(k, tombs[r][k]))
    <3>1. RemoveKnown(k, tombs[r][k]) /\ tombs[r][k] \in [dot : Dot, ctx : VClock]
      BY <1>1, <2>2 DEF AWInv, TombsKnown, AWType, AWTomb
    <3>. QED BY <3>1 DEF AW!RemoveDelta, AWRemove, RemoveKnown
  <2>3. \A x \in sent : Sound(x)
    <3>. HIDE DEF Sound
    <3>. QED BY <2>1, <2>2, AWCore DEF AW!DeltasSince
  <2>4. /\ digests' \subseteq digests
        /\ known' = [known EXCEPT ![r] = @ \cup {m.from}]
        /\ peerHWMs' = [peerHWMs EXCEPT ![r][m.from] = m.hwm]
        /\ wire' \subseteq wire \cup [to : {m.from}, via : {"sync"}, delta : sent]
        /\ UNCHANGED <<local, hwm, pending, tracked, entries, tombs, puts, removes>>
    BY <1>3 DEF AW!ReceiveDigest, AW!AnswerDigest, AW!Remaining, AW!Syncs
  <2>. HIDE DEF sent
  <2>5. /\ CoreInv' /\ \A q, s \in Replicas : Covered(q, s)' = Covered(q, s)
        /\ m.from \in Replicas
    BY <1>1, <2>4, CoreAnswer
  <2>. QED BY <2>3, <2>4, <2>5
<1>4. ASSUME AW!Lose
      PROVE  /\ CoreInv' /\ \A q, s \in Replicas : Covered(q, s)' = Covered(q, s)
             /\ UNCHANGED <<local, tracked, entries, tombs, puts, removes>> /\ wire' \subseteq wire
  <2>1. /\ wire' \subseteq wire /\ digests' \subseteq digests
        /\ UNCHANGED <<local, hwm, pending, tracked, known, peerHWMs>>
        /\ UNCHANGED <<entries, tombs, puts, removes>>
    BY <1>4 DEF AW!Lose, AW!LoseDelta, AW!LoseDigest
  <2>. QED BY <1>1, <2>1, CoreUnchanged
<1>5. /\ CoreInv' /\ \A q, s \in Replicas : Covered(q, s)' = Covered(q, s)
      /\ UNCHANGED <<local, tracked, entries, tombs, puts, removes>>
      /\ \A x \in wire' : x \in wire \/
            /\ x \in [to : Replicas, via : {"push", "sync"}, delta : AWPut \cup AWRemove]
            /\ Sound(x.delta)
  <2>. HIDE DEF Sound
  <2>. QED BY <1>2, <1>3, <1>4
<1>6. AWType' /\ PutsSound' /\ AWSent' /\ TombsKnown' /\ StoredTracked'
  <2>1. UNCHANGED <<local, tracked, entries, tombs, puts, removes>>
    BY <1>5
  <2>2. PutsSound' /\ StoredTracked'
    BY <2>1 DEF AWInv, PutsSound, StoredTracked
  <2>3. TombsKnown'
    BY <2>1 DEF AWInv, TombsKnown, RemoveKnown
  <2>4. wire' \subseteq [to : Replicas, via : {"push", "sync"}, delta : AWPut \cup AWRemove]
    <3>. HIDE DEF Sound
    <3>. QED BY <1>1, <1>5 DEF AWType
  <2>5. AWType'
    BY <2>1, <2>4 DEF AWInv, AWType
  <2>6. AWSent'
    BY <1>5 DEF AWInv, AWSent, RemoveKnown
  <2>. QED BY <2>2, <2>3, <2>5, <2>6
<1>7. \A p \in puts : p.dot.rep \in Replicas
  BY <1>1 DEF AWType, Dot
<1>8. EntriesPut'
  BY <1>5, <1>7 DEF AWInv, EntriesPut, EntryPut
<1>9. AW!AddWinsStep
  <2>1. \A q \in Replicas : \A y \in puts : ~AW!Received(q, y.dot) => ~AW!Received(q, y.dot)'
    BY <1>5, <1>7 DEF AW!Received, AW!Covered, Covered
  <2>. QED BY <1>5, <2>1 DEF AW!AddWinsStep
<1>. QED BY <1>5, <1>6, <1>8, <1>9 DEF AWInv

\* Every step of a group of maps keeps the invariant and lets puts win.
LEMMA AWStep == AWInv /\ AW!Next => AWInv' /\ AW!AddWinsStep
<1>. SUFFICES ASSUME AWInv, AW!Next PROVE AWInv' /\ AW!AddWinsStep
  OBVIOUS
<1>1. CASE \E r \in Replicas, k \in Keys : AW!Put(r, k)
  BY <1>1, AWPutStep
<1>2. CASE \E r \in Replicas : AW!PutFails(r)
  BY <1>2, AWPutFailsStep
<1>3. CASE \E r \in Replicas, k \in Keys : AW!Remove(r, k)
  BY <1>3, AWRemoveStep
<1>4. CASE \E r \in Replicas, m \in wire : AW!ReceiveDelta(r, m)
  BY <1>4, AWReceiveDeltaStep
<1>5. CASE \/ \E r \in Replicas : AW!SendDigests(r)
           \/ \E r \in Replicas, m \in digests : AW!ReceiveDigest(r, m)
           \/ AW!Lose
  BY <1>5, AWGossipStep
<1>. QED BY <1>1, <1>2, <1>3, <1>4, <1>5 DEF AW!Next

\* What a map with the invariant promises: its types, and that the answer to a
\* digest has the entries and the tombstones that its sender lacks.
LEMMA AWConsequences == AWInv => AW!TypeOK /\ AW!DigestAnswerComplete
<1>. SUFFICES ASSUME AWInv PROVE AW!TypeOK /\ AW!DigestAnswerComplete
  OBVIOUS
<1>1. AW!TypeOK
  BY AWCore DEF AWInv, CoreInv, CoreType, ReceivedType, AWType, AWTomb, AW!TypeOK
<1>2. ASSUME NEW m \in digests, NEW y \in Dot, y.cnt \in 1..local[y.rep],
             ~AW!Received(m.from, y)
      PROVE  y.cnt > m.hwm[y.rep]
  BY <1>2, UnreportedIfLacking DEF AWInv, AW!Received, AW!Covered, Covered
<1>3. ASSUME NEW m \in digests, NEW k \in Keys
      PROVE  /\ (entries[m.to][k] # NoDot /\ ~AW!Received(m.from, entries[m.to][k]))
                   => AW!PutDelta(k, entries[m.to][k]) \in AW!DeltasSince(m.to, m.hwm)
                      /\ ~AW!SameHash(m.to, m)
             /\ (tombs[m.to][k] # NoKeyTomb /\ ~AW!Received(m.from, tombs[m.to][k].dot))
                   => AW!RemoveDelta(k, tombs[m.to][k]) \in AW!DeltasSince(m.to, m.hwm)
                      /\ ~AW!SameHash(m.to, m)
  <2>1. m.to \in Replicas /\ AWType /\ PutsSound
    BY DEF AWInv, CoreInv, CoreType
  <2>2. (entries[m.to][k] # NoDot \/ tombs[m.to][k] # NoKeyTomb) => ~AW!SameHash(m.to, m)
    BY <2>1 DEF AWInv, StoredTracked, AW!SameHash
  <2>3. ASSUME entries[m.to][k] # NoDot, ~AW!Received(m.from, entries[m.to][k])
        PROVE  AW!PutDelta(k, entries[m.to][k]) \in AW!DeltasSince(m.to, m.hwm)
    <3>1. entries[m.to][k] \in Dot /\ entries[m.to][k].cnt \in 1..local[entries[m.to][k].rep]
      BY <2>1, <2>3 DEF AWInv, EntriesPut, EntryPut, AWType, PutsSound
    <3>2. entries[m.to][k].cnt > m.hwm[entries[m.to][k].rep]
      BY <1>2, <2>3, <3>1
    <3>. QED BY <2>3, <3>2, AWCore DEF AW!DeltasSince
  <2>4. ASSUME tombs[m.to][k] # NoKeyTomb, ~AW!Received(m.from, tombs[m.to][k].dot)
        PROVE  AW!RemoveDelta(k, tombs[m.to][k]) \in AW!DeltasSince(m.to, m.hwm)
    <3>1. RemoveKnown(k, tombs[m.to][k])
      BY <2>1, <2>4 DEF AWInv, TombsKnown
    <3>2. PICK w \in removes : w.dot = tombs[m.to][k].dot
      BY <3>1 DEF RemoveKnown
    <3>3. w.dot \in Dot /\ w.dot.cnt \in 1..local[w.dot.rep]
      BY <2>1 DEF AWType, PutsSound
    <3>4. w.dot.cnt > m.hwm[w.dot.rep]
      BY <1>2, <2>4, <3>2, <3>3
    <3>. QED BY <2>4, <3>2, <3>4, AWCore DEF AW!DeltasSince
  <2>. QED BY <2>2, <2>3, <2>4
<1>4. AW!DigestAnswerComplete
  BY <1>3, AWCore DEF AW!DigestAnswerComplete
<1>. QED BY <1>1, <1>4
-----------------------------------------------------------------------------
(* DeltaMap.  The members of all keys behave like the elements of one set. *)
(* A remove of a member or of a key carries the marks of the remover, which *)
(* cover what it had received and the remove itself, no add.  So an add    *)
(* that is pruned, whichever of the contexts covers it, was observed.      *)

MemberTomb == [dot : Dot, ctx : VClock] \cup {NoKeyTomb}

MemberAdd == [elem : Members, dot : Dot]

MemberRemove == [elem : Members, dot : Dot, ctx : VClock, seen : [Replicas -> SUBSET Nat]]

DMDelta == [op : {"add"}, elem : Members, dots : VClock] \cup
           [op : {"remove"}, elem : Members, dot : Dot, ctx : VClock] \cup
           [op : {"removeKey"}, key : Keys, dot : Dot, ctx : VClock]

DMType == /\ tracked \in [Replicas -> SUBSET Keys]
          /\ created \in [Replicas -> SUBSET Keys]
          /\ keyTombs \in [Replicas -> [Keys -> MemberTomb]]
          /\ memberEntries \in [Replicas -> [Members -> VClock]]
          /\ memberTombs \in [Replicas -> [Members -> MemberTomb]]
          /\ memberAdds \subseteq MemberAdd
          /\ memberRemoves \subseteq MemberRemove

\* A dot that was stamped, for no add.
RemoveDot(x) == x.cnt \in 1..local[x.rep] /\ \A a \in memberAdds : a.dot # x

\* Adds have dots that their replicas have stamped, each its own; the context
\* of a remove covers what the remover had received and the remove's dot.
MembersSound ==
    /\ \A a \in memberAdds : a.dot.cnt \in 1..local[a.dot.rep]
    /\ \A a, b \in memberAdds : a.dot = b.dot => a.elem = b.elem
    /\ \A w \in memberRemoves :
          /\ RemoveDot(w.dot)
          /\ \A s \in Replicas : \A n \in 1..w.ctx[s] : n \in w.seen[s] \/ DotOf(s, n) = w.dot

MemberObserved(a) ==
    \E w \in memberRemoves : w.elem = a.elem /\ a.dot.cnt \in w.seen[a.dot.rep]

\* The context of a remove of the member, or of the members of the key.
MemberCtx(e, ctx) == \E w \in memberRemoves : w.elem = e /\ w.ctx = ctx

KeyCtx(k, ctx) == \A e \in Members : e[1] = k => MemberCtx(e, ctx)

\* Every dot of the dot map is that of an add of e.
MemberDots(e, dots) ==
    \A s \in Replicas : dots[s] > 0 => [elem |-> e, dot |-> DotOf(s, dots[s])] \in memberAdds

DeltaKnown(d) == \/ d.op = "add" /\ MemberDots(d.elem, d.dots)
                 \/ d.op = "remove" /\ RemoveDot(d.dot) /\ MemberCtx(d.elem, d.ctx)
                 \/ d.op = "removeKey" /\ RemoveDot(d.dot) /\ KeyCtx(d.key, d.ctx)

DMSent == \A m \in wire :
             /\ m \in [to : Replicas, via : {"push", "sync"}, delta : DMDelta]
             /\ DeltaKnown(m.delta)

\* What r holds of member e: dots of adds of e that r has received, and none
\* is missing that no remover had observed.
MemberHeld(r, e) ==
    /\ \A s \in Replicas : memberEntries[r][e][s] > 0 => memberEntries[r][e][s] \in Covered(r, s)
    /\ MemberDots(e, memberEntries[r][e])
    /\ \A a \in memberAdds :
          (a.elem = e /\ a.dot.cnt \in Covered(r, a.dot.rep))
            => memberEntries[r][e][a.dot.rep] >= a.dot.cnt \/ MemberObserved(a)

\* A member with a dot or a tombstone has a key with an entry.
MemberStored(r, e) ==
    memberEntries[r][e] # EmptyClock \/ memberTombs[r][e] # NoKeyTomb => e[1] \in created[r]

MemberTombSound(r, e) ==
    memberTombs[r][e] # NoKeyTomb =>
        RemoveDot(memberTombs[r][e].dot) /\ MemberCtx(e, memberTombs[r][e].ctx)

KeyTombSound(r, k) ==
    keyTombs[r][k] # NoKeyTomb =>
        RemoveDot(keyTombs[r][k].dot) /\ KeyCtx(k, keyTombs[r][k].ctx)

ReplicaSound(r) ==
    /\ \A e \in Members : MemberHeld(r, e) /\ MemberStored(r, e) /\ MemberTombSound(r, e)
    /\ \A k \in Keys : KeyTombSound(r, k)

DMInv == /\ CoreInv
         /\ DMType
         /\ MembersSound
         /\ DMSent
         /\ \A r \in Replicas : ReplicaSound(r)

\* The core of a map of sets is that of Replica, and its clocks are those of
\* Clocks.
LEMMA DMCore ==
  /\ DM!ShellInit => ShellInit
  /\ \A r \in Replicas : DM!StampDot(r) => StampDot(r)
  /\ \A r \in Replicas, dots \in VClock : DM!RecordDots(r, dots) => RecordDots(r, dots)
  /\ DM!Dot = Dot /\ DM!VClock = VClock /\ DM!NoTomb = NoKeyTomb /\ DM!EmptyClock = EmptyClock
  /\ \A r \in Replicas : DM!NextDot(r) = DotOf(r, local[r] + 1)
  /\ \A d : DM!Singleton(d) = Singleton(d)
  /\ \A v, u : DM!CombineDots(v, u) = CombineDots(v, u) /\ DM!Surviving(v, u) = Surviving(v, u)
  /\ DM!MapDelta = DMDelta
<1>1. DM!ShellInit => ShellInit
  BY DEF DM!ShellInit, ShellInit, DM!EmptyClock, EmptyClock
<1>2. ASSUME NEW r \in Replicas, NEW dots, DM!RecordDots(r, dots)
      PROVE  RecordDots(r, dots)
  BY <1>2 DEF DM!RecordDots, RecordDots, DM!RecordHWM, RecordHWM,
              DM!RecordPending, RecordPending, DM!AdvanceHWM, AdvanceHWM
<1>3. \A d : DM!Singleton(d) = Singleton(d)
  BY DEF DM!Singleton, Singleton
<1>4. \A r \in Replicas : DM!NextDot(r) = DotOf(r, local[r] + 1)
  BY DEF DM!NextDot, DM!DotOf, DotOf
<1>5. ASSUME NEW r \in Replicas, DM!StampDot(r) PROVE StampDot(r)
  BY <1>2, <1>3, <1>4, <1>5 DEF DM!StampDot, StampDot, NextDot
<1>6. DM!Dot = Dot /\ DM!VClock = VClock /\ DM!EmptyClock = EmptyClock
  BY DEF DM!Dot, Dot, DM!VClock, VClock, DM!EmptyClock, EmptyClock
<1>7. DM!NoTomb = NoKeyTomb
  BY <1>6 DEF DM!NoTomb, NoKeyTomb, DM!NoDot, NoDot
<1>8. \A v, u : DM!CombineDots(v, u) = CombineDots(v, u)
  BY DEF DM!CombineDots, CombineDots, DM!Larger, Larger
<1>9. \A v, u : DM!Surviving(v, u) = Surviving(v, u)
  BY DEF DM!Surviving, Surviving
<1>10. DM!MapDelta = DMDelta
  BY <1>6 DEF DM!MapDelta, DM!Delta, DMDelta
<1>. QED BY <1>1, <1>2, <1>3, <1>4, <1>5, <1>6, <1>7, <1>8, <1>9, <1>10

\* A new map is empty.
LEMMA DMInitial == DM!MapInit => DMInv
<1>. SUFFICES ASSUME DM!MapInit PROVE DMInv
  OBVIOUS
<1>1. /\ ShellInit /\ memberAdds = {} /\ memberRemoves = {}
      /\ created = [r \in Replicas |-> {}]
      /\ keyTombs = [r \in Replicas |-> [k \in Keys |-> NoKeyTomb]]
      /\ memberEntries = [r \in Replicas |-> [e \in Members |-> EmptyClock]]
      /\ memberTombs = [r \in Replicas |-> [e \in Members |-> NoKeyTomb]]
  BY DMCore DEF DM!MapInit, DM!Init
<1>2. CoreInv
  BY <1>1, CoreInitial
<1>3. DMType
  BY <1>1 DEF ShellInit, DMType, MemberTomb, EmptyClock, VClock
<1>4. MembersSound /\ DMSent
  BY <1>1 DEF ShellInit, MembersSound, DMSent
<1>5. ASSUME NEW r \in Replicas PROVE ReplicaSound(r)
  <2>1. ASSUME NEW e \in Members
        PROVE  MemberHeld(r, e) /\ MemberStored(r, e) /\ MemberTombSound(r, e)
    BY <1>1 DEF MemberHeld, MemberDots, MemberStored, MemberTombSound, EmptyClock
  <2>2. \A k \in Keys : KeyTombSound(r, k)
    BY <1>1 DEF KeyTombSound
  <2>. QED BY <2>1, <2>2 DEF ReplicaSound
<1>. QED BY <1>2, <1>3, <1>4, <1>5 DEF DMInv

\* The history only grows, and the dots of removes stay dots of removes.
HistoryGrows == /\ memberAdds \subseteq memberAdds'
                /\ memberRemoves \subseteq memberRemoves'
                /\ \A x \in Dot : RemoveDot(x) => RemoveDot(x)'

\* Then a delta that was known stays so.
LEMMA KnownStays ==
  ASSUME HistoryGrows, NEW d \in DMDelta, DeltaKnown(d)
  PROVE  DeltaKnown(d)'
<1>1. CASE d.op = "add"
  BY <1>1 DEF HistoryGrows, DeltaKnown, MemberDots
<1>2. CASE d.op # "add"
  <2>1. d.dot \in Dot /\ d.op \in {"remove", "removeKey"}
    BY <1>2 DEF DMDelta
  <2>. QED BY <1>2, <2>1 DEF HistoryGrows, DeltaKnown, MemberCtx, KeyCtx
<1>. QED BY <1>1, <1>2

\* And a replica that holds what it held and has received no add that it had
\* not received stays sound.
LEMMA ReplicaStays ==
  ASSUME DMInv, HistoryGrows, NEW q \in Replicas,
         memberEntries'[q] = memberEntries[q], memberTombs'[q] = memberTombs[q],
         \A k \in Keys : keyTombs'[q][k] \in {keyTombs[q][k], NoKeyTomb},
         created[q] \subseteq created'[q],
         \A s \in Replicas : Covered(q, s) \subseteq Covered(q, s)',
         \A a \in memberAdds' : a.dot.cnt \in Covered(q, a.dot.rep)' =>
            a \in memberAdds /\ a.dot.cnt \in Covered(q, a.dot.rep)
  PROVE  ReplicaSound(q)'
<1>1. DMType /\ ReplicaSound(q)
  BY DEF DMInv
<1>2. ASSUME NEW e \in Members PROVE MemberHeld(q, e)'
  <2>1. MemberHeld(q, e)
    BY <1>1 DEF ReplicaSound
  <2>2. \A a : MemberObserved(a) => MemberObserved(a)'
    BY DEF HistoryGrows, MemberObserved
  <2>3. MemberDots(e, memberEntries[q][e])'
    BY <2>1 DEF HistoryGrows, MemberHeld, MemberDots
  <2>4. \A s \in Replicas : memberEntries'[q][e][s] > 0 => memberEntries'[q][e][s] \in Covered(q, s)'
    BY <2>1 DEF MemberHeld
  <2>5. \A a \in memberAdds' : (a.elem = e /\ a.dot.cnt \in Covered(q, a.dot.rep)')
            => memberEntries'[q][e][a.dot.rep] >= a.dot.cnt \/ MemberObserved(a)'
    BY <2>1, <2>2 DEF MemberHeld
  <2>. QED BY <2>3, <2>4, <2>5 DEF MemberHeld
<1>3. ASSUME NEW e \in Members PROVE MemberStored(q, e)' /\ MemberTombSound(q, e)'
  <2>1. MemberStored(q, e) /\ MemberTombSound(q, e)
    BY <1>1 DEF ReplicaSound
  <2>2. memberTombs[q][e] # NoKeyTomb => memberTombs[q][e].dot \in Dot
    BY <1>1 DEF DMType, MemberTomb
  <2>3. MemberStored(q, e)'
    BY <2>1 DEF MemberStored
  <2>4. MemberTombSound(q, e)'
    BY <2>1, <2>2 DEF HistoryGrows, MemberTombSound, MemberCtx, RemoveDot
  <2>. QED BY <2>3, <2>4
<1>4. ASSUME NEW k \in Keys PROVE KeyTombSound(q, k)'
  <2>1. KeyTombSound(q, k)
    BY <1>1 DEF ReplicaSound
  <2>2. keyTombs[q][k] # NoKeyTomb => keyTombs[q][k].dot \in Dot
    BY <1>1 DEF DMType, MemberTomb
  <2>3. CASE keyTombs'[q][k] = NoKeyTomb
    BY <2>3 DEF KeyTombSound
  <2>4. CASE keyTombs'[q][k] = keyTombs[q][k]
    BY <2>1, <2>2, <2>4 DEF HistoryGrows, KeyTombSound, KeyCtx, MemberCtx, RemoveDot
  <2>. QED BY <2>3, <2>4
<1>. QED BY <1>2, <1>3, <1>4 DEF ReplicaSound

\* A step of r that sends known deltas keeps the invariant if it leaves r sound
\* and the other replicas alone.
LEMMA DMChange ==
  ASSUME DMInv, CoreInv', DMType', MembersSound', HistoryGrows, NEW r \in Replicas,
         ReplicaSound(r)',
         \A m \in wire' : m \in wire \/
            /\ m \in [to : Replicas, via : {"push", "sync"}, delta : DMDelta]
            /\ DeltaKnown(m.delta)',
         \A q \in Replicas \ {r} :
            /\ memberEntries'[q] = memberEntries[q] /\ memberTombs'[q] = memberTombs[q]
            /\ keyTombs'[q] = keyTombs[q] /\ created'[q] = created[q]
            /\ \A s \in Replicas : Covered(q, s)' = Covered(q, s)
            /\ \A a \in memberAdds' \ memberAdds : a.dot.cnt \notin Covered(q, a.dot.rep)
  PROVE  DMInv'
<1>1. DMSent'
  <2>. SUFFICES ASSUME NEW m \in wire'
                PROVE  /\ m \in [to : Replicas, via : {"push", "sync"}, delta : DMDelta]
                       /\ DeltaKnown(m.delta)'
    BY DEF DMSent
  <2>1. CASE m \in wire
    <3>1. /\ m \in [to : Replicas, via : {"push", "sync"}, delta : DMDelta]
          /\ DeltaKnown(m.delta)
      BY <2>1 DEF DMInv, DMSent
    <3>. QED BY <3>1, KnownStays
  <2>. QED BY <2>1
<1>2. ASSUME NEW q \in Replicas \ {r} PROVE ReplicaSound(q)'
  <2>1. \A a \in memberAdds' : a.dot.rep \in Replicas
    BY DEF DMType, MemberAdd, Dot
  <2>2. \A a \in memberAdds' : a.dot.cnt \in Covered(q, a.dot.rep)' =>
            a \in memberAdds /\ a.dot.cnt \in Covered(q, a.dot.rep)
    BY <2>1
  <2>. QED BY <2>2, ReplicaStays
<1>. QED BY <1>1, <1>2 DEF DMInv

\* Pruning the dots of a member leaves r sound about it if the adds whose dots
\* go were observed.
LEMMA PrunedHeld ==
  ASSUME DMInv, HistoryGrows, NEW r \in Replicas, NEW e \in Members,
         memberEntries'[r][e] \in VClock,
         \A s \in Replicas : memberEntries'[r][e][s] \in {memberEntries[r][e][s], 0},
         \A s \in Replicas : Covered(r, s) \subseteq Covered(r, s)',
         \A a \in memberAdds' : (a.elem = e /\ a.dot.cnt \in Covered(r, a.dot.rep)') =>
            /\ a \in memberAdds /\ a.dot.cnt \in Covered(r, a.dot.rep)
            /\ \/ memberEntries'[r][e][a.dot.rep] = memberEntries[r][e][a.dot.rep]
               \/ MemberObserved(a)'
  PROVE  MemberHeld(r, e)'
<1>1. MemberHeld(r, e)
  BY DEF DMInv, ReplicaSound
<1>2. \A a : MemberObserved(a) => MemberObserved(a)'
  BY DEF HistoryGrows, MemberObserved
<1>3. ASSUME NEW s \in Replicas, memberEntries'[r][e][s] > 0
      PROVE  /\ memberEntries'[r][e][s] \in Covered(r, s)'
             /\ [elem |-> e, dot |-> DotOf(s, memberEntries'[r][e][s])] \in memberAdds'
  <2>1. memberEntries'[r][e][s] = memberEntries[r][e][s]
    BY <1>3
  <2>. QED BY <1>1, <1>3, <2>1 DEF MemberHeld, MemberDots, HistoryGrows
<1>4. MemberDots(e, memberEntries[r][e])'
  BY <1>3 DEF MemberDots
<1>5. \A a \in memberAdds' : (a.elem = e /\ a.dot.cnt \in Covered(r, a.dot.rep)')
          => memberEntries'[r][e][a.dot.rep] >= a.dot.cnt \/ MemberObserved(a)'
  BY <1>1, <1>2 DEF MemberHeld
<1>. QED BY <1>3, <1>4, <1>5 DEF MemberHeld

\* What stamping an add does to the history: its dot is nobody's yet, and only
\* r has received it.
LEMMA StampedAdd ==
  ASSUME DMInv, NEW r \in Replicas, NEW e \in Members, NEW x, x = DotOf(r, local[r] + 1),
         StampDot(r), known' = known, peerHWMs' = peerHWMs, digests' = digests,
         memberAdds' = memberAdds \cup {[elem |-> e, dot |-> x]},
         memberRemoves' = memberRemoves
  PROVE  /\ CoreInv' /\ MembersSound' /\ HistoryGrows
         /\ memberAdds' \subseteq MemberAdd
         /\ x \in Dot /\ x.rep = r /\ x.cnt \in Nat \ {0} /\ x.cnt \in Covered(r, r)'
         /\ \A s \in Replicas : Covered(r, s) \subseteq Covered(r, s)'
         /\ \A q \in Replicas \ {r} :
               /\ \A s \in Replicas : Covered(q, s)' = Covered(q, s)
               /\ x.cnt \notin Covered(q, r)
         /\ \A a \in memberAdds : a.dot.cnt \in Covered(r, a.dot.rep)' =>
                                      a.dot.cnt \in Covered(r, a.dot.rep)
<1>1. CoreInv /\ DMType /\ MembersSound /\ local[r] \in Nat /\ local \in [Replicas -> Nat]
  BY DEF DMInv, CoreInv, CoreType
<1>2. /\ CoreInv' /\ local[r] + 1 \in Nat
      /\ local' = [local EXCEPT ![r] = local[r] + 1]
      /\ Covered(r, r)' = Covered(r, r) \cup {local[r] + 1}
      /\ \A q, s \in Replicas : (q # r \/ s # r) => Covered(q, s)' = Covered(q, s)
  BY <1>1, CoreStamp
<1>3. \A y \in Dot : y.cnt \in 1..local[y.rep] =>
         /\ y # x /\ y.cnt \in 1..local'[y.rep]
         /\ \A q \in Replicas : y.cnt \in Covered(q, y.rep)' <=> y.cnt \in Covered(q, y.rep)
  BY <1>1, OldDots
<1>4. /\ x \in Dot /\ x.rep = r /\ x.cnt = local[r] + 1 /\ x.cnt \in Nat \ {0}
      /\ x.cnt \in 1..local'[r]
  BY <1>1, <1>2 DEF Dot, DotOf
<1>5. \A a \in memberAdds : a.dot \in Dot /\ a.dot.cnt \in 1..local[a.dot.rep]
  BY <1>1 DEF DMType, MemberAdd, MembersSound
<1>6. HistoryGrows
  <2>1. ASSUME NEW y \in Dot, RemoveDot(y) PROVE RemoveDot(y)'
    BY <1>3, <2>1 DEF RemoveDot
  <2>. QED BY <2>1 DEF HistoryGrows
<1>7. MembersSound'
  <2>1. \A a \in memberAdds' : a.dot.cnt \in 1..local'[a.dot.rep]
    BY <1>3, <1>4, <1>5
  <2>2. \A a, b \in memberAdds' : a.dot = b.dot => a.elem = b.elem
    BY <1>1, <1>3, <1>5 DEF MembersSound
  <2>3. ASSUME NEW w \in memberRemoves' PROVE RemoveDot(w.dot)'
    <3>1. w \in memberRemoves /\ w.dot \in Dot /\ RemoveDot(w.dot)
      BY <1>1 DEF DMType, MemberRemove, MembersSound
    <3>. QED BY <1>6, <3>1 DEF HistoryGrows
  <2>. QED BY <1>1, <2>1, <2>2, <2>3 DEF MembersSound
<1>8. \A q \in Replicas \ {r} : x.cnt \notin Covered(q, r)
  BY <1>1, <1>4, CoveredBounds DEF CoreInv
<1>9. memberAdds' \subseteq MemberAdd
  BY <1>1, <1>4 DEF DMType, MemberAdd
<1>. QED BY <1>2, <1>3, <1>4, <1>5, <1>6, <1>7, <1>8, <1>9

\* What stamping a remove of the members E at r, with dot x and context ctx,
\* does to the history: all that r has received of them is observed.
RemovesStamped(r, E, x, ctx) ==
    /\ CoreInv' /\ MembersSound' /\ HistoryGrows
    /\ memberRemoves' \subseteq MemberRemove
    /\ x \in Dot /\ ctx \in VClock /\ RemoveDot(x)'
    /\ \A e \in E : MemberCtx(e, ctx)'
    /\ \A s \in Replicas : Covered(r, s) \subseteq Covered(r, s)'
    /\ \A q \in Replicas \ {r}, s \in Replicas : Covered(q, s)' = Covered(q, s)
    /\ \A a \in memberAdds : a.dot.cnt \in Covered(r, a.dot.rep)' =>
                              a.dot.cnt \in Covered(r, a.dot.rep)
    /\ \A a \in memberAdds :
          (a.elem \in E /\ a.dot.cnt \in Covered(r, a.dot.rep)) => MemberObserved(a)'

\* It does so when the context is the remover's marks.
LEMMA StampedRemove ==
  ASSUME DMInv, NEW r \in Replicas, NEW E \in SUBSET Members,
         NEW x, x = DotOf(r, local[r] + 1), NEW ctx, ctx = hwm'[r],
         StampDot(r), known' = known, peerHWMs' = peerHWMs, digests' = digests,
         memberAdds' = memberAdds,
         memberRemoves' = memberRemoves \cup
            {[elem |-> e, dot |-> x, ctx |-> ctx,
              seen |-> [s \in Replicas |-> Covered(r, s)]] : e \in E}
  PROVE  RemovesStamped(r, E, x, ctx)
<1>. DEFINE seen == [s \in Replicas |-> Covered(r, s)]
            W(e) == [elem |-> e, dot |-> x, ctx |-> ctx, seen |-> seen]
<1>1. CoreInv /\ DMType /\ MembersSound /\ local[r] \in Nat /\ local \in [Replicas -> Nat]
  BY DEF DMInv, CoreInv, CoreType
<1>2. /\ CoreInv' /\ local[r] + 1 \in Nat
      /\ local' = [local EXCEPT ![r] = local[r] + 1]
      /\ Covered(r, r)' = Covered(r, r) \cup {local[r] + 1}
      /\ \A q, s \in Replicas : (q # r \/ s # r) => Covered(q, s)' = Covered(q, s)
  BY <1>1, CoreStamp
<1>3. \A y \in Dot : y.cnt \in 1..local[y.rep] =>
         /\ y # x /\ y.cnt \in 1..local'[y.rep]
         /\ \A q \in Replicas : y.cnt \in Covered(q, y.rep)' <=> y.cnt \in Covered(q, y.rep)
  BY <1>1, OldDots
<1>4. /\ x \in Dot /\ x.rep = r /\ x.cnt = local[r] + 1 /\ x.cnt \in 1..local'[r]
  BY <1>1, <1>2 DEF Dot, DotOf
<1>5. \A a \in memberAdds : a.dot \in Dot /\ a.dot.rep \in Replicas /\ a.dot.cnt \in 1..local[a.dot.rep]
  BY <1>1 DEF DMType, MemberAdd, MembersSound, Dot
<1>6. /\ ctx \in VClock
      /\ \A s \in Replicas : 1..ctx[s] \subseteq Covered(r, s)'
  BY <1>2 DEF CoreInv, CoreType, ReceivedType, Covered
<1>7. seen \in [Replicas -> SUBSET Nat] /\ \A s \in Replicas : seen[s] = Covered(r, s)
  <2>1. \A s \in Replicas : Covered(r, s) \subseteq 1..local[s]
    BY <1>1, CoveredBounds DEF CoreInv
  <2>. QED BY <1>1, <2>1
<1>8. \A s \in Replicas : \A c \in 1..ctx[s] : c \in seen[s] \/ DotOf(s, c) = x
  BY <1>2, <1>6, <1>7
<1>. HIDE DEF seen
<1>9. /\ \A e \in E : /\ W(e) \in MemberRemove /\ W(e) \in memberRemoves'
                      /\ W(e).elem = e /\ W(e).ctx = ctx /\ W(e).seen = seen
      /\ \A w \in memberRemoves' : w \in memberRemoves \/
            (w \in MemberRemove /\ w.dot = x /\ w.ctx = ctx /\ w.seen = seen)
  BY <1>4, <1>6, <1>7 DEF MemberRemove, seen
<1>. HIDE DEF W
<1>10. RemoveDot(x)'
  BY <1>3, <1>4, <1>5 DEF RemoveDot
<1>11. HistoryGrows
  <2>1. ASSUME NEW y \in Dot, RemoveDot(y) PROVE RemoveDot(y)'
    BY <1>3, <2>1 DEF RemoveDot
  <2>. QED BY <2>1 DEF HistoryGrows
<1>12. MembersSound'
  <2>1. \A a \in memberAdds' : a.dot.cnt \in 1..local'[a.dot.rep]
    BY <1>3, <1>5
  <2>2. \A a, b \in memberAdds' : a.dot = b.dot => a.elem = b.elem
    BY <1>1 DEF MembersSound
  <2>3. ASSUME NEW w \in memberRemoves'
        PROVE  /\ RemoveDot(w.dot)'
               /\ \A s \in Replicas : \A n \in 1..w.ctx[s] : n \in w.seen[s] \/ DotOf(s, n) = w.dot
    <3>1. CASE w \in memberRemoves
      <4>1. w.dot \in Dot /\ RemoveDot(w.dot)
        BY <1>1, <3>1 DEF DMType, MemberRemove, MembersSound
      <4>. QED BY <1>1, <1>11, <3>1, <4>1 DEF HistoryGrows, MembersSound
    <3>2. CASE w \notin memberRemoves
      <4>1. w.dot = x /\ w.ctx = ctx /\ w.seen = seen
        BY <1>9, <3>2
      <4>. QED BY <1>8, <1>10, <4>1 DEF RemoveDot
    <3>. QED BY <3>1, <3>2
  <2>. QED BY <2>1, <2>2, <2>3 DEF MembersSound
<1>13. memberRemoves' \subseteq MemberRemove
  BY <1>1, <1>9 DEF DMType
<1>14. \A e \in E : MemberCtx(e, ctx)'
  BY <1>9 DEF MemberCtx
<1>15. \A a \in memberAdds :
          (a.elem \in E /\ a.dot.cnt \in Covered(r, a.dot.rep)) => MemberObserved(a)'
  BY <1>5, <1>7, <1>9 DEF MemberObserved
<1>16. \A a \in memberAdds : a.dot.cnt \in Covered(r, a.dot.rep)' =>
                              a.dot.cnt \in Covered(r, a.dot.rep)
  BY <1>3, <1>5
<1>17. /\ \A s \in Replicas : Covered(r, s) \subseteq Covered(r, s)'
       /\ \A q \in Replicas \ {r}, s \in Replicas : Covered(q, s)' = Covered(q, s)
  BY <1>2
<1>. QED BY <1>2, <1>4, <1>6, <1>10, <1>11, <1>12, <1>13, <1>14, <1>15, <1>16, <1>17
        DEF RemovesStamped

\* DeltaMap.Mutate with AddSetMember (deltamap.go:212-225, mutations.go) keeps
\* the invariant.
LEMMA DMAddStep ==
  ASSUME DMInv, NEW r \in Replicas, NEW e \in Members, DM!AddMember(r, e)
  PROVE  DMInv'
<1>1. PICK x : x = DotOf(r, local[r] + 1)
  OBVIOUS
<1>. DEFINE d == [op |-> "add", elem |-> e, dots |-> Singleton(x)]
<1>2. /\ StampDot(r) /\ known' = known /\ peerHWMs' = peerHWMs /\ digests' = digests
      /\ created' = [created EXCEPT ![r] = @ \cup {e[1]}]
      /\ memberEntries' = [memberEntries EXCEPT ![r][e][r] = x.cnt]
      /\ memberTombs' = memberTombs /\ keyTombs' = keyTombs
      /\ wire' = wire \cup [to : Replicas \ {r}, via : {"push"}, delta : {d}]
      /\ memberAdds' = memberAdds \cup {[elem |-> e, dot |-> x]}
      /\ memberRemoves' = memberRemoves
  BY <1>1, DMCore DEF DM!AddMember, DM!AddElem, DM!GetOrCreate, DM!KeyOf, DM!AddDelta,
                      DM!Propagate, DM!Pushes, DM!Peers
<1>3. DMType /\ e[1] \in Keys
  BY NodeAssumption DEF DMInv
<1>4. tracked' \in [Replicas -> SUBSET Keys]
  BY <1>3 DEF DM!AddMember, DM!TrackKey, DM!KeyOf, DMType
<1>5. /\ CoreInv' /\ MembersSound' /\ HistoryGrows
      /\ memberAdds' \subseteq MemberAdd
      /\ x \in Dot /\ x.rep = r /\ x.cnt \in Nat \ {0} /\ x.cnt \in Covered(r, r)'
      /\ \A s \in Replicas : Covered(r, s) \subseteq Covered(r, s)'
      /\ \A q \in Replicas \ {r} :
            /\ \A s \in Replicas : Covered(q, s)' = Covered(q, s)
            /\ x.cnt \notin Covered(q, r)
      /\ \A a \in memberAdds : a.dot.cnt \in Covered(r, a.dot.rep)' =>
                                   a.dot.cnt \in Covered(r, a.dot.rep)
  BY <1>1, <1>2, StampedAdd
<1>19. \A a \in memberAdds' : a \in memberAdds \/ (a.elem = e /\ a.dot = x)
  BY <1>2
<1>6. /\ memberEntries' \in [Replicas -> [Members -> VClock]]
      /\ memberEntries'[r][e][r] = x.cnt
      /\ \A s \in Replicas \ {r} : memberEntries'[r][e][s] = memberEntries[r][e][s]
      /\ \A c \in Members \ {e} : memberEntries'[r][c] = memberEntries[r][c]
      /\ \A q \in Replicas \ {r} : memberEntries'[q] = memberEntries[q]
      /\ \A s \in Replicas : memberEntries[r][e][s] \in Nat
  BY <1>2, <1>3, <1>5 DEF DMType, VClock
<1>7. /\ created' \in [Replicas -> SUBSET Keys]
      /\ created'[r] = created[r] \cup {e[1]}
      /\ \A q \in Replicas \ {r} : created'[q] = created[q]
  BY <1>2, <1>3 DEF DMType
<1>8. DMType'
  BY <1>2, <1>3, <1>4, <1>5, <1>6, <1>7 DEF DMType
<1>9. ReplicaSound(r)
  BY DEF DMInv
<1>10. x = DotOf(r, x.cnt)
  BY <1>5 DEF Dot, DotOf
<1>11. MemberHeld(r, e)'
  <2>1. MemberHeld(r, e)
    BY <1>9 DEF ReplicaSound
  <2>2. ASSUME NEW s \in Replicas, memberEntries'[r][e][s] > 0
        PROVE  /\ memberEntries'[r][e][s] \in Covered(r, s)'
               /\ [elem |-> e, dot |-> DotOf(s, memberEntries'[r][e][s])] \in memberAdds'
    <3>1. CASE s = r
      BY <1>2, <1>5, <1>6, <1>10, <3>1
    <3>2. CASE s # r
      BY <1>2, <1>5, <1>6, <2>1, <2>2, <3>2 DEF MemberHeld, MemberDots
    <3>. QED BY <3>1, <3>2
  <2>3. MemberDots(e, memberEntries[r][e])'
    BY <2>2 DEF MemberDots
  <2>4. ASSUME NEW a \in memberAdds', a.elem = e, a.dot.cnt \in Covered(r, a.dot.rep)'
        PROVE  memberEntries'[r][e][a.dot.rep] >= a.dot.cnt \/ MemberObserved(a)'
    <3>1. CASE a \notin memberAdds
      BY <1>2, <1>5, <1>6, <3>1
    <3>2. CASE a \in memberAdds
      <4>1. memberEntries[r][e][a.dot.rep] >= a.dot.cnt \/ MemberObserved(a)
        BY <1>5, <2>1, <2>4, <3>2 DEF MemberHeld
      <4>2. a.dot \in Dot /\ a.dot.rep \in Replicas /\ a.dot.cnt \in 1..local[a.dot.rep]
        BY <1>3, <3>2 DEF DMInv, MembersSound, DMType, MemberAdd, Dot
      <4>3. a.dot.rep = r => x.cnt >= a.dot.cnt
        BY <1>1, <4>2 DEF DMInv, CoreInv, CoreType, DotOf
      <4>4. MemberObserved(a) => MemberObserved(a)'
        BY <1>2 DEF MemberObserved
      <4>. QED BY <1>6, <4>1, <4>2, <4>3, <4>4
    <3>. QED BY <3>1, <3>2
  <2>. QED BY <2>2, <2>3, <2>4 DEF MemberHeld
<1>12. ASSUME NEW c \in Members, c # e PROVE MemberHeld(r, c)'
  <2>1. memberEntries'[r][c] \in VClock /\ memberEntries'[r][c] = memberEntries[r][c]
    BY <1>6, <1>12
  <2>2. \A a \in memberAdds' : (a.elem = c /\ a.dot.cnt \in Covered(r, a.dot.rep)') =>
            /\ a \in memberAdds /\ a.dot.cnt \in Covered(r, a.dot.rep)
    BY <1>5, <1>12, <1>19
  <2>. QED BY <1>5, <2>1, <2>2, PrunedHeld
<1>13. ASSUME NEW c \in Members PROVE MemberStored(r, c)' /\ MemberTombSound(r, c)'
  <2>1. MemberStored(r, c) /\ MemberTombSound(r, c)
    BY <1>9 DEF ReplicaSound
  <2>2. MemberStored(r, c)'
    BY <1>2, <1>6, <1>7, <2>1 DEF MemberStored
  <2>3. memberTombs[r][c] # NoKeyTomb => memberTombs[r][c].dot \in Dot
    BY <1>3 DEF DMType, MemberTomb
  <2>4. MemberTombSound(r, c)'
    BY <1>2, <1>5, <2>1, <2>3 DEF MemberTombSound, HistoryGrows, RemoveDot, MemberCtx
  <2>. QED BY <2>2, <2>4
<1>14. ASSUME NEW k \in Keys PROVE KeyTombSound(r, k)'
  <2>1. KeyTombSound(r, k)
    BY <1>9 DEF ReplicaSound
  <2>2. keyTombs[r][k] # NoKeyTomb => keyTombs[r][k].dot \in Dot
    BY <1>3 DEF DMType, MemberTomb
  <2>. QED BY <1>2, <1>5, <2>1, <2>2 DEF KeyTombSound, HistoryGrows, RemoveDot, KeyCtx, MemberCtx
<1>15. ReplicaSound(r)'
  BY <1>11, <1>12, <1>13, <1>14 DEF ReplicaSound
<1>16. d \in DMDelta /\ DeltaKnown(d)'
  <2>1. Singleton(x) \in VClock /\ \A s \in Replicas : Singleton(x)[s] > 0 => s = r /\ Singleton(x)[s] = x.cnt
    BY <1>5 DEF Singleton, VClock
  <2>2. d \in DMDelta /\ d.op = "add" /\ d.elem = e /\ d.dots = Singleton(x)
    BY <2>1 DEF DMDelta
  <2>3. MemberDots(d.elem, d.dots)'
    BY <1>2, <1>10, <2>1, <2>2 DEF MemberDots
  <2>. HIDE DEF d
  <2>. QED BY <2>2, <2>3 DEF DeltaKnown
<1>. HIDE DEF d
<1>17. \A m \in wire' : m \in wire \/
          /\ m \in [to : Replicas, via : {"push", "sync"}, delta : DMDelta]
          /\ DeltaKnown(m.delta)'
  <2>1. ASSUME NEW m \in wire', m \notin wire
        PROVE  /\ m \in [to : Replicas, via : {"push", "sync"}, delta : DMDelta]
               /\ m.delta = d
    BY <1>2, <1>16, <2>1
  <2>. QED BY <1>16, <2>1
<1>18. \A q \in Replicas \ {r} :
          /\ memberEntries'[q] = memberEntries[q] /\ memberTombs'[q] = memberTombs[q]
          /\ keyTombs'[q] = keyTombs[q] /\ created'[q] = created[q]
          /\ \A s \in Replicas : Covered(q, s)' = Covered(q, s)
          /\ \A a \in memberAdds' \ memberAdds : a.dot.cnt \notin Covered(q, a.dot.rep)
  BY <1>2, <1>5, <1>6, <1>7
<1>. QED BY <1>5, <1>8, <1>15, <1>17, <1>18, DMChange

\* What an operation of r that removes the members E, with one dot x and the
\* marks ctx, may change besides the history: dots of E are pruned, tombstones
\* of the remove are left and the remove is sent.
Prunes(r, E, x, ctx) ==
    /\ memberAdds' = memberAdds
    /\ tracked' \in [Replicas -> SUBSET Keys] /\ created' \in [Replicas -> SUBSET Keys]
    /\ memberEntries' \in [Replicas -> [Members -> VClock]]
    /\ memberTombs' \in [Replicas -> [Members -> MemberTomb]]
    /\ keyTombs' \in [Replicas -> [Keys -> MemberTomb]]
    /\ \A q \in Replicas \ {r} :
          /\ memberEntries'[q] = memberEntries[q] /\ memberTombs'[q] = memberTombs[q]
          /\ keyTombs'[q] = keyTombs[q] /\ created'[q] = created[q]
    /\ \A e \in Members \ E : memberEntries'[r][e] = memberEntries[r][e]
    /\ \A e \in E, s \in Replicas : memberEntries'[r][e][s] \in {memberEntries[r][e][s], 0}
    /\ \A e \in Members : \/ memberTombs'[r][e] = memberTombs[r][e]
                          \/ e \in E /\ memberTombs'[r][e] = [dot |-> x, ctx |-> ctx]
    /\ \A k \in Keys : \/ keyTombs'[r][k] = keyTombs[r][k]
                       \/ /\ \A e \in Members : e[1] = k => e \in E
                          /\ keyTombs'[r][k] = [dot |-> x, ctx |-> ctx]
    /\ \A e \in Members : MemberStored(r, e)'
    /\ \A m \in wire' : m \in wire \/
          /\ m.to \in Replicas /\ m.via = "push"
          /\ m = [to |-> m.to, via |-> m.via, delta |-> m.delta]
          /\ \/ \E e \in E : m.delta = [op |-> "remove", elem |-> e, dot |-> x, ctx |-> ctx]
             \/ \E k \in Keys :
                  /\ \A e \in Members : e[1] = k => e \in E
                  /\ m.delta = [op |-> "removeKey", key |-> k, dot |-> x, ctx |-> ctx]

\* Such an operation keeps the invariant.
LEMMA DMPruneStep ==
  ASSUME DMInv, NEW r \in Replicas, NEW E \in SUBSET Members, NEW x, NEW ctx,
         RemovesStamped(r, E, x, ctx), Prunes(r, E, x, ctx)
  PROVE  DMInv'
<1>. USE DEF Prunes
<1>1. DMType /\ ReplicaSound(r)
  BY DEF DMInv
<1>2. /\ CoreInv' /\ MembersSound' /\ HistoryGrows
      /\ memberRemoves' \subseteq MemberRemove
      /\ x \in Dot /\ ctx \in VClock /\ RemoveDot(x)'
      /\ \A e \in E : MemberCtx(e, ctx)'
      /\ \A s \in Replicas : Covered(r, s) \subseteq Covered(r, s)'
      /\ \A q \in Replicas \ {r}, s \in Replicas : Covered(q, s)' = Covered(q, s)
      /\ \A a \in memberAdds : a.dot.cnt \in Covered(r, a.dot.rep)' =>
                                a.dot.cnt \in Covered(r, a.dot.rep)
      /\ \A a \in memberAdds :
            (a.elem \in E /\ a.dot.cnt \in Covered(r, a.dot.rep)) => MemberObserved(a)'
  BY DEF RemovesStamped
<1>6. DMType'
  BY <1>1, <1>2 DEF DMType
<1>7. ASSUME NEW e \in Members PROVE MemberHeld(r, e)'
  <2>1. memberEntries'[r][e] \in VClock
    OBVIOUS
  <2>2. \A s \in Replicas : memberEntries'[r][e][s] \in {memberEntries[r][e][s], 0}
    OBVIOUS
  <2>3. ASSUME NEW a \in memberAdds', a.elem = e, a.dot.cnt \in Covered(r, a.dot.rep)'
        PROVE  /\ a \in memberAdds /\ a.dot.cnt \in Covered(r, a.dot.rep)
               /\ \/ memberEntries'[r][e][a.dot.rep] = memberEntries[r][e][a.dot.rep]
                  \/ MemberObserved(a)'
    BY <1>2, <2>3
  <2>. QED BY <1>2, <2>1, <2>2, <2>3, PrunedHeld
<1>8. ASSUME NEW e \in Members PROVE MemberTombSound(r, e)'
  <2>1. CASE memberTombs'[r][e] = memberTombs[r][e]
    <3>1. MemberTombSound(r, e) /\ (memberTombs[r][e] # NoKeyTomb => memberTombs[r][e].dot \in Dot)
      BY <1>1 DEF ReplicaSound, DMType, MemberTomb
    <3>2. PICK z : z = memberTombs[r][e] /\ z = memberTombs'[r][e]
      BY <2>1
    <3>3. z # NoKeyTomb => RemoveDot(z.dot)' /\ MemberCtx(e, z.ctx)'
      BY <1>2, <3>1, <3>2 DEF MemberTombSound, HistoryGrows, MemberCtx
    <3>. QED BY <3>2, <3>3 DEF MemberTombSound, RemoveDot, MemberCtx
  <2>2. CASE e \in E /\ memberTombs'[r][e] = [dot |-> x, ctx |-> ctx]
    <3>1. MemberCtx(e, ctx)' /\ RemoveDot(x)' /\ memberTombs'[r][e].dot = x /\ memberTombs'[r][e].ctx = ctx
      BY <1>2, <2>2
    <3>. QED BY <3>1 DEF MemberTombSound, RemoveDot, MemberCtx
  <2>. QED BY <2>1, <2>2
<1>9. ASSUME NEW k \in Keys PROVE KeyTombSound(r, k)'
  <2>1. CASE keyTombs'[r][k] = keyTombs[r][k]
    <3>1. KeyTombSound(r, k) /\ (keyTombs[r][k] # NoKeyTomb => keyTombs[r][k].dot \in Dot)
      BY <1>1 DEF ReplicaSound, DMType, MemberTomb
    <3>2. PICK z : z = keyTombs[r][k] /\ z = keyTombs'[r][k]
      BY <2>1
    <3>3. z # NoKeyTomb => RemoveDot(z.dot)' /\ KeyCtx(k, z.ctx)'
      BY <1>2, <3>1, <3>2 DEF KeyTombSound, HistoryGrows, KeyCtx, MemberCtx
    <3>. QED BY <3>2, <3>3 DEF KeyTombSound, RemoveDot, KeyCtx, MemberCtx
  <2>2. CASE (\A e \in Members : e[1] = k => e \in E) /\ keyTombs'[r][k] = [dot |-> x, ctx |-> ctx]
    <3>1. /\ \A e \in Members : e[1] = k => MemberCtx(e, ctx)'
          /\ RemoveDot(x)' /\ keyTombs'[r][k].dot = x /\ keyTombs'[r][k].ctx = ctx
      BY <1>2, <2>2
    <3>. QED BY <3>1 DEF KeyTombSound, RemoveDot, KeyCtx, MemberCtx
  <2>. QED BY <2>1, <2>2
<1>10. ReplicaSound(r)'
  BY <1>7, <1>8, <1>9 DEF ReplicaSound
<1>11. ASSUME NEW m \in wire', m \notin wire
       PROVE  /\ m \in [to : Replicas, via : {"push", "sync"}, delta : DMDelta]
              /\ DeltaKnown(m.delta)'
  <2>1. CASE \E e \in E : m.delta = [op |-> "remove", elem |-> e, dot |-> x, ctx |-> ctx]
    <3>1. PICK e \in E : m.delta = [op |-> "remove", elem |-> e, dot |-> x, ctx |-> ctx]
      BY <2>1
    <3>2. m.delta \in DMDelta /\ m.delta.op = "remove" /\ m.delta.elem = e /\ m.delta.dot = x /\ m.delta.ctx = ctx
      BY <1>2, <3>1 DEF DMDelta
    <3>3. MemberCtx(e, ctx)' /\ RemoveDot(x)'
      BY <1>2
    <3>4. DeltaKnown(m.delta)'
      BY <3>2, <3>3 DEF DeltaKnown
    <3>. QED BY <1>11, <3>2, <3>4
  <2>2. CASE \E k \in Keys :
               /\ \A e \in Members : e[1] = k => e \in E
               /\ m.delta = [op |-> "removeKey", key |-> k, dot |-> x, ctx |-> ctx]
    <3>1. PICK k \in Keys :
             /\ \A e \in Members : e[1] = k => e \in E
             /\ m.delta = [op |-> "removeKey", key |-> k, dot |-> x, ctx |-> ctx]
      BY <2>2
    <3>2. m.delta \in DMDelta /\ m.delta.op = "removeKey" /\ m.delta.key = k /\ m.delta.dot = x /\ m.delta.ctx = ctx
      BY <1>2, <3>1 DEF DMDelta
    <3>3. KeyCtx(k, ctx)' /\ RemoveDot(x)'
      BY <1>2, <3>1 DEF KeyCtx
    <3>4. DeltaKnown(m.delta)'
      BY <3>2, <3>3 DEF DeltaKnown
    <3>. QED BY <1>11, <3>2, <3>4
  <2>. QED BY <1>11, <2>1, <2>2
<1>12. \A q \in Replicas \ {r} :
          /\ memberEntries'[q] = memberEntries[q] /\ memberTombs'[q] = memberTombs[q]
          /\ keyTombs'[q] = keyTombs[q] /\ created'[q] = created[q]
          /\ \A s \in Replicas : Covered(q, s)' = Covered(q, s)
          /\ \A a \in memberAdds' \ memberAdds : a.dot.cnt \notin Covered(q, a.dot.rep)
  BY <1>2
<1>. QED BY <1>2, <1>6, <1>10, <1>11, <1>12, DMChange

\* DeltaMap.Mutate with RemoveSetMember keeps the invariant.
LEMMA DMRemoveMemberStep ==
  ASSUME DMInv, NEW r \in Replicas, NEW e \in Members, DM!RemoveMember(r, e)
  PROVE  DMInv'
<1>1. PICK x, ctx, t : /\ x = DotOf(r, local[r] + 1) /\ ctx = hwm'[r]
                      /\ t = [dot |-> x, ctx |-> ctx]
  OBVIOUS
<1>. DEFINE d == [op |-> "remove", elem |-> e, dot |-> x, ctx |-> ctx]
<1>2. /\ StampDot(r) /\ known' = known /\ peerHWMs' = peerHWMs /\ digests' = digests
      /\ created' = [created EXCEPT ![r] = @ \cup {e[1]}]
      /\ memberEntries' = [memberEntries EXCEPT ![r][e] = EmptyClock]
      /\ memberTombs' = [memberTombs EXCEPT ![r][e] = t]
      /\ keyTombs' = keyTombs
      /\ wire' = wire \cup [to : Replicas \ {r}, via : {"push"}, delta : {d}]
      /\ memberAdds' = memberAdds
      /\ memberRemoves' = memberRemoves \cup {[elem |-> e, dot |-> x, ctx |-> ctx,
            seen |-> [s \in Replicas |-> Covered(r, s)]]}
  BY <1>1, DMCore DEF DM!RemoveMember, DM!RemoveElem, DM!GetOrCreate, DM!KeyOf, DM!RemoveDelta,
                      DM!Propagate, DM!Pushes, DM!Peers, DM!RemoveOf, DM!Covered, Covered
<1>3. DMType /\ e[1] \in Keys
  BY NodeAssumption DEF DMInv
<1>4. tracked' \in [Replicas -> SUBSET Keys]
  BY <1>3 DEF DM!RemoveMember, DM!TrackKey, DM!KeyOf, DMType
<1>5. RemovesStamped(r, {e}, x, ctx)
  <2>1. memberRemoves' = memberRemoves \cup
            {[elem |-> c, dot |-> x, ctx |-> ctx,
              seen |-> [s \in Replicas |-> Covered(r, s)]] : c \in {e}}
    BY <1>2
  <2>2. /\ StampDot(r) /\ known' = known /\ peerHWMs' = peerHWMs /\ digests' = digests
        /\ memberAdds' = memberAdds /\ {e} \in SUBSET Members
    BY <1>2
  <2>. QED BY <1>1, <2>1, <2>2, StampedRemove
<1>6. t \in MemberTomb
  BY <1>1, <1>5 DEF RemovesStamped, MemberTomb
<1>7. /\ memberEntries' \in [Replicas -> [Members -> VClock]]
      /\ \A s \in Replicas : memberEntries'[r][e][s] = 0
      /\ memberEntries'[r][e] = EmptyClock
      /\ \A c \in Members \ {e} : memberEntries'[r][c] = memberEntries[r][c]
      /\ \A q \in Replicas \ {r} : memberEntries'[q] = memberEntries[q]
  BY <1>2, <1>3 DEF DMType, VClock, EmptyClock
<1>8. /\ created' \in [Replicas -> SUBSET Keys]
      /\ created'[r] = created[r] \cup {e[1]}
      /\ \A q \in Replicas \ {r} : created'[q] = created[q]
  BY <1>2, <1>3 DEF DMType
<1>9. /\ memberTombs' \in [Replicas -> [Members -> MemberTomb]] /\ memberTombs'[r][e] = t
      /\ \A c \in Members \ {e} : memberTombs'[r][c] = memberTombs[r][c]
      /\ \A q \in Replicas \ {r} : memberTombs'[q] = memberTombs[q]
      /\ keyTombs' \in [Replicas -> [Keys -> MemberTomb]]
  BY <1>2, <1>3, <1>6 DEF DMType
<1>11. ASSUME NEW c \in Members PROVE MemberStored(r, c)'
  <2>1. MemberStored(r, c)
    BY DEF DMInv, ReplicaSound
  <2>. QED BY <1>7, <1>8, <1>9, <2>1 DEF MemberStored
<1>12. ASSUME NEW m \in wire', m \notin wire
       PROVE  /\ m.to \in Replicas /\ m.via = "push"
              /\ m = [to |-> m.to, via |-> m.via, delta |-> m.delta] /\ m.delta = d
  BY <1>2, <1>12
<1>13. \A m \in wire' : m \in wire \/
          /\ m.to \in Replicas /\ m.via = "push" /\ m = [to |-> m.to, via |-> m.via, delta |-> m.delta]
          /\ \E c \in {e} : m.delta = [op |-> "remove", elem |-> c, dot |-> x, ctx |-> ctx]
  BY <1>12
<1>14. \A c \in {e}, s \in Replicas : memberEntries'[r][c][s] \in {memberEntries[r][c][s], 0}
  BY <1>7
<1>15. memberAdds' = memberAdds /\ {e} \in SUBSET Members
  BY <1>2
<1>16. Prunes(r, {e}, x, ctx)
  BY <1>1, <1>2, <1>4, <1>7, <1>8, <1>9, <1>11, <1>13, <1>14, <1>15 DEF Prunes
<1>. QED BY <1>5, <1>15, <1>16, DMPruneStep

\* DeltaMap.RemoveKey (deltamap.go:230-244) keeps the invariant: it removes all
\* members of the key with one dot, and keeps those that it had not received.
LEMMA DMRemoveKeyStep ==
  ASSUME DMInv, NEW r \in Replicas, NEW k \in Keys, DM!RemoveKey(r, k)
  PROVE  DMInv'
<1>1. PICK x, ctx, t : /\ x = DotOf(r, local[r] + 1) /\ ctx = hwm'[r]
                      /\ t = [dot |-> x, ctx |-> ctx]
  OBVIOUS
<1>. DEFINE E == {e \in Members : e[1] = k}
            d == [op |-> "removeKey", key |-> k, dot |-> x, ctx |-> ctx]
            void == \A e \in Members : e[1] = k =>
                       ~(memberEntries'[r][e] # EmptyClock \/ memberTombs'[r][e] # NoKeyTomb)
<1>2. /\ StampDot(r) /\ known' = known /\ peerHWMs' = peerHWMs /\ digests' = digests
      /\ created' = [created EXCEPT ![r] = IF void THEN @ \ {k} ELSE @ \cup {k}]
      /\ memberEntries' = [memberEntries EXCEPT ![r] = [e \in Members |->
            IF e[1] = k THEN Surviving(memberEntries[r][e], ctx) ELSE memberEntries[r][e]]]
      /\ memberTombs' = memberTombs
      /\ keyTombs' = [keyTombs EXCEPT ![r][k] = t]
      /\ wire' = wire \cup [to : Replicas \ {r}, via : {"push"}, delta : {d}]
      /\ memberAdds' = memberAdds
      /\ memberRemoves' = memberRemoves \cup {[elem |-> e, dot |-> x, ctx |-> ctx,
            seen |-> [s \in Replicas |-> Covered(r, s)]] : e \in E}
  BY <1>1, DMCore DEF DM!RemoveKey, DM!RemoveAll, DM!DeleteIfVoid, DM!Void, DM!Present, DM!KeyOf,
                      DM!RemoveKeyDelta, DM!Propagate, DM!Pushes, DM!Peers, DM!RemoveOf,
                      DM!Covered, Covered
<1>. HIDE DEF void
<1>3. DMType
  BY DEF DMInv
<1>4. tracked' \in [Replicas -> SUBSET Keys]
  BY <1>3 DEF DM!RemoveKey, DM!TrackKey, DMType
<1>5. RemovesStamped(r, E, x, ctx)
  <2>1. /\ StampDot(r) /\ known' = known /\ peerHWMs' = peerHWMs /\ digests' = digests
        /\ memberAdds' = memberAdds /\ E \in SUBSET Members
        /\ memberRemoves' = memberRemoves \cup {[elem |-> e, dot |-> x, ctx |-> ctx,
              seen |-> [s \in Replicas |-> Covered(r, s)]] : e \in E}
    BY <1>2
  <2>. HIDE DEF E
  <2>. QED BY <1>1, <2>1, StampedRemove
<1>6. t \in MemberTomb /\ ctx \in VClock
  BY <1>1, <1>5 DEF RemovesStamped, MemberTomb
<1>7. /\ memberEntries' \in [Replicas -> [Members -> VClock]]
      /\ \A e \in Members \ E : memberEntries'[r][e] = memberEntries[r][e]
      /\ \A e \in E, s \in Replicas : memberEntries'[r][e][s] \in {memberEntries[r][e][s], 0}
      /\ \A q \in Replicas \ {r} : memberEntries'[q] = memberEntries[q]
  <2>1. \A e \in Members : /\ Surviving(memberEntries[r][e], ctx) \in VClock
                           /\ \A s \in Replicas : Surviving(memberEntries[r][e], ctx)[s]
                                                   \in {memberEntries[r][e][s], 0}
    BY <1>3, <1>6 DEF DMType, VClock, Surviving
  <2>. QED BY <1>2, <1>3, <2>1 DEF DMType
<1>8. /\ created' \in [Replicas -> SUBSET Keys]
      /\ created'[r] = IF void THEN created[r] \ {k} ELSE created[r] \cup {k}
      /\ \A q \in Replicas \ {r} : created'[q] = created[q]
  BY <1>2, <1>3 DEF DMType
<1>9. ASSUME NEW c \in Members PROVE MemberStored(r, c)'
  <2>1. MemberStored(r, c)
    BY DEF DMInv, ReplicaSound
  <2>2. CASE c[1] = k
    BY <1>8, <2>2 DEF MemberStored, void
  <2>3. CASE c[1] # k
    BY <1>2, <1>7, <1>8, <2>1, <2>3 DEF MemberStored
  <2>. QED BY <2>2, <2>3
<1>10. /\ keyTombs' \in [Replicas -> [Keys -> MemberTomb]] /\ keyTombs'[r][k] = t
       /\ \A j \in Keys \ {k} : keyTombs'[r][j] = keyTombs[r][j]
       /\ \A q \in Replicas \ {r} : keyTombs'[q] = keyTombs[q]
       /\ memberTombs' \in [Replicas -> [Members -> MemberTomb]]
  BY <1>2, <1>3, <1>6 DEF DMType
<1>12. ASSUME NEW m \in wire', m \notin wire
       PROVE  /\ m.to \in Replicas /\ m.via = "push"
              /\ m = [to |-> m.to, via |-> m.via, delta |-> m.delta] /\ m.delta = d
  BY <1>2, <1>12
<1>13. \A m \in wire' : m \in wire \/
          /\ m.to \in Replicas /\ m.via = "push" /\ m = [to |-> m.to, via |-> m.via, delta |-> m.delta]
          /\ \E j \in Keys : /\ \A e \in Members : e[1] = j => e \in E
                           /\ m.delta = [op |-> "removeKey", key |-> j, dot |-> x, ctx |-> ctx]
  BY <1>12
<1>14. memberAdds' = memberAdds /\ E \in SUBSET Members
  BY <1>2
<1>15. \A j \in Keys : \/ keyTombs'[r][j] = keyTombs[r][j]
                       \/ (\A e \in Members : e[1] = j => e \in E) /\ keyTombs'[r][j] = t
  BY <1>10
<1>. HIDE DEF E
<1>16. Prunes(r, E, x, ctx)
  BY <1>1, <1>2, <1>4, <1>7, <1>8, <1>9, <1>10, <1>13, <1>14, <1>15 DEF Prunes
<1>. QED BY <1>5, <1>14, <1>16, DMPruneStep

\* DeltaMap.Mutate with a failing codec keeps the invariant: it removes nothing.
LEMMA DMMutateFailsStep ==
  ASSUME DMInv, NEW r \in Replicas, NEW k \in Keys, DM!MutateFails(r, k)
  PROVE  DMInv'
<1>1. PICK x, ctx : x = DotOf(r, local[r] + 1) /\ ctx = hwm'[r]
  OBVIOUS
<1>2. /\ StampDot(r)
      /\ created' = [created EXCEPT ![r] = @ \cup {k}]
      /\ UNCHANGED <<tracked, known, peerHWMs, wire, digests, keyTombs>>
      /\ UNCHANGED <<memberEntries, memberTombs, memberAdds, memberRemoves>>
  BY DMCore DEF DM!MutateFails, DM!OpFails, DM!GetOrCreate
<1>3. DMType
  BY DEF DMInv
<1>4. RemovesStamped(r, {}, x, ctx)
  <2>1. /\ memberRemoves' = memberRemoves \cup
             {[elem |-> c, dot |-> x, ctx |-> ctx,
               seen |-> [s \in Replicas |-> Covered(r, s)]] : c \in {}}
        /\ {} \in SUBSET Members
    BY <1>2
  <2>. QED BY <1>1, <1>2, <2>1, StampedRemove
<1>5. /\ created' \in [Replicas -> SUBSET Keys] /\ created[r] \subseteq created'[r]
      /\ \A q \in Replicas \ {r} : created'[q] = created[q]
  BY <1>2, <1>3 DEF DMType
<1>6. /\ CoreInv' /\ MembersSound' /\ HistoryGrows
      /\ \A s \in Replicas : Covered(r, s) \subseteq Covered(r, s)'
      /\ \A q \in Replicas \ {r}, s \in Replicas : Covered(q, s)' = Covered(q, s)
      /\ \A a \in memberAdds : a.dot.cnt \in Covered(r, a.dot.rep)' =>
                                a.dot.cnt \in Covered(r, a.dot.rep)
  BY <1>4 DEF RemovesStamped
<1>7. DMType'
  BY <1>2, <1>3, <1>5 DEF DMType
<1>8. ReplicaSound(r)'
  BY <1>2, <1>5, <1>6, ReplicaStays
<1>. QED BY <1>2, <1>5, <1>6, <1>7, <1>8, DMChange

\* An add that the context of a remove of its member covers was observed.
LEMMA CoveredAddObserved ==
  ASSUME DMType, MembersSound, NEW a \in memberAdds, NEW ctx \in VClock,
         MemberCtx(a.elem, ctx), a.dot.cnt <= ctx[a.dot.rep], a.dot.cnt > 0
  PROVE  MemberObserved(a)
<1>1. PICK w \in memberRemoves : w.elem = a.elem /\ w.ctx = ctx
  BY DEF MemberCtx
<1>2. a.dot \in Dot /\ a.dot # w.dot
  BY DEF DMType, MemberAdd, MembersSound, RemoveDot
<1>3. DotOf(a.dot.rep, a.dot.cnt) = a.dot /\ a.dot.rep \in Replicas /\ a.dot.cnt \in Nat
  BY <1>2 DEF Dot, DotOf
<1>4. a.dot.cnt \in 1..ctx[a.dot.rep]
  BY <1>3 DEF VClock
<1>5. a.dot.cnt \in w.seen[a.dot.rep] \/ DotOf(a.dot.rep, a.dot.cnt) = w.dot
  BY <1>1, <1>3, <1>4 DEF MembersSound
<1>. QED BY <1>1, <1>2, <1>3, <1>5 DEF MemberObserved

\* Recording stamped dots changes the clocks alone; what is received now and
\* was not before are these dots, by r.
LEMMA DMRecorded ==
  ASSUME DMInv, NEW r \in Replicas, NEW dots \in VClock,
         \A s \in Replicas : dots[s] <= local[s], RecordDots(r, dots),
         UNCHANGED <<local, known, peerHWMs, digests, memberAdds, memberRemoves>>
  PROVE  /\ CoreInv' /\ MembersSound' /\ HistoryGrows
         /\ \A s \in Replicas : Covered(r, s) \subseteq Covered(r, s)'
         /\ \A s \in Replicas : dots[s] > 0 => dots[s] \in Covered(r, s)'
         /\ \A q \in Replicas \ {r}, s \in Replicas : Covered(q, s)' = Covered(q, s)
         /\ \A a \in memberAdds :
               a.dot.cnt \in Covered(r, a.dot.rep)' =>
                  a.dot.cnt \in Covered(r, a.dot.rep) \/ a.dot.cnt = dots[a.dot.rep]
<1>1. CoreInv /\ DMType /\ MembersSound /\ local \in [Replicas -> Nat]
  BY DEF DMInv, CoreInv, CoreType
<1>2. /\ local' \in [Replicas -> Nat]
      /\ \A s \in Replicas : local'[s] >= local[s] /\ dots[s] <= local'[s]
      /\ known' = known /\ peerHWMs' = peerHWMs /\ digests' = digests
  BY <1>1
<1>3. /\ CoreInv'
      /\ \A s \in Replicas :
           Covered(r, s)' = Covered(r, s) \cup (IF dots[s] = 0 THEN {} ELSE {dots[s]})
      /\ \A q \in Replicas \ {r}, s \in Replicas : Covered(q, s)' = Covered(q, s)
  BY <1>1, <1>2, CoreRecord
<1>4. HistoryGrows
  BY DEF HistoryGrows, RemoveDot
<1>5. MembersSound'
  BY <1>1 DEF MembersSound, RemoveDot
<1>6. \A a \in memberAdds : a.dot.rep \in Replicas
  BY <1>1 DEF DMType, MemberAdd, Dot
<1>7. \A s \in Replicas : dots[s] \in Nat
  BY DEF VClock
<1>8. \A s \in Replicas : dots[s] > 0 => dots[s] \in Covered(r, s)'
  BY <1>3, <1>7
<1>9. \A a \in memberAdds :
         a.dot.cnt \in Covered(r, a.dot.rep)' =>
            a.dot.cnt \in Covered(r, a.dot.rep) \/ a.dot.cnt = dots[a.dot.rep]
  BY <1>3, <1>6
<1>. QED BY <1>3, <1>4, <1>5, <1>8, <1>9

\* The dot of a remove is stamped and is no add's, so recording it is
\* receiving no add.
LEMMA RemoveDotRecorded ==
  ASSUME DMInv, NEW y \in Dot, RemoveDot(y)
  PROVE  /\ Singleton(y) \in VClock
         /\ \A s \in Replicas : Singleton(y)[s] <= local[s]
         /\ \A a \in memberAdds : a.dot.cnt # Singleton(y)[a.dot.rep]
<1>1. y.rep \in Replicas /\ y.cnt \in Nat /\ y.cnt \in 1..local[y.rep] /\ local \in [Replicas -> Nat]
  BY DEF Dot, RemoveDot, DMInv, CoreInv, CoreType
<1>2. Singleton(y) \in VClock /\ Singleton(y)[y.rep] = y.cnt
      /\ \A s \in Replicas \ {y.rep} : Singleton(y)[s] = 0
  BY <1>1 DEF Singleton, VClock
<1>3. \A s \in Replicas : Singleton(y)[s] <= local[s]
  <2>. SUFFICES ASSUME NEW s \in Replicas PROVE Singleton(y)[s] <= local[s]
    OBVIOUS
  <2>1. local[s] \in Nat
    BY <1>1
  <2>. QED BY <1>1, <1>2, <2>1
<1>4. ASSUME NEW a \in memberAdds PROVE a.dot.cnt # Singleton(y)[a.dot.rep]
  <2>1. a.dot \in Dot /\ a.dot.cnt \in 1..local[a.dot.rep] /\ a.dot # y
    BY DEF DMInv, DMType, MemberAdd, MembersSound, RemoveDot
  <2>2. a.dot.rep \in Replicas /\ a.dot.cnt # 0
    BY <2>1 DEF Dot
  <2>3. a.dot.rep = y.rep => a.dot.cnt # y.cnt
    BY <2>1 DEF Dot
  <2>. QED BY <1>2, <2>2, <2>3
<1>. QED BY <1>2, <1>3, <1>4

\* Receiving a remove of the members E, in whatever form, keeps r sound about
\* them: what its context prunes was observed.
LEMMA PrunedByContext ==
  ASSUME DMInv, NEW r \in Replicas, NEW y \in Dot, RemoveDot(y), NEW ctx \in VClock,
         RecordDots(r, Singleton(y)),
         UNCHANGED <<local, known, peerHWMs, digests, memberAdds, memberRemoves>>,
         NEW e \in Members,
         \/ memberEntries'[r][e] = memberEntries[r][e]
         \/ memberEntries'[r][e] = Surviving(memberEntries[r][e], ctx) /\ MemberCtx(e, ctx)
  PROVE  MemberHeld(r, e)'
<1>1. DMType /\ MembersSound /\ MemberHeld(r, e)
  BY DEF DMInv, ReplicaSound
<1>2. /\ Singleton(y) \in VClock
      /\ \A s \in Replicas : Singleton(y)[s] <= local[s]
      /\ \A a \in memberAdds : a.dot.cnt # Singleton(y)[a.dot.rep]
  BY RemoveDotRecorded
<1>3. /\ HistoryGrows
      /\ \A s \in Replicas : Covered(r, s) \subseteq Covered(r, s)'
      /\ \A a \in memberAdds :
            a.dot.cnt \in Covered(r, a.dot.rep)' =>
               a.dot.cnt \in Covered(r, a.dot.rep) \/ a.dot.cnt = Singleton(y)[a.dot.rep]
  BY <1>2, DMRecorded
<1>4. memberEntries[r][e] \in VClock
  BY <1>1 DEF DMType
<1>5. /\ Surviving(memberEntries[r][e], ctx) \in VClock
      /\ \A s \in Replicas :
           /\ memberEntries[r][e][s] \in Nat /\ ctx[s] \in Nat
           /\ Surviving(memberEntries[r][e], ctx)[s] \in {memberEntries[r][e][s], 0}
           /\ memberEntries[r][e][s] > ctx[s] =>
                 Surviving(memberEntries[r][e], ctx)[s] = memberEntries[r][e][s]
  BY <1>4, SurvivingDots
<1>6. memberEntries'[r][e] \in VClock
  BY <1>4, <1>5
<1>7. \A s \in Replicas : memberEntries'[r][e][s] \in {memberEntries[r][e][s], 0}
  BY <1>5
<1>8. ASSUME NEW a \in memberAdds', a.elem = e, a.dot.cnt \in Covered(r, a.dot.rep)'
      PROVE  /\ a \in memberAdds /\ a.dot.cnt \in Covered(r, a.dot.rep)
             /\ \/ memberEntries'[r][e][a.dot.rep] = memberEntries[r][e][a.dot.rep]
                \/ MemberObserved(a)'
  <2>1. a \in memberAdds /\ a.dot.cnt \in Covered(r, a.dot.rep)
    BY <1>2, <1>3, <1>8
  <2>2. a.dot.rep \in Replicas /\ a.dot.cnt \in Nat /\ a.dot.cnt > 0
    BY <1>1, <2>1 DEF DMType, MemberAdd, MembersSound, Dot
  <2>3. memberEntries[r][e][a.dot.rep] >= a.dot.cnt \/ MemberObserved(a)
    BY <1>1, <1>8, <2>1 DEF MemberHeld
  <2>4. MemberObserved(a) => MemberObserved(a)'
    BY DEF MemberObserved
  <2>5. CASE /\ memberEntries'[r][e][a.dot.rep] # memberEntries[r][e][a.dot.rep]
             /\ ~MemberObserved(a)
    <3>1. /\ memberEntries'[r][e] = Surviving(memberEntries[r][e], ctx) /\ MemberCtx(e, ctx)
      BY <2>5
    <3>2. memberEntries[r][e][a.dot.rep] <= ctx[a.dot.rep]
      BY <1>5, <2>2, <2>5, <3>1
    <3>3. a.dot.cnt <= ctx[a.dot.rep]
      BY <1>5, <2>2, <2>3, <2>5, <3>2
    <3>. QED BY <1>1, <1>8, <2>1, <2>2, <2>5, <3>1, <3>3, CoveredAddObserved
  <2>. QED BY <2>1, <2>4, <2>5
<1>. QED BY <1>3, <1>6, <1>7, <1>8, PrunedHeld

\* A tombstone that r merges with that of a remove that arrives: its dot is one
\* of the two, its context the one at hand.
LEMMA MergedTomb ==
  ASSUME NEW old \in MemberTomb, NEW y \in Dot, NEW ctx \in VClock, NEW new,
         new = [dot |-> IF old # NoKeyTomb /\ ~DM!DotGT(y, old.dot) THEN old.dot ELSE y,
                ctx |-> ctx],
         RemoveDot(y), old # NoKeyTomb => RemoveDot(old.dot)
  PROVE  new \in MemberTomb /\ RemoveDot(new.dot) /\ new.ctx = ctx
<1>1. old # NoKeyTomb => old.dot \in Dot
  BY DEF MemberTomb
<1>2. /\ new = [dot |-> new.dot, ctx |-> ctx] /\ new.ctx = ctx
      /\ new.dot = y \/ (old # NoKeyTomb /\ new.dot = old.dot)
  OBVIOUS
<1>3. new.dot \in Dot /\ RemoveDot(new.dot)
  BY <1>1, <1>2
<1>. QED BY <1>2, <1>3 DEF MemberTomb

\* deltaMapState.Apply for a remove of a key (deltamap.go:130-159) keeps the
\* invariant.
LEMMA DMReceiveRemoveKeyStep ==
  ASSUME DMInv, NEW r \in Replicas, NEW m \in wire, DM!ReceiveRemoveKey(r, m)
  PROVE  DMInv'
<1>1. PICK d : d = m.delta
  OBVIOUS
<1>2. DMType /\ MembersSound /\ ReplicaSound(r) /\ d.op = "removeKey"
  BY <1>1 DEF DMInv, DM!ReceiveRemoveKey
<1>3. d \in DMDelta /\ DeltaKnown(d)
  BY <1>1 DEF DMInv, DMSent
<1>4. /\ d.key \in Keys /\ d.dot \in Dot /\ d.ctx \in VClock
      /\ RemoveDot(d.dot) /\ KeyCtx(d.key, d.ctx)
  BY <1>2, <1>3 DEF DMDelta, DeltaKnown
<1>5. PICK k, y, ctx : k = d.key /\ y = d.dot /\ ctx = d.ctx
  OBVIOUS
<1>. DEFINE old == keyTombs[r][k]
            new == [dot |-> IF old # NoKeyTomb /\ ~DM!DotGT(y, old.dot) THEN old.dot ELSE y,
                    ctx |-> ctx]
            void == \A e \in Members : e[1] = k =>
                       ~(memberEntries'[r][e] # EmptyClock \/ memberTombs'[r][e] # NoKeyTomb)
<1>6. /\ wire' \subseteq wire
      /\ memberTombs' = memberTombs
      /\ memberEntries' = [memberEntries EXCEPT ![r] = [e \in Members |->
            IF e[1] = k THEN Surviving(memberEntries[r][e], ctx) ELSE memberEntries[r][e]]]
      /\ UNCHANGED <<local, known, peerHWMs, digests, memberAdds, memberRemoves>>
  BY <1>1, <1>5, DMCore DEF DM!ReceiveRemoveKey, DM!Remaining, DM!RemoveAll, DM!KeyOf
<1>7. RecordDots(r, Singleton(y))
  <2>1. Singleton(y) \in VClock
    BY <1>4, <1>5, RemoveDotRecorded
  <2>2. DM!RecordDots(r, Singleton(y))
    BY <1>1, <1>5, DMCore DEF DM!ReceiveRemoveKey, DM!RecordDots
  <2>. QED BY <2>1, <2>2, DMCore
<1>8. keyTombs' = [keyTombs EXCEPT ![r][k] = new]
  BY <1>1, <1>5, DMCore DEF DM!ReceiveRemoveKey, DM!KeyTombAfter
<1>9. IF k \in created[r]
      THEN created' = [created EXCEPT ![r] = IF void THEN @ \ {k} ELSE @ \cup {k}]
      ELSE created' = created
  BY <1>1, <1>5, DMCore DEF DM!ReceiveRemoveKey, DM!DeleteIfVoid, DM!Void, DM!Present, DM!KeyOf
<1>. HIDE DEF void
<1>10. tracked' \in [Replicas -> SUBSET Keys]
  BY <1>1, <1>2, <1>4 DEF DM!ReceiveRemoveKey, DM!TrackKey, DMType
<1>11. k \in Keys /\ y \in Dot /\ ctx \in VClock /\ RemoveDot(y) /\ KeyCtx(k, ctx)
  BY <1>4, <1>5
<1>12. old \in MemberTomb /\ (old # NoKeyTomb => RemoveDot(old.dot))
  BY <1>2, <1>11 DEF DMType, ReplicaSound, KeyTombSound
<1>. HIDE DEF old
<1>13. new \in MemberTomb /\ RemoveDot(new.dot) /\ new.ctx = ctx
  BY <1>11, <1>12, MergedTomb
<1>. HIDE DEF new
<1>14. /\ keyTombs' \in [Replicas -> [Keys -> MemberTomb]] /\ keyTombs'[r][k] = new
       /\ \A j \in Keys \ {k} : keyTombs'[r][j] = keyTombs[r][j]
       /\ \A q \in Replicas \ {r} : keyTombs'[q] = keyTombs[q]
  BY <1>2, <1>8, <1>11, <1>13 DEF DMType
<1>15. /\ memberEntries' \in [Replicas -> [Members -> VClock]]
       /\ \A e \in Members : memberEntries'[r][e] =
            IF e[1] = k THEN Surviving(memberEntries[r][e], ctx) ELSE memberEntries[r][e]
       /\ \A q \in Replicas \ {r} : memberEntries'[q] = memberEntries[q]
  <2>1. \A e \in Members : Surviving(memberEntries[r][e], ctx) \in VClock
    BY <1>2, <1>11, SurvivingDots DEF DMType
  <2>. QED BY <1>2, <1>6, <2>1 DEF DMType
<1>16. /\ created' \in [Replicas -> SUBSET Keys]
       /\ created'[r] = IF k \notin created[r] THEN created[r]
                        ELSE IF void THEN created[r] \ {k} ELSE created[r] \cup {k}
       /\ \A q \in Replicas \ {r} : created'[q] = created[q]
  <2>1. created \in [Replicas -> SUBSET Keys]
    BY <1>2 DEF DMType
  <2>2. CASE k \in created[r] /\ void
    BY <1>9, <1>11, <2>1, <2>2
  <2>3. CASE k \in created[r] /\ ~void
    BY <1>9, <1>11, <2>1, <2>3
  <2>4. CASE k \notin created[r]
    BY <1>9, <2>1, <2>4
  <2>. QED BY <2>2, <2>3, <2>4
<1>17. DMType'
  BY <1>2, <1>6, <1>10, <1>14, <1>15, <1>16 DEF DMType
<1>18. /\ CoreInv' /\ MembersSound' /\ HistoryGrows
       /\ \A q \in Replicas \ {r}, s \in Replicas : Covered(q, s)' = Covered(q, s)
  <2>1. Singleton(y) \in VClock /\ \A s \in Replicas : Singleton(y)[s] <= local[s]
    BY <1>11, RemoveDotRecorded
  <2>. QED BY <1>6, <1>7, <2>1, DMRecorded
<1>19. ASSUME NEW e \in Members PROVE MemberHeld(r, e)'
  <2>1. \/ memberEntries'[r][e] = memberEntries[r][e]
        \/ memberEntries'[r][e] = Surviving(memberEntries[r][e], ctx) /\ MemberCtx(e, ctx)
    BY <1>11, <1>15 DEF KeyCtx
  <2>. QED BY <1>6, <1>7, <1>11, <2>1, PrunedByContext
<1>20. ASSUME NEW e \in Members PROVE MemberStored(r, e)'
  <2>1. MemberStored(r, e)
    BY <1>2 DEF ReplicaSound
  <2>2. CASE e[1] = k /\ k \in created[r]
    BY <1>16, <2>2 DEF MemberStored, void
  <2>3. CASE e[1] = k /\ k \notin created[r]
    <3>1. memberEntries[r][e] = EmptyClock /\ memberTombs[r][e] = NoKeyTomb
      BY <2>1, <2>3 DEF MemberStored
    <3>2. memberEntries'[r][e] = EmptyClock
      BY <1>11, <1>15, <2>3, <3>1 DEF Surviving, EmptyClock, VClock
    <3>. QED BY <1>6, <3>1, <3>2 DEF MemberStored
  <2>4. CASE e[1] # k
    BY <1>6, <1>15, <1>16, <2>1, <2>4 DEF MemberStored
  <2>. QED BY <2>2, <2>3, <2>4
<1>21. ASSUME NEW e \in Members PROVE MemberTombSound(r, e)'
  <2>1. MemberTombSound(r, e)
    BY <1>2 DEF ReplicaSound
  <2>. QED BY <1>6, <2>1 DEF MemberTombSound, RemoveDot, MemberCtx
<1>22. ASSUME NEW j \in Keys PROVE KeyTombSound(r, j)'
  <2>1. CASE j = k
    <3>1. PICK z : z = new
      OBVIOUS
    <3>2. RemoveDot(z.dot)' /\ KeyCtx(k, z.ctx)' /\ keyTombs'[r][k] = z
      BY <1>6, <1>11, <1>13, <1>14, <3>1 DEF RemoveDot, KeyCtx, MemberCtx
    <3>. QED BY <2>1, <3>2 DEF KeyTombSound, RemoveDot, KeyCtx, MemberCtx
  <2>2. CASE j # k
    <3>1. KeyTombSound(r, j) /\ keyTombs'[r][j] = keyTombs[r][j]
      BY <1>2, <1>14, <2>2 DEF ReplicaSound
    <3>. QED BY <1>6, <3>1 DEF KeyTombSound, RemoveDot, KeyCtx, MemberCtx
  <2>. QED BY <2>1, <2>2
<1>23. ReplicaSound(r)'
  BY <1>19, <1>20, <1>21, <1>22 DEF ReplicaSound
<1>. QED BY <1>6, <1>14, <1>15, <1>16, <1>17, <1>18, <1>23, DMChange

\* What the dots of an arriving add (orset.go:262-297) leave of the member:
\* dots of received adds, and of the adds received none is missing that no
\* remover had observed.
LEMMA AddedHeld ==
  ASSUME DMInv, NEW r \in Replicas, NEW e \in Members, NEW dots \in VClock,
         MemberDots(e, dots), NEW ctx \in VClock,
         ctx = memberTombs[r][e].ctx, NEW left,
         left = Surviving(CombineDots(memberEntries[r][e], dots), ctx),
         memberEntries'[r][e] = IF left # EmptyClock THEN left ELSE memberEntries[r][e],
         UNCHANGED <<memberAdds, memberRemoves>>,
         \A s \in Replicas : Covered(r, s) \subseteq Covered(r, s)',
         \A s \in Replicas : dots[s] > 0 => dots[s] \in Covered(r, s)',
         \A a \in memberAdds :
            a.dot.cnt \in Covered(r, a.dot.rep)' =>
               a.dot.cnt \in Covered(r, a.dot.rep) \/ a.dot.cnt = dots[a.dot.rep]
  PROVE  memberEntries'[r][e] \in VClock /\ MemberHeld(r, e)'
<1>1. PICK old, both : old = memberEntries[r][e] /\ both = CombineDots(old, dots)
  OBVIOUS
<1>2. DMType /\ MembersSound /\ MemberHeld(r, e) /\ MemberTombSound(r, e)
  BY DEF DMInv, ReplicaSound
<1>3. old \in VClock
  BY <1>1, <1>2 DEF DMType
<1>4. /\ both \in VClock
      /\ \A s \in Replicas : /\ old[s] \in Nat /\ dots[s] \in Nat
                             /\ both[s] = old[s] \/ both[s] = dots[s]
                             /\ both[s] >= old[s] /\ both[s] >= dots[s]
  BY <1>1, <1>3, CombinedDots
<1>5. /\ left \in VClock
      /\ \A s \in Replicas : /\ both[s] \in Nat /\ ctx[s] \in Nat
                             /\ left[s] = both[s] \/ left[s] = 0
                             /\ both[s] > ctx[s] => left[s] = both[s]
  BY <1>1, <1>4, SurvivingDots
<1>6. PICK new : new = memberEntries'[r][e]
  OBVIOUS
<1>7. new \in VClock /\ (new = left \/ new = old) /\ (left # EmptyClock => new = left)
  BY <1>1, <1>3, <1>5, <1>6
<1>8. ASSUME NEW s \in Replicas, new[s] > 0
      PROVE  new[s] \in Covered(r, s)' /\ [elem |-> e, dot |-> DotOf(s, new[s])] \in memberAdds
  <2>1. new[s] = old[s] \/ new[s] = dots[s]
    BY <1>4, <1>5, <1>7, <1>8
  <2>2. CASE new[s] = old[s]
    BY <1>1, <1>2, <1>8, <2>2 DEF MemberHeld, MemberDots
  <2>3. CASE new[s] = dots[s]
    BY <1>8, <2>3 DEF MemberDots
  <2>. QED BY <2>1, <2>2, <2>3
<1>9. ASSUME NEW a \in memberAdds, a.elem = e, a.dot.cnt \in Covered(r, a.dot.rep)'
      PROVE  new[a.dot.rep] >= a.dot.cnt \/ MemberObserved(a)
  <2>1. PICK s, n : s = a.dot.rep /\ n = a.dot.cnt
    OBVIOUS
  <2>2. s \in Replicas /\ n \in Nat /\ n > 0
    BY <1>2, <2>1 DEF DMType, MemberAdd, MembersSound, Dot
  <2>3. old[s] >= n \/ MemberObserved(a) \/ n = dots[s]
    BY <1>1, <1>2, <1>9, <2>1 DEF MemberHeld
  <2>4. CASE n <= ctx[s]
    <3>1. memberTombs[r][e] # NoKeyTomb
      BY <2>2, <2>4 DEF NoKeyTomb, EmptyClock
    <3>2. MemberCtx(e, ctx)
      BY <1>2, <3>1 DEF MemberTombSound
    <3>. QED BY <1>2, <1>9, <2>1, <2>2, <2>4, <3>2, CoveredAddObserved
  <2>5. CASE both[s] >= n /\ n > ctx[s]
    <3>1. left[s] = both[s] /\ left[s] > 0
      BY <1>4, <1>5, <2>2, <2>5
    <3>2. left # EmptyClock
      BY <2>2, <3>1 DEF EmptyClock
    <3>. QED BY <1>7, <2>1, <2>5, <3>1, <3>2
  <2>. QED BY <1>4, <1>5, <2>1, <2>2, <2>3, <2>4, <2>5
<1>10. MemberDots(e, memberEntries[r][e])'
  BY <1>6, <1>8 DEF MemberDots
<1>11. \A a \in memberAdds' : (a.elem = e /\ a.dot.cnt \in Covered(r, a.dot.rep)')
          => memberEntries'[r][e][a.dot.rep] >= a.dot.cnt \/ MemberObserved(a)'
  BY <1>6, <1>9 DEF MemberObserved
<1>. QED BY <1>6, <1>7, <1>8, <1>10, <1>11 DEF MemberHeld

\* deltaMapState.Apply for a put (deltamap.go:126-129) keeps the invariant,
\* whether it adds or removes a member.
LEMMA DMReceivePutStep ==
  ASSUME DMInv, NEW r \in Replicas, NEW m \in wire, DM!ReceivePut(r, m)
  PROVE  DMInv'
<1>1. PICK d, e : d = m.delta /\ e = d.elem
  OBVIOUS
<1>2. DMType /\ MembersSound /\ ReplicaSound(r) /\ d.op # "removeKey"
  BY <1>1 DEF DMInv, DM!ReceivePut
<1>3. d \in DMDelta /\ DeltaKnown(d)
  BY <1>1 DEF DMInv, DMSent
<1>4. /\ e \in Members /\ e[1] \in Keys
      /\ \/ d.op = "add" /\ d.dots \in VClock /\ MemberDots(e, d.dots)
         \/ /\ d.op = "remove" /\ d.dot \in Dot /\ d.ctx \in VClock
            /\ RemoveDot(d.dot) /\ MemberCtx(e, d.ctx)
  BY <1>1, <1>2, <1>3, NodeAssumption DEF DMDelta, DeltaKnown
<1>5. /\ wire' \subseteq wire /\ keyTombs' = keyTombs
      /\ created' = [created EXCEPT ![r] = @ \cup {e[1]}]
      /\ UNCHANGED <<local, known, peerHWMs, digests, memberAdds, memberRemoves>>
  BY <1>1 DEF DM!ReceivePut, DM!Remaining, DM!GetOrCreate, DM!KeyOf
<1>6. tracked' \in [Replicas -> SUBSET Keys]
  BY <1>1, <1>2, <1>4 DEF DM!ReceivePut, DM!TrackKey, DM!KeyOf, DMType
<1>7. /\ created' \in [Replicas -> SUBSET Keys] /\ created'[r] = created[r] \cup {e[1]}
      /\ \A q \in Replicas \ {r} : created'[q] = created[q]
  BY <1>2, <1>4, <1>5 DEF DMType
<1>. DEFINE dots == IF d.op = "add" THEN d.dots ELSE Singleton(d.dot)
            old == memberEntries[r][e]
            tomb == memberTombs[r][e]
<1>8. dots \in VClock /\ \A s \in Replicas : dots[s] <= local[s]
  <2>1. CASE d.op = "add"
    <3>1. \A s \in Replicas : d.dots[s] \in Nat /\ local[s] \in Nat
      BY <1>4, <2>1 DEF VClock, DMInv, CoreInv, CoreType
    <3>2. ASSUME NEW s \in Replicas, d.dots[s] > 0 PROVE d.dots[s] <= local[s]
      <4>1. PICK a \in memberAdds : a.dot = DotOf(s, d.dots[s])
        BY <1>4, <2>1, <3>2 DEF MemberDots
      <4>2. a.dot.cnt \in 1..local[a.dot.rep]
        BY <1>2 DEF MembersSound
      <4>. QED BY <3>1, <4>1, <4>2 DEF DotOf
    <3>3. \A s \in Replicas : d.dots[s] <= local[s]
      BY <3>1, <3>2
    <3>. QED BY <1>4, <2>1, <3>3
  <2>2. CASE d.op # "add"
    BY <1>4, <2>2, RemoveDotRecorded
  <2>. QED BY <2>1, <2>2
<1>9. RecordDots(r, dots)
  <2>1. DM!RecordDots(r, dots)
    BY <1>1, DMCore DEF DM!ReceivePut, DM!DotsOf, DM!RecordDots
  <2>. HIDE DEF dots
  <2>. QED BY <1>8, <2>1, DMCore
<1>. HIDE DEF dots
<1>10. /\ CoreInv' /\ MembersSound' /\ HistoryGrows
       /\ \A s \in Replicas : Covered(r, s) \subseteq Covered(r, s)'
       /\ \A s \in Replicas : dots[s] > 0 => dots[s] \in Covered(r, s)'
       /\ \A q \in Replicas \ {r}, s \in Replicas : Covered(q, s)' = Covered(q, s)
       /\ \A a \in memberAdds :
             a.dot.cnt \in Covered(r, a.dot.rep)' =>
                a.dot.cnt \in Covered(r, a.dot.rep) \/ a.dot.cnt = dots[a.dot.rep]
  BY <1>5, <1>8, <1>9, DMRecorded
<1>11. old \in VClock /\ tomb \in MemberTomb /\ MemberTombSound(r, e)
  BY <1>2, <1>4 DEF DMType, ReplicaSound
\* The member afterwards, and the others.
<1>12. /\ memberEntries' \in [Replicas -> [Members -> VClock]]
       /\ memberTombs' \in [Replicas -> [Members -> MemberTomb]]
       /\ \A q \in Replicas \ {r} : /\ memberEntries'[q] = memberEntries[q]
                                    /\ memberTombs'[q] = memberTombs[q]
       /\ \A c \in Members \ {e} : /\ memberEntries'[r][c] = memberEntries[r][c]
                                   /\ memberTombs'[r][c] = memberTombs[r][c]
       /\ MemberTombSound(r, e)'
       /\ \A c \in Members : MemberHeld(r, c)'
  <2>1. CASE d.op = "add"
    <3>1. PICK ctx, left : /\ ctx = tomb.ctx
                           /\ left = Surviving(CombineDots(old, d.dots), ctx)
      OBVIOUS
    <3>2. PICK new : new = IF left # EmptyClock THEN left ELSE old
      OBVIOUS
    <3>3. memberEntries' = [memberEntries EXCEPT ![r][e] = new] /\ memberTombs' = memberTombs
      BY <1>1, <2>1, <3>1, <3>2, DMCore DEF DM!ReceivePut, DM!Apply, DM!AfterAdd
    <3>4. memberEntries'[r][e] = new
      BY <1>2, <1>4, <3>3 DEF DMType
    <3>5. ctx \in VClock
      BY <1>11, <3>1 DEF MemberTomb, NoKeyTomb, EmptyClock, VClock
    <3>6. dots = d.dots
      BY <2>1 DEF dots
    <3>7. memberEntries'[r][e] \in VClock /\ MemberHeld(r, e)'
      <4>1. dots \in VClock /\ MemberDots(e, dots)
        BY <1>4, <2>1, <3>6
      <4>2. /\ left = Surviving(CombineDots(memberEntries[r][e], dots), ctx)
            /\ memberEntries'[r][e] = IF left # EmptyClock THEN left ELSE memberEntries[r][e]
        BY <3>1, <3>2, <3>4, <3>6
      <4>3. UNCHANGED <<memberAdds, memberRemoves>>
        BY <1>5
      <4>. QED BY <1>4, <1>10, <3>1, <3>5, <4>1, <4>2, <4>3, AddedHeld
    <3>8. /\ memberEntries' \in [Replicas -> [Members -> VClock]]
          /\ \A q \in Replicas \ {r} : memberEntries'[q] = memberEntries[q]
          /\ \A c \in Members \ {e} : memberEntries'[r][c] = memberEntries[r][c]
      BY <1>2, <1>4, <3>3, <3>4, <3>7 DEF DMType
    <3>9. MemberTombSound(r, e)'
      BY <1>5, <1>11, <3>3 DEF MemberTombSound, RemoveDot, MemberCtx
    <3>10. ASSUME NEW c \in Members, c # e PROVE MemberHeld(r, c)'
      <4>1. memberEntries'[r][c] \in VClock /\ memberEntries'[r][c] = memberEntries[r][c]
        BY <3>8, <3>10
      <4>2. ASSUME NEW a \in memberAdds', a.elem = c, a.dot.cnt \in Covered(r, a.dot.rep)'
            PROVE  a \in memberAdds /\ a.dot.cnt \in Covered(r, a.dot.rep)
        <5>1. a \in memberAdds
          BY <1>5
        <5>2. a.dot \in Dot /\ a.dot.rep \in Replicas /\ a.dot.cnt > 0
          BY <1>2, <5>1 DEF DMType, MemberAdd, MembersSound, Dot
        <5>3. a.dot = DotOf(a.dot.rep, a.dot.cnt)
          BY <5>2 DEF Dot, DotOf
        <5>4. a.dot.cnt # dots[a.dot.rep]
          <6>1. SUFFICES ASSUME a.dot.cnt = dots[a.dot.rep] PROVE FALSE
            OBVIOUS
          <6>2. PICK b \in memberAdds : b.elem = e /\ b.dot = a.dot
            BY <1>4, <2>1, <3>6, <5>2, <5>3, <6>1 DEF MemberDots
          <6>. QED BY <1>2, <3>10, <4>2, <5>1, <6>2 DEF MembersSound
        <5>. QED BY <1>10, <4>2, <5>1, <5>4
      <4>. QED BY <1>10, <4>1, <4>2, PrunedHeld
    <3>. QED BY <1>2, <3>3, <3>7, <3>8, <3>9, <3>10 DEF DMType
  <2>2. CASE d.op # "add"
    <3>1. PICK y, ctx : y = d.dot /\ ctx = d.ctx
      OBVIOUS
    <3>2. PICK new : new = [dot |-> IF tomb # NoKeyTomb /\ ~DM!DotGT(y, tomb.dot)
                                    THEN tomb.dot ELSE y,
                            ctx |-> ctx]
      OBVIOUS
    <3>3. /\ memberEntries' = [memberEntries EXCEPT ![r][e] = Surviving(old, ctx)]
          /\ memberTombs' = [memberTombs EXCEPT ![r][e] = new]
      BY <1>1, <1>2, <1>4, <2>2, <3>1, <3>2, DMCore
         DEF DM!ReceivePut, DM!Apply, DM!TombAfterRemove, DMType
    <3>4. y \in Dot /\ ctx \in VClock /\ RemoveDot(y) /\ MemberCtx(e, ctx)
      BY <1>4, <2>2, <3>1
    <3>5. new \in MemberTomb /\ RemoveDot(new.dot) /\ new.ctx = ctx
      <4>. HIDE DEF tomb
      <4>1. tomb # NoKeyTomb => RemoveDot(tomb.dot)
        BY <1>11 DEF MemberTombSound, tomb
      <4>. QED BY <1>11, <3>2, <3>4, <4>1, MergedTomb
    <3>6. Surviving(old, ctx) \in VClock
      BY <1>11, <3>4, SurvivingDots
    <3>7. /\ memberEntries' \in [Replicas -> [Members -> VClock]]
          /\ memberEntries'[r][e] = Surviving(old, ctx)
          /\ \A q \in Replicas \ {r} : memberEntries'[q] = memberEntries[q]
          /\ \A c \in Members \ {e} : memberEntries'[r][c] = memberEntries[r][c]
      BY <1>2, <1>4, <3>3, <3>6 DEF DMType
    <3>8. /\ memberTombs' \in [Replicas -> [Members -> MemberTomb]]
          /\ memberTombs'[r][e] = new
          /\ \A q \in Replicas \ {r} : memberTombs'[q] = memberTombs[q]
          /\ \A c \in Members \ {e} : memberTombs'[r][c] = memberTombs[r][c]
      BY <1>2, <1>4, <3>3, <3>5 DEF DMType
    <3>9. MemberTombSound(r, e)'
      <4>1. RemoveDot(new.dot)' /\ MemberCtx(e, new.ctx)'
        BY <1>5, <3>4, <3>5 DEF RemoveDot, MemberCtx
      <4>. QED BY <3>8, <4>1 DEF MemberTombSound, RemoveDot, MemberCtx
    <3>10. RecordDots(r, Singleton(y))
      BY <1>9, <2>2, <3>1 DEF dots
    <3>11. ASSUME NEW c \in Members PROVE MemberHeld(r, c)'
      <4>1. \/ memberEntries'[r][c] = memberEntries[r][c]
            \/ memberEntries'[r][c] = Surviving(memberEntries[r][c], ctx) /\ MemberCtx(c, ctx)
        BY <3>4, <3>7
      <4>. QED BY <1>5, <3>4, <3>10, <4>1, PrunedByContext
    <3>. QED BY <3>7, <3>8, <3>9, <3>11
  <2>. QED BY <2>1, <2>2
<1>13. DMType'
  BY <1>2, <1>5, <1>6, <1>7, <1>12 DEF DMType
<1>14. ASSUME NEW c \in Members PROVE MemberStored(r, c)' /\ MemberTombSound(r, c)'
  <2>1. MemberStored(r, c) /\ MemberTombSound(r, c)
    BY <1>2 DEF ReplicaSound
  <2>2. CASE c = e
    BY <1>7, <1>12, <2>2 DEF MemberStored
  <2>3. CASE c # e
    <3>1. memberEntries'[r][c] = memberEntries[r][c] /\ memberTombs'[r][c] = memberTombs[r][c]
      BY <1>12, <2>3
    <3>. QED BY <1>5, <1>7, <2>1, <3>1 DEF MemberStored, MemberTombSound, RemoveDot, MemberCtx
  <2>. QED BY <2>2, <2>3
<1>15. ASSUME NEW k \in Keys PROVE KeyTombSound(r, k)'
  <2>1. KeyTombSound(r, k)
    BY <1>2 DEF ReplicaSound
  <2>. QED BY <1>5, <2>1 DEF KeyTombSound, RemoveDot, KeyCtx, MemberCtx
<1>16. ReplicaSound(r)'
  BY <1>12, <1>14, <1>15 DEF ReplicaSound
<1>. QED BY <1>5, <1>7, <1>10, <1>12, <1>13, <1>16, DMChange

\* Steps that change neither members nor history: tombstones of keys may go,
\* messages may go, and deltas that are known may be sent.
LEMMA DMQuiet ==
  ASSUME DMInv, CoreInv', \A q, s \in Replicas : Covered(q, s)' = Covered(q, s),
         UNCHANGED <<local, tracked, created, memberEntries, memberTombs, memberAdds, memberRemoves>>,
         keyTombs' \in [Replicas -> [Keys -> MemberTomb]],
         \A q \in Replicas, k \in Keys : keyTombs'[q][k] \in {keyTombs[q][k], NoKeyTomb},
         \A m \in wire' : m \in wire \/
            /\ m \in [to : Replicas, via : {"push", "sync"}, delta : DMDelta]
            /\ DeltaKnown(m.delta)
  PROVE  DMInv'
<1>1. DMType /\ MembersSound /\ DMSent
  BY DEF DMInv
<1>2. HistoryGrows
  BY DEF HistoryGrows, RemoveDot
<1>3. DMType'
  BY <1>1 DEF DMType
<1>4. MembersSound'
  BY <1>1 DEF MembersSound, RemoveDot
<1>5. DMSent'
  <2>. SUFFICES ASSUME NEW m \in wire'
                PROVE  /\ m \in [to : Replicas, via : {"push", "sync"}, delta : DMDelta]
                       /\ DeltaKnown(m.delta)'
    BY DEF DMSent
  <2>1. /\ m \in [to : Replicas, via : {"push", "sync"}, delta : DMDelta]
        /\ DeltaKnown(m.delta)
    BY <1>1 DEF DMSent
  <2>2. m.delta \in DMDelta
    BY <2>1
  <2>. QED BY <1>2, <2>1, <2>2, KnownStays
<1>6. ASSUME NEW q \in Replicas PROVE ReplicaSound(q)'
  <2>1. \A a \in memberAdds' : a.dot.cnt \in Covered(q, a.dot.rep)' =>
           a \in memberAdds /\ a.dot.cnt \in Covered(q, a.dot.rep)
    BY <1>1 DEF DMType, MemberAdd, Dot
  <2>2. \A s \in Replicas : Covered(q, s) \subseteq Covered(q, s)'
    OBVIOUS
  <2>3. /\ memberEntries'[q] = memberEntries[q] /\ memberTombs'[q] = memberTombs[q]
        /\ created[q] \subseteq created'[q]
        /\ \A k \in Keys : keyTombs'[q][k] \in {keyTombs[q][k], NoKeyTomb}
    OBVIOUS
  <2>. QED BY <1>2, <2>1, <2>2, <2>3, ReplicaStays
<1>. QED BY <1>3, <1>4, <1>5, <1>6 DEF DMInv

\* Everything that an answer to a digest may have in it is known
\* (deltamap.go:165-179, orset.go:352-381).
LEMMA DMAnswerKnown ==
  ASSUME DMInv, NEW r \in Replicas, NEW v, NEW d \in DM!MapDeltasSince(r, v)
  PROVE  d \in DMDelta /\ DeltaKnown(d)
<1>1. DMType /\ ReplicaSound(r)
  BY DEF DMInv
<1>2. CASE \E e \in Members : d = DM!AddDelta(e, memberEntries[r][e])
  <2>1. PICK e \in Members : d = DM!AddDelta(e, memberEntries[r][e])
    BY <1>2
  <2>2. MemberDots(e, memberEntries[r][e]) /\ memberEntries[r][e] \in VClock
    BY <1>1 DEF ReplicaSound, MemberHeld, DMType
  <2>. QED BY <2>1, <2>2 DEF DM!AddDelta, DMDelta, DeltaKnown
<1>3. CASE \E e \in Members : /\ memberTombs[r][e] # NoKeyTomb
                              /\ d = DM!RemoveDelta(e, memberTombs[r][e].dot, memberTombs[r][e].ctx)
  <2>1. PICK e \in Members : /\ memberTombs[r][e] # NoKeyTomb
                             /\ d = DM!RemoveDelta(e, memberTombs[r][e].dot, memberTombs[r][e].ctx)
    BY <1>3
  <2>2. /\ RemoveDot(memberTombs[r][e].dot) /\ MemberCtx(e, memberTombs[r][e].ctx)
        /\ memberTombs[r][e] \in [dot : Dot, ctx : VClock]
    BY <1>1, <2>1 DEF ReplicaSound, MemberTombSound, DMType, MemberTomb
  <2>. QED BY <2>1, <2>2 DEF DM!RemoveDelta, DMDelta, DeltaKnown
<1>4. CASE \E k \in Keys : /\ keyTombs[r][k] # NoKeyTomb
                           /\ d = DM!RemoveKeyDelta(k, keyTombs[r][k].dot, keyTombs[r][k].ctx)
  <2>1. PICK k \in Keys : /\ keyTombs[r][k] # NoKeyTomb
                          /\ d = DM!RemoveKeyDelta(k, keyTombs[r][k].dot, keyTombs[r][k].ctx)
    BY <1>4
  <2>2. /\ RemoveDot(keyTombs[r][k].dot) /\ KeyCtx(k, keyTombs[r][k].ctx)
        /\ keyTombs[r][k] \in [dot : Dot, ctx : VClock]
    BY <1>1, <2>1 DEF ReplicaSound, KeyTombSound, DMType, MemberTomb
  <2>. QED BY <2>1, <2>2 DEF DM!RemoveKeyDelta, DMDelta, DeltaKnown
<1>. QED BY <1>2, <1>3, <1>4, DMCore DEF DM!MapDeltasSince, DM!DeltasSince

\* Anti-entropy with the collection of tombstones of keys, and lost messages
\* keep the invariant (replica.go:230-282, deltamap.go:182-188).
LEMMA DMGossipStep ==
  ASSUME DMInv,
         \/ \E r \in Replicas : DM!SendMapDigests(r)
         \/ \E r \in Replicas, m \in digests : DM!ReceiveMapDigest(r, m)
         \/ DM!LoseMapMessage
  PROVE  DMInv'
<1>1. CoreInv /\ DMType
  BY DEF DMInv
<1>2. ASSUME NEW r \in Replicas, DM!SendMapDigests(r) PROVE DMInv'
  <2>1. /\ digests' = digests \cup {Digest(r, p) : p \in Peers(r)}
        /\ UNCHANGED <<local, hwm, pending, tracked, known, peerHWMs, wire>>
        /\ UNCHANGED <<memberEntries, memberTombs, memberAdds, memberRemoves, created>>
        /\ keyTombs' = [keyTombs EXCEPT ![r] = [k \in Keys |->
              IF DM!KeyCollectable(r, k) THEN NoKeyTomb ELSE keyTombs[r][k]]]
    BY <1>2, DMCore DEF DM!SendMapDigests, DM!BroadcastDigest, DM!Digest, Digest, DM!Peers, Peers
  <2>2. CoreInv' /\ \A q, s \in Replicas : Covered(q, s)' = Covered(q, s)
    BY <1>1, <2>1, CoreBroadcast
  <2>3. /\ keyTombs' \in [Replicas -> [Keys -> MemberTomb]]
        /\ \A q \in Replicas, k \in Keys : keyTombs'[q][k] \in {keyTombs[q][k], NoKeyTomb}
    BY <1>1, <2>1 DEF DMType, MemberTomb
  <2>. QED BY <2>1, <2>2, <2>3, DMQuiet
<1>3. ASSUME NEW r \in Replicas, NEW m \in digests, DM!ReceiveMapDigest(r, m) PROVE DMInv'
  <2>. DEFINE sent == DM!MapDeltasSince(r, m.hwm)
  <2>1. /\ digests' \subseteq digests
        /\ known' = [known EXCEPT ![r] = @ \cup {m.from}]
        /\ peerHWMs' = [peerHWMs EXCEPT ![r][m.from] = m.hwm]
        /\ wire' \subseteq wire \cup [to : {m.from}, via : {"sync"}, delta : sent]
        /\ UNCHANGED <<local, hwm, pending, tracked>>
        /\ UNCHANGED <<memberEntries, memberTombs, memberAdds, memberRemoves, created, keyTombs>>
    BY <1>3 DEF DM!ReceiveMapDigest, DM!AnswerDigest, DM!Remaining, DM!Syncs
  <2>2. \A d \in sent : d \in DMDelta /\ DeltaKnown(d)
    BY DMAnswerKnown
  <2>. HIDE DEF sent
  <2>3. /\ CoreInv' /\ \A q, s \in Replicas : Covered(q, s)' = Covered(q, s)
        /\ m.from \in Replicas
    BY <1>1, <2>1, CoreAnswer
  <2>4. \A x \in wire' : x \in wire \/
           /\ x \in [to : Replicas, via : {"push", "sync"}, delta : DMDelta]
           /\ DeltaKnown(x.delta)
    BY <2>1, <2>2, <2>3
  <2>5. /\ keyTombs' \in [Replicas -> [Keys -> MemberTomb]]
        /\ \A q \in Replicas, k \in Keys : keyTombs'[q][k] \in {keyTombs[q][k], NoKeyTomb}
    BY <1>1, <2>1 DEF DMType
  <2>. QED BY <2>1, <2>3, <2>4, <2>5, DMQuiet
<1>4. ASSUME DM!LoseMapMessage PROVE DMInv'
  <2>1. /\ wire' \subseteq wire /\ digests' \subseteq digests
        /\ UNCHANGED <<local, hwm, pending, tracked, known, peerHWMs>>
        /\ UNCHANGED <<memberEntries, memberTombs, memberAdds, memberRemoves, created, keyTombs>>
    BY <1>4 DEF DM!LoseMapMessage, DM!Lose, DM!LoseDelta, DM!LoseDigest
  <2>2. CoreInv' /\ \A q, s \in Replicas : Covered(q, s)' = Covered(q, s)
    BY <1>1, <2>1, CoreUnchanged
  <2>3. /\ keyTombs' \in [Replicas -> [Keys -> MemberTomb]]
        /\ \A q \in Replicas, k \in Keys : keyTombs'[q][k] \in {keyTombs[q][k], NoKeyTomb}
    BY <1>1, <2>1 DEF DMType
  <2>. QED BY <2>1, <2>2, <2>3, DMQuiet
<1>. QED BY <1>2, <1>3, <1>4

\* Every step of a group of maps keeps the invariant.
LEMMA DMStep == DMInv /\ DM!MapNext => DMInv'
<1>. SUFFICES ASSUME DMInv, DM!MapNext PROVE DMInv'
  OBVIOUS
<1>1. CASE \E r \in Replicas, e \in Members : DM!AddMember(r, e)
  BY <1>1, DMAddStep
<1>2. CASE \E r \in Replicas, e \in Members : DM!RemoveMember(r, e)
  BY <1>2, DMRemoveMemberStep
<1>3. CASE \E r \in Replicas, k \in Keys : DM!MutateFails(r, k)
  BY <1>3, DMMutateFailsStep
<1>4. CASE \E r \in Replicas, k \in Keys : DM!RemoveKey(r, k)
  BY <1>4, DMRemoveKeyStep
<1>5. CASE \E r \in Replicas, m \in wire : DM!ReceivePut(r, m)
  BY <1>5, DMReceivePutStep
<1>6. CASE \E r \in Replicas, m \in wire : DM!ReceiveRemoveKey(r, m)
  BY <1>6, DMReceiveRemoveKeyStep
<1>7. CASE \/ \E r \in Replicas : DM!SendMapDigests(r)
           \/ \E r \in Replicas, m \in digests : DM!ReceiveMapDigest(r, m)
           \/ DM!LoseMapMessage
  BY <1>7, DMGossipStep
<1>. QED BY <1>1, <1>2, <1>3, <1>4, <1>5, <1>6, <1>7 DEF DM!MapNext

\* What a map with the invariant promises: its types, that only observed adds
\* go, and that an answered digest gets what its sender lacks.
LEMMA DMConsequences ==
  DMInv => DM!MapTypeOK /\ DM!OnlyObservedAddsRemoved /\ DM!MapAnswerComplete
<1>. SUFFICES ASSUME DMInv
              PROVE  DM!MapTypeOK /\ DM!OnlyObservedAddsRemoved /\ DM!MapAnswerComplete
  OBVIOUS
<1>1. CoreInv /\ DMType /\ MembersSound /\ \A r \in Replicas : ReplicaSound(r)
  BY DEF DMInv
<1>2. DM!MapTypeOK
  <2>1. wire \subseteq [to : Replicas, via : {"push", "sync"}, delta : DMDelta]
    BY DEF DMInv, DMSent
  <2>2. \A r \in Replicas, e \in Members : DM!Present(r, e) => DM!KeyOf(e) \in created[r]
    BY <1>1, DMCore DEF ReplicaSound, MemberStored, DM!Present, DM!KeyOf
  <2>3. pending \in [Replicas -> [Replicas -> SUBSET (Nat \ {0})]]
    BY <1>1 DEF CoreInv, CoreType, ReceivedType
  <2>. QED BY <1>1, <2>1, <2>2, <2>3, DMCore DEF DMType, MemberTomb, DM!MapTypeOK
<1>3. DM!OnlyObservedAddsRemoved
  <2>. SUFFICES ASSUME NEW r \in Replicas, NEW a \in memberAdds, DM!Received(r, a.dot)
                PROVE  memberEntries[r][a.elem][a.dot.rep] >= a.dot.cnt \/ MemberObserved(a)
    BY DEF DM!OnlyObservedAddsRemoved, MemberObserved
  <2>1. a.elem \in Members
    BY <1>1 DEF DMType, MemberAdd
  <2>2. MemberHeld(r, a.elem)
    BY <1>1, <2>1 DEF ReplicaSound
  <2>. QED BY <2>2 DEF MemberHeld, DM!Received, DM!Covered, Covered
<1>4. DM!MapAnswerComplete
  <2>1. ASSUME NEW m \in digests, NEW y \in Dot, y.cnt \in 1..local[y.rep],
               ~DM!Received(m.from, y)
        PROVE  y.cnt > m.hwm[y.rep]
    BY <1>1, <2>1, UnreportedIfLacking DEF DM!Received, DM!Covered, Covered
  <2>2. ASSUME NEW m \in digests PROVE m.to \in Replicas
    BY <1>1 DEF CoreInv, CoreType
  <2>3. ASSUME NEW m \in digests, NEW e \in Members, NEW s \in Replicas,
               memberEntries[m.to][e][s] > 0,
               ~DM!Received(m.from, DM!DotOf(s, memberEntries[m.to][e][s]))
        PROVE  DM!AddDelta(e, memberEntries[m.to][e]) \in DM!MapDeltasSince(m.to, m.hwm)
    <3>. DEFINE n == memberEntries[m.to][e][s]
    <3>1. [elem |-> e, dot |-> DotOf(s, n)] \in memberAdds
      BY <1>1, <2>2, <2>3 DEF ReplicaSound, MemberHeld, MemberDots
    <3>2. DotOf(s, n) \in Dot /\ DotOf(s, n).cnt \in 1..local[DotOf(s, n).rep]
      BY <1>1, <3>1 DEF DMType, MemberAdd, MembersSound
    <3>3. DotOf(s, n).cnt > m.hwm[DotOf(s, n).rep]
      BY <2>1, <2>3, <3>2 DEF DM!DotOf, DotOf
    <3>4. n > m.hwm[s]
      BY <3>3 DEF DotOf
    <3>. QED BY <3>4 DEF DM!MapDeltasSince, DM!DeltasSince
  <2>4. ASSUME NEW m \in digests, NEW e \in Members, memberTombs[m.to][e] # NoKeyTomb,
               ~DM!Received(m.from, memberTombs[m.to][e].dot)
        PROVE  DM!RemoveDelta(e, memberTombs[m.to][e].dot, memberTombs[m.to][e].ctx)
                 \in DM!MapDeltasSince(m.to, m.hwm)
    <3>1. /\ memberTombs[m.to][e].dot \in Dot
          /\ memberTombs[m.to][e].dot.cnt \in 1..local[memberTombs[m.to][e].dot.rep]
      BY <1>1, <2>2, <2>4 DEF ReplicaSound, MemberTombSound, RemoveDot, DMType, MemberTomb
    <3>2. memberTombs[m.to][e].dot.cnt > m.hwm[memberTombs[m.to][e].dot.rep]
      BY <2>1, <2>4, <3>1
    <3>. QED BY <2>4, <3>2, DMCore DEF DM!MapDeltasSince, DM!DeltasSince
  <2>5. ASSUME NEW m \in digests, NEW k \in Keys, keyTombs[m.to][k] # NoKeyTomb,
               ~DM!Received(m.from, keyTombs[m.to][k].dot)
        PROVE  DM!RemoveKeyDelta(k, keyTombs[m.to][k].dot, keyTombs[m.to][k].ctx)
                 \in DM!MapDeltasSince(m.to, m.hwm)
    <3>1. /\ keyTombs[m.to][k].dot \in Dot
          /\ keyTombs[m.to][k].dot.cnt \in 1..local[keyTombs[m.to][k].dot.rep]
      BY <1>1, <2>2, <2>5 DEF ReplicaSound, KeyTombSound, RemoveDot, DMType, MemberTomb
    <3>2. keyTombs[m.to][k].dot.cnt > m.hwm[keyTombs[m.to][k].dot.rep]
      BY <2>1, <2>5, <3>1
    <3>. QED BY <2>5, <3>2, DMCore DEF DM!MapDeltasSince
  <2>. QED BY <2>3, <2>4, <2>5, DMCore DEF DM!MapAnswerComplete
<1>. QED BY <1>2, <1>3, <1>4

\* The tombstone of a key goes only in sendDigests, where every peer that has
\* reported its marks has reported the remove (deltamap.go:182-188).
LEMMA DMCollectStep == DMInv /\ DM!MapNext => DM!KeyCollectedStep
<1>. SUFFICES ASSUME DMInv, DM!MapNext, NEW r \in Replicas, NEW k \in Keys,
                     keyTombs[r][k] # NoKeyTomb, keyTombs'[r][k] = NoKeyTomb,
                     NEW p \in known[r]
              PROVE  DM!Received(p, keyTombs[r][k].dot)
  BY DMCore DEF DM!KeyCollectedStep
<1>1. CoreInv /\ DMType /\ local \in [Replicas -> Nat]
  BY DEF DMInv, CoreInv, CoreType
<1>2. /\ keyTombs[r][k].dot \in Dot
      /\ keyTombs[r][k].dot.cnt \in 1..local[keyTombs[r][k].dot.rep]
  BY <1>1 DEF DMInv, ReplicaSound, KeyTombSound, RemoveDot, DMType, MemberTomb
<1>3. DM!KeyCollectable(r, k)
  <2>1. ASSUME NEW q \in Replicas, DM!SendMapDigests(q) PROVE DM!KeyCollectable(r, k)
    BY <1>1, <2>1, DMCore DEF DM!SendMapDigests, DMType
  <2>2. ASSUME NEW q \in Replicas, NEW j \in Keys, DM!RemoveKey(q, j) PROVE FALSE
    <3>1. [dot |-> DotOf(q, local[q] + 1), ctx |-> hwm'[q]] # NoKeyTomb
      BY <1>1 DEF NoKeyTomb, DotOf, NoDot
    <3>. QED BY <1>1, <2>2, <3>1, DMCore DEF DM!RemoveKey, DMType
  <2>3. ASSUME NEW q \in Replicas, NEW m \in wire, DM!ReceiveRemoveKey(q, m) PROVE FALSE
    <3>. DEFINE d == m.delta
    <3>1. m.delta \in DMDelta /\ DeltaKnown(m.delta) /\ m.delta.op = "removeKey"
      BY <2>3 DEF DMInv, DMSent, DM!ReceiveRemoveKey
    <3>2. d.key \in Keys /\ d.dot \in Dot /\ RemoveDot(d.dot)
      BY <3>1 DEF DMDelta, DeltaKnown
    <3>3. d.dot # NoDot
      BY <1>1, <3>2 DEF RemoveDot, NoDot
    <3>4. keyTombs[q][d.key] # NoKeyTomb => keyTombs[q][d.key].dot # NoDot
      <4>1. keyTombs[q][d.key] # NoKeyTomb => RemoveDot(keyTombs[q][d.key].dot)
        BY <3>2 DEF DMInv, ReplicaSound, KeyTombSound
      <4>. QED BY <4>1 DEF RemoveDot, NoDot
    <3>5. DM!KeyTombAfter(q, d).dot # NoDot
      BY <3>3, <3>4, DMCore DEF DM!KeyTombAfter
    <3>6. DM!KeyTombAfter(q, d) # NoKeyTomb
      BY <3>5 DEF NoKeyTomb
    <3>7. keyTombs' = [keyTombs EXCEPT ![q][d.key] = DM!KeyTombAfter(q, d)]
      BY <2>3 DEF DM!ReceiveRemoveKey
    <3>. QED BY <1>1, <3>2, <3>6, <3>7 DEF DMType
  <2>4. CASE keyTombs' = keyTombs
    BY <2>4
  <2>5. \/ keyTombs' = keyTombs
        \/ \E q \in Replicas : DM!SendMapDigests(q)
        \/ \E q \in Replicas, j \in Keys : DM!RemoveKey(q, j)
        \/ \E q \in Replicas, m \in wire : DM!ReceiveRemoveKey(q, m)
    BY DEF DM!MapNext, DM!AddMember, DM!RemoveMember, DM!MutateFails, DM!ReceivePut,
           DM!ReceiveMapDigest, DM!LoseMapMessage
  <2>. QED BY <2>1, <2>2, <2>3, <2>4, <2>5
<1>. DEFINE y == keyTombs[r][k].dot
<1>4. y.rep \in Replicas /\ y.cnt \in Nat /\ y.cnt >= 1 /\ p \in Replicas
  BY <1>1, <1>2 DEF Dot, CoreInv, CoreType
<1>5. y.cnt <= MinHWM(r)[y.rep]
  BY <1>3 DEF DM!KeyCollectable, DM!MinHWM, MinHWM
<1>. HIDE DEF y
<1>6. MinHWM(r)[y.rep] \in Nat /\ MinHWM(r)[y.rep] <= hwm[p][y.rep]
  BY <1>1, <1>4, MinHWMReceived
<1>7. hwm[p][y.rep] \in Nat /\ 1..hwm[p][y.rep] \subseteq Covered(p, y.rep)
  BY <1>1, <1>4, CoveredBounds DEF CoreInv
<1>8. y.cnt \in Covered(p, y.rep)
  BY <1>4, <1>5, <1>6, <1>7
<1>. QED BY <1>8 DEF y, DM!Received, DM!Covered, Covered
-----------------------------------------------------------------------------
(* The group of nodes.  The type of the nodes never changes, so each       *)
(* invariant above is one of every behaviour of its own type.              *)

\* A step that changes nothing keeps the invariant of a list.
LEMMA GLStutter == GLInv /\ UNCHANGED vars => GLInv'
<1>. SUFFICES ASSUME GLInv, UNCHANGED vars PROVE GLInv'
  OBVIOUS
<1>1. UNCHANGED <<local, hwm, pending, tracked, known, peerHWMs, wire, digests, items, appended>>
  BY DEF vars, shell, listVars
<1>2. CoreInv' /\ \A q, s \in Replicas : Covered(q, s)' = Covered(q, s)
  BY <1>1, CoreUnchanged DEF GLInv
<1>3. GLType' /\ ItemsStamped' /\ ItemsDiffer' /\ ItemsSent' /\ ItemsTracked'
  BY <1>1 DEF GLInv, GLType, ItemsStamped, ItemsDiffer, ItemsSent, ItemsTracked
<1>4. GL!HoldsWhatItRecorded'
  BY <1>1 DEF GLInv, GL!HoldsWhatItRecorded, GL!Covered
<1>. QED BY <1>2, <1>3, <1>4 DEF GLInv

\* A step that changes nothing keeps the invariant of a counter.
LEMMA PNStutter == ASSUME NEW A \in Nat PROVE PNInv(A) /\ UNCHANGED vars => PNInv(A)'
<1>. SUFFICES ASSUME PNInv(A), UNCHANGED vars PROVE PNInv(A)'
  OBVIOUS
<1>1. UNCHANGED <<local, hwm, pending, tracked, known, peerHWMs, wire, digests, sides, asked, ops>>
  BY DEF vars, shell, counterVars
<1>2. CoreInv'
  BY <1>1, CoreUnchanged DEF PNInv
<1>3. PNType' /\ AskedWithin(A)' /\ OpsSound' /\ OpsDiffer' /\ OpsSent'
  BY <1>1 DEF PNInv, PNType, AskedWithin, OpsSound, OpsDiffer, OpsSent
<1>4. EntriesWritten'
  BY <1>1 DEF PNInv, EntriesWritten
<1>5. PN!NoOverCount' /\ PN!RecordedIsCounted'
  BY <1>1 DEF PNInv, PN!NoOverCount, PN!RecordedIsCounted, PN!Covered
<1>. QED BY <1>2, <1>3, <1>4, <1>5 DEF PNInv

\* A step that changes nothing keeps the invariant of a register.
LEMMA MVStutter == MVInv /\ UNCHANGED vars => MVInv'
<1>. SUFFICES ASSUME MVInv, UNCHANGED vars PROVE MVInv'
  OBVIOUS
<1>1. UNCHANGED <<local, hwm, pending, tracked, known, peerHWMs, wire, digests, current, writes>>
  BY DEF vars, shell, registerVars
<1>2. CoreInv' /\ \A q, s \in Replicas : Covered(q, s)' = Covered(q, s)
  BY <1>1, CoreUnchanged DEF MVInv
<1>3. MVType' /\ OwnReceived' /\ WritesSound' /\ LaterSawEarlier' /\ WritesSent'
  BY <1>1, <1>2 DEF MVInv, MVType, OwnReceived, WritesSound, LaterSawEarlier, WritesSent
<1>4. CurrentWritten'
  BY <1>1 DEF MVInv, CurrentWritten, Covered
<1>5. MV!ConcurrentWritesKept' /\ MV!OneValuePerWriter'
  BY <1>1 DEF MVInv, MV!ConcurrentWritesKept, MV!OneValuePerWriter, MV!Received,
              MV!Supersedes, MV!Covered
<1>. QED BY <1>2, <1>3, <1>4, <1>5 DEF MVInv

\* A step that changes nothing keeps the invariant of a map.
LEMMA AWStutter == AWInv /\ UNCHANGED vars => AWInv'
<1>. SUFFICES ASSUME AWInv, UNCHANGED vars PROVE AWInv'
  OBVIOUS
<1>1. /\ UNCHANGED <<local, hwm, pending, tracked, known, peerHWMs, wire, digests>>
      /\ UNCHANGED <<entries, tombs, puts, removes>>
  BY DEF vars, shell, mapVars
<1>2. CoreInv'
  BY <1>1, CoreUnchanged DEF AWInv
<1>3. AWType' /\ PutsSound' /\ StoredTracked'
  BY <1>1 DEF AWInv, AWType, PutsSound, StoredTracked
<1>4. AWSent' /\ TombsKnown'
  BY <1>1 DEF AWInv, AWSent, TombsKnown, RemoveKnown
<1>5. EntriesPut'
  BY <1>1 DEF AWInv, EntriesPut, EntryPut, Covered
<1>. QED BY <1>2, <1>3, <1>4, <1>5 DEF AWInv

\* A step that changes nothing keeps the types of a counter.
LEMMA PNTypedStutter == PNTyped /\ UNCHANGED vars => PNTyped'
<1>. SUFFICES ASSUME PNTyped, UNCHANGED vars PROVE PNTyped'
  OBVIOUS
<1>1. UNCHANGED <<local, hwm, pending, tracked, known, peerHWMs, wire, digests, sides, asked, ops>>
  BY DEF vars, shell, counterVars
<1>2. CoreInv'
  BY <1>1, CoreUnchanged DEF PNTyped
<1>. QED BY <1>1, <1>2 DEF PNTyped, PNType, DotsStamped

\* A step that changes nothing keeps the invariant of a map of sets.
LEMMA DMStutter == DMInv /\ UNCHANGED vars => DMInv'
<1>. SUFFICES ASSUME DMInv, UNCHANGED vars PROVE DMInv'
  OBVIOUS
<1>1. /\ UNCHANGED <<local, hwm, pending, tracked, known, peerHWMs, wire, digests>>
      /\ UNCHANGED <<created, keyTombs, memberEntries, memberTombs, memberAdds, memberRemoves>>
  BY DEF vars, shell, deltaMapVars
<1>2. CoreInv' /\ \A q, s \in Replicas : Covered(q, s)' = Covered(q, s)
  BY <1>1, CoreUnchanged DEF DMInv
<1>3. /\ keyTombs' \in [Replicas -> [Keys -> MemberTomb]]
      /\ \A q \in Replicas, k \in Keys : keyTombs'[q][k] \in {keyTombs[q][k], NoKeyTomb}
  BY <1>1 DEF DMInv, DMType
<1>. QED BY <1>1, <1>2, <1>3, DMQuiet

\* Nodes of type GList keep the invariant of the list.
THEOREM ListInvariant == Spec => [](kind = "GList" => GLInv)
<1>1. Init => (kind = "GList" => GLInv)
  BY GLInitial DEF Init
<1>2. (kind = "GList" => GLInv) /\ [Next]_vars => (kind = "GList" => GLInv)'
  <2>. SUFFICES ASSUME kind = "GList" => GLInv, [Next]_vars, kind' = "GList" PROVE GLInv'
    OBVIOUS
  <2>1. CASE UNCHANGED vars
    BY <2>1, GLStutter DEF vars
  <2>2. CASE Next
    BY <2>2, GLStep DEF Next
  <2>. QED BY <2>1, <2>2
<1>. QED BY <1>1, <1>2, PTL DEF Spec

\* A replica of a list holds exactly the appended items whose dots it has
\* recorded (glist.go, Apply and replica.go, applyDelta).
THEOREM ListHoldsWhatItRecorded == Spec => []HoldsWhatItRecorded
<1>1. (kind = "GList" => GLInv) => HoldsWhatItRecorded
  BY DEF GLInv, HoldsWhatItRecorded
<1>. QED BY <1>1, ListInvariant, PTL

\* The answer to any digest has every item that its sender lacks (glist.go,
\* DeltasSince).
THEOREM ListAnswersComplete == Spec => []DigestAnswerComplete
<1>1. (kind = "GList" => GLInv) => DigestAnswerComplete
  BY GLConsequences DEF DigestAnswerComplete
<1>. QED BY <1>1, ListInvariant, PTL

\* Nodes of type PNCounter keep the invariant of the counter as long as no
\* count can wrap around.
THEOREM CounterInvariant ==
  ASSUME NEW CONSTANT A \in Nat, NoWrapFor(A)
  PROVE  Spec => [](kind = "PNCounter" => PNInv(A))
<1>1. Init => (kind = "PNCounter" => PNInv(A))
  BY PNInitial DEF Init
<1>2. (kind = "PNCounter" => PNInv(A)) /\ [Next]_vars => (kind = "PNCounter" => PNInv(A))'
  <2>. SUFFICES ASSUME kind = "PNCounter" => PNInv(A), [Next]_vars, kind' = "PNCounter"
                PROVE  PNInv(A)'
    OBVIOUS
  <2>1. CASE UNCHANGED vars
    BY <2>1, PNStutter DEF vars
  <2>2. CASE Next
    BY <2>2, PNStep DEF Next
  <2>. QED BY <2>1, <2>2
<1>. QED BY <1>1, <1>2, PTL DEF Spec

\* No replica counts more than was asked for and the owner of a side counts
\* exactly that (pncounter.go, Apply: the larger count wins), as long as no
\* count can wrap around.
THEOREM CounterNeverOverCounts == ASSUME NoWrap PROVE Spec => []NoOverCount
<1>1. PICK A \in Nat : NoWrapFor(A)
  BY DEF NoWrap
<1>2. Spec => [](kind = "PNCounter" => PNInv(A))
  BY <1>1, CounterInvariant
<1>3. (kind = "PNCounter" => PNInv(A)) => NoOverCount
  BY DEF PNInv, NoOverCount
<1>. QED BY <1>2, <1>3, PTL

\* An operation that a replica has recorded is counted there, whatever overtook
\* it (pncounter.go, Apply), as long as no count can wrap around.
THEOREM CounterCountsRecorded == ASSUME NoWrap PROVE Spec => []RecordedIsCounted
<1>1. PICK A \in Nat : NoWrapFor(A)
  BY DEF NoWrap
<1>2. Spec => [](kind = "PNCounter" => PNInv(A))
  BY <1>1, CounterInvariant
<1>3. (kind = "PNCounter" => PNInv(A)) => RecordedIsCounted
  BY DEF PNInv, RecordedIsCounted
<1>. QED BY <1>2, <1>3, PTL

\* Nodes of type MVRegister keep the invariant of the register.
THEOREM RegisterInvariant == Spec => [](kind = "MVRegister" => MVInv)
<1>1. Init => (kind = "MVRegister" => MVInv)
  BY MVInitial DEF Init
<1>2. (kind = "MVRegister" => MVInv) /\ [Next]_vars => (kind = "MVRegister" => MVInv)'
  <2>. SUFFICES ASSUME kind = "MVRegister" => MVInv, [Next]_vars, kind' = "MVRegister"
                PROVE  MVInv'
    OBVIOUS
  <2>1. CASE UNCHANGED vars
    BY <2>1, MVStutter DEF vars
  <2>2. CASE Next
    BY <2>2, MVStep DEF Next
  <2>. QED BY <2>1, <2>2
<1>. QED BY <1>1, <1>2, PTL DEF Spec

\* A write that a replica has received is there until a write that superseded
\* it is received, in whatever order they come (mvreg.go, Apply).
THEOREM RegisterKeepsConcurrent == Spec => []ConcurrentWritesKept
<1>1. (kind = "MVRegister" => MVInv) => ConcurrentWritesKept
  BY DEF MVInv, ConcurrentWritesKept
<1>. QED BY <1>1, RegisterInvariant, PTL

\* A replica never holds two values of one writer (mvreg.go, Apply).
THEOREM RegisterOnePerWriter == Spec => []OneValuePerWriter
<1>1. (kind = "MVRegister" => MVInv) => OneValuePerWriter
  BY DEF MVInv, OneValuePerWriter
<1>. QED BY <1>1, RegisterInvariant, PTL

\* Nodes of type AWLWWMap keep the invariant of the map.
THEOREM MapInvariant == Spec => [](kind = "AWLWWMap" => AWInv)
<1>1. Init => (kind = "AWLWWMap" => AWInv)
  BY AWInitial DEF Init
<1>2. (kind = "AWLWWMap" => AWInv) /\ [Next]_vars => (kind = "AWLWWMap" => AWInv)'
  <2>. SUFFICES ASSUME kind = "AWLWWMap" => AWInv, [Next]_vars, kind' = "AWLWWMap"
                PROVE  AWInv'
    OBVIOUS
  <2>1. CASE UNCHANGED vars
    BY <2>1, AWStutter DEF vars
  <2>2. CASE Next
    BY <2>2, AWStep DEF Next
  <2>. QED BY <2>1, <2>2
<1>. QED BY <1>1, <1>2, PTL DEF Spec

\* The answer to any digest has the entries and the tombstones that its sender
\* lacks (awlwwmap.go, DeltasSince).
THEOREM MapAnswersComplete == Spec => []MapAnswerComplete
<1>1. (kind = "AWLWWMap" => AWInv) => MapAnswerComplete
  BY AWConsequences DEF MapAnswerComplete
<1>. QED BY <1>1, MapInvariant, PTL

\* A put is received in vain, and an entry taken out, only because of a remove
\* that had observed it (awlwwmap.go, applyRemove, and clock_addwins.go).
THEOREM MapAddsWin == Spec => AddWins
<1>1. (kind = "AWLWWMap" => AWInv) /\ [Next]_vars => [kind = "AWLWWMap" => AW!AddWinsStep]_vars
  BY AWStep DEF Next
<1>. QED BY <1>1, MapInvariant, PTL DEF Spec, AddWins

\* Nodes of type DeltaMap keep the invariant of the map of sets.
THEOREM DeltaMapInvariant == Spec => [](kind = "DeltaMap" => DMInv)
<1>1. Init => (kind = "DeltaMap" => DMInv)
  BY DMInitial DEF Init
<1>2. (kind = "DeltaMap" => DMInv) /\ [Next]_vars => (kind = "DeltaMap" => DMInv)'
  <2>. SUFFICES ASSUME kind = "DeltaMap" => DMInv, [Next]_vars, kind' = "DeltaMap"
                PROVE  DMInv'
    OBVIOUS
  <2>1. CASE UNCHANGED vars
    BY <2>1, DMStutter DEF vars
  <2>2. CASE Next
    BY <2>2, DMStep DEF Next
  <2>. QED BY <2>1, <2>2
<1>. QED BY <1>1, <1>2, PTL DEF Spec

\* A member that a replica has received is still there unless a remove of the
\* member or of its key had observed it (deltamap.go, Apply and RemoveKey;
\* mutations.go, removeAll).
THEOREM MembersObserved == Spec => []OnlyObservedMembersRemoved
<1>1. (kind = "DeltaMap" => DMInv) => OnlyObservedMembersRemoved
  BY DMConsequences DEF OnlyObservedMembersRemoved
<1>. QED BY <1>1, DeltaMapInvariant, PTL

\* A digest that is answered gets the members, the inner tombstones and the
\* tombstones of keys that its sender lacks (deltamap.go, DeltasSince).
THEOREM DeltaMapAnswersComplete == Spec => []DeltaMapAnswerComplete
<1>1. (kind = "DeltaMap" => DMInv) => DeltaMapAnswerComplete
  BY DMConsequences DEF DeltaMapAnswerComplete
<1>. QED BY <1>1, DeltaMapInvariant, PTL

\* The tombstone of a key is dropped only once every peer that has reported
\* its marks has received the remove (deltamap.go, GCTombstones).
THEOREM KeyCollectionSafe == Spec => KeyCollectedOnlyIfReceived
<1>1. (kind = "DeltaMap" => DMInv) /\ [Next]_vars
        => [kind = "DeltaMap" => DM!KeyCollectedStep]_vars
  BY DMCollectStep DEF Next
<1>. QED BY <1>1, DeltaMapInvariant, PTL DEF Spec, KeyCollectedOnlyIfReceived

\* Nodes of type PNCounter keep the types of the counter, whatever wraps around.
THEOREM CounterTyped == Spec => [](kind = "PNCounter" => PNTyped)
<1>1. Init => (kind = "PNCounter" => PNTyped)
  BY PNTypedStep DEF Init
<1>2. (kind = "PNCounter" => PNTyped) /\ [Next]_vars => (kind = "PNCounter" => PNTyped)'
  <2>. SUFFICES ASSUME kind = "PNCounter" => PNTyped, [Next]_vars, kind' = "PNCounter"
                PROVE  PNTyped'
    OBVIOUS
  <2>1. CASE UNCHANGED vars
    BY <2>1, PNTypedStutter DEF vars
  <2>2. CASE Next
    BY <2>2, PNTypedStep DEF Next
  <2>. QED BY <2>1, <2>2
<1>. QED BY <1>1, <1>2, PTL DEF Spec

\* The replica core (replica.go) and the data of each type keep their types.
THEOREM TypeCorrect == Spec => []TypeOK
<1>1. /\ kind = "PNCounter" => PNTyped
      /\ kind = "GList" => GLInv
      /\ kind = "MVRegister" => MVInv
      /\ kind = "AWLWWMap" => AWInv
      /\ kind = "DeltaMap" => DMInv
      => TypeOK
  <2>1. PNTyped => PN!TypeOK
    BY PNCore DEF PNTyped, CoreInv, CoreType, ReceivedType, PNType, PNEntry, PN!TypeOK
  <2>2. MVInv => MV!TypeOK
    BY MVCore DEF MVInv, CoreInv, CoreType, ReceivedType, MVType, MV!TypeOK
  <2>. QED BY <2>1, <2>2, GLConsequences, AWConsequences, DMConsequences DEF TypeOK
<1>. QED BY <1>1, CounterTyped, ListInvariant, RegisterInvariant, MapInvariant,
            DeltaMapInvariant, PTL
=============================================================================
