----------------------------- MODULE ORSetProofs -----------------------------
(***************************************************************************)
(* Safety of ORSet and of ORMap for every set of replicas and elements,    *)
(* every transport fault and every bound.                                  *)
(*                                                                         *)
(* That only observed adds are removed rests on what a tombstone's context *)
(* is: the marks of some remove of the element, and a mark covers nothing  *)
(* but what the remover had received and the remove's own dot, which is no *)
(* add's.  Tombstones are merged field by field, so the dot and the        *)
(* context of one may come from two removes; SetInv says of each of them   *)
(* alone that it belongs to a remove of the element.                       *)
(*                                                                         *)
(* The dots of an ORMap are those of an ORSet, so SetInv is reused for     *)
(* them.  Its values are passed on beside the dots of other puts: MapInv   *)
(* adds that the put of a value is covered by the dots beside it or was    *)
(* observed by a remove of the key.  The last part shows step by step that *)
(* the map without its values implements the set.                          *)
(***************************************************************************)
EXTENDS ORMap, ReplicaProofs, FiniteSetTheorems

\* Every dot of an add is one that its replica has stamped.
AddsStamped == \A a \in adds : a.dot.cnt \in 1..local[a.dot.rep]

\* No two adds have the same dot.
AddsDiffer == \A a, b \in adds : a.dot = b.dot => a.elem = b.elem

\* A remove's dot is one that its replica has stamped, for no add, and its
\* context covers what the remover had received and that dot, no more.
RemovesSound ==
    \A w \in removes :
        /\ w.dot.cnt \in 1..local[w.dot.rep]
        /\ \A a \in adds : a.dot # w.dot
        /\ \A s \in Replicas : \A n \in 1..w.ctx[s] : n \in w.seen[s] \/ DotOf(s, n) = w.dot

\* Every dot of the map is that of an add of e.
DotsAdded(e, dots) ==
    \A s \in Replicas : dots[s] > 0 => [elem |-> e, dot |-> DotOf(s, dots[s])] \in adds

DotRemoved(e, d) == \E w \in removes : w.elem = e /\ w.dot = d

CtxRemoved(e, ctx) == \E w \in removes : w.elem = e /\ w.ctx = ctx

DeltaSound(d) ==
    IF d.op = "add" THEN DotsAdded(d.elem, d.dots)
                    ELSE DotRemoved(d.elem, d.dot) /\ CtxRemoved(d.elem, d.ctx)

TombsSound ==
    \A r \in Replicas, e \in Elems : tombs[r][e] # NoTomb =>
        DotRemoved(e, tombs[r][e].dot) /\ CtxRemoved(e, tombs[r][e].ctx)

\* What has an entry or a tombstone is in the Merkle map.
PresentTracked == \A r \in Replicas, e \in Elems : Present(r, e) => e \in tracked[r]

\* The part of the types that is not the replica core's.
DataType ==
    /\ tracked \in [Replicas -> SUBSET Elems]
    /\ entries \in [Replicas -> [Elems -> VClock]]
    /\ tombs \in [Replicas -> [Elems -> [dot : Dot, ctx : VClock] \cup {NoTomb}]]
    /\ adds \subseteq [elem : Elems, dot : Dot]
    /\ removes \subseteq [elem : Elems, dot : Dot, ctx : VClock,
                          seen : [Replicas -> SUBSET Nat]]

SetInv == /\ CoreInv
        /\ DataType
        /\ AddsStamped
        /\ AddsDiffer
        /\ RemovesSound
        /\ TombsSound
        /\ PresentTracked
        /\ HeldDotsReceived
        /\ OnlyObservedAddsRemoved

\* The first state, with nothing added, removed or received, satisfies SetInv.
LEMMA InitSetInv == Init => SetInv
<1>. SUFFICES ASSUME Init PROVE SetInv
  OBVIOUS
<1>1. CoreInv
  BY CoreInitial DEF Init
<1>2. DataType
  BY DEF Init, ShellInit, DataType, EmptyClock, VClock
<1>3. AddsStamped /\ AddsDiffer /\ RemovesSound
  BY DEF Init, AddsStamped, AddsDiffer, RemovesSound
<1>4. TombsSound /\ PresentTracked
  BY DEF Init, TombsSound, PresentTracked, Present
<1>5. HeldDotsReceived /\ OnlyObservedAddsRemoved
  BY DEF Init, HeldDotsReceived, OnlyObservedAddsRemoved, EmptyClock
<1>. QED BY <1>1, <1>2, <1>3, <1>4, <1>5 DEF SetInv

\* An add that the context of a remove covers had been received by a remover.
LEMMA ContextObserved ==
  ASSUME DataType, RemovesSound, NEW a \in adds, NEW ctx,
         CtxRemoved(a.elem, ctx), a.dot.cnt \in 1..ctx[a.dot.rep]
  PROVE  \E w \in removes : w.elem = a.elem /\ a.dot.cnt \in w.seen[a.dot.rep]
<1>1. PICK w \in removes : w.elem = a.elem /\ w.ctx = ctx
  BY DEF CtxRemoved
<1>2. a.dot \in Dot /\ a.dot # w.dot
  BY DEF DataType, RemovesSound
<1>3. DotOf(a.dot.rep, a.dot.cnt) = a.dot /\ a.dot.rep \in Replicas
  BY <1>2 DEF Dot, DotOf
<1>4. a.dot.cnt \in w.seen[a.dot.rep] \/ DotOf(a.dot.rep, a.dot.cnt) = w.dot
  BY <1>1, <1>3 DEF RemovesSound
<1>. QED BY <1>1, <1>2, <1>3, <1>4

\* orSetState.Add (orset.go:32-55) keeps SetInv.
LEMMA AddSet ==
  ASSUME SetInv, NEW r \in Replicas, NEW e \in Elems,
         StampDot(r), AddElem(r, e), TrackKey(r, e, Present(r, e)'),
         adds' = adds \cup {[elem |-> e, dot |-> NextDot(r)]},
         UNCHANGED <<known, peerHWMs, digests, removes>>
  PROVE  SetInv'
<1>. DEFINE n == local[r] + 1
            a == [elem |-> e, dot |-> DotOf(r, n)]
<1>1. /\ StampDot(r)
      /\ entries' = [entries EXCEPT ![r][e][r] = n]
      /\ tombs' = tombs /\ removes' = removes
      /\ tracked' = [tracked EXCEPT ![r] = IF Present(r, e)' THEN @ \cup {e} ELSE @ \ {e}]
      /\ adds' = adds \cup {a}
      /\ known' = known /\ peerHWMs' = peerHWMs /\ digests' = digests
  BY DEF AddElem, NextDot, DotOf, TrackKey
<1>2. CoreInv /\ DataType /\ local \in [Replicas -> Nat]
  BY DEF SetInv, CoreInv, CoreType
<1>3. /\ CoreInv' /\ n \in Nat /\ n >= 1
      /\ local' = [local EXCEPT ![r] = n]
      /\ Covered(r, r)' = Covered(r, r) \cup {n}
      /\ \A q, s \in Replicas : (q # r \/ s # r) => Covered(q, s)' = Covered(q, s)
  BY <1>1, <1>2, CoreStamp
<1>4. \A q, s \in Replicas : Covered(q, s) \subseteq 1..local[s]
  BY <1>2, CoveredBounds DEF CoreInv
<1>. HIDE DEF n
<1>5. a \in [elem : Elems, dot : Dot]
  BY <1>3 DEF Dot, DotOf
<1>6. /\ entries' \in [Replicas -> [Elems -> VClock]]
      /\ entries'[r][e][r] = n
      /\ \A q, s \in Replicas, x \in Elems :
            (q # r \/ s # r \/ x # e) => entries'[q][x][s] = entries[q][x][s]
      /\ \A q \in Replicas, x \in Elems :
            (q # r \/ x # e) => entries'[q][x] = entries[q][x]
  BY <1>1, <1>2, <1>3 DEF DataType, VClock
<1>7. Present(r, e)'
  <2>1. entries'[r][e] # EmptyClock
    BY <1>3, <1>6 DEF EmptyClock
  <2>. QED BY <2>1 DEF Present
<1>8. DataType'
  <2>1. tracked' \in [Replicas -> SUBSET Elems]
    BY <1>1, <1>2 DEF DataType
  <2>3. adds' \subseteq [elem : Elems, dot : Dot]
    BY <1>1, <1>2, <1>5 DEF DataType
  <2>. QED BY <1>1, <1>2, <1>6, <2>1, <2>3 DEF DataType
<1>9. AddsStamped'
  <2>. SUFFICES ASSUME NEW b \in adds' PROVE b.dot.cnt \in 1..local'[b.dot.rep]
    BY DEF AddsStamped
  <2>1. CASE b \in adds
    <3>1. b.dot.cnt \in 1..local[b.dot.rep] /\ b.dot.rep \in Replicas
      BY <1>2, <2>1 DEF SetInv, AddsStamped, DataType, Dot
    <3>2. local[b.dot.rep] \in Nat /\ local'[b.dot.rep] \in Nat
          /\ local'[b.dot.rep] >= local[b.dot.rep]
      BY <1>2, <1>3, <3>1 DEF n
    <3>. QED BY <3>1, <3>2
  <2>2. CASE b = a
    BY <1>2, <1>3, <2>2 DEF DotOf
  <2>. QED BY <1>1, <2>1, <2>2
<1>10. AddsDiffer'
  <2>1. ASSUME NEW b \in adds PROVE b.dot # a.dot
    <3>1. b.dot.cnt \in 1..local[b.dot.rep]
      BY DEF SetInv, AddsStamped
    <3>. QED BY <1>2, <3>1 DEF n, DotOf
  <2>. QED BY <1>1, <2>1 DEF SetInv, AddsDiffer
<1>11. RemovesSound'
  <2>. SUFFICES ASSUME NEW w \in removes'
                PROVE  /\ w.dot.cnt \in 1..local'[w.dot.rep]
                       /\ \A b \in adds' : b.dot # w.dot
                       /\ \A s \in Replicas : \A k \in 1..w.ctx[s] :
                             k \in w.seen[s] \/ DotOf(s, k) = w.dot
    BY DEF RemovesSound
  <2>1. /\ w \in removes /\ w.dot \in Dot /\ w.dot.cnt \in 1..local[w.dot.rep]
        /\ \A b \in adds : b.dot # w.dot
        /\ \A s \in Replicas : \A k \in 1..w.ctx[s] :
              k \in w.seen[s] \/ DotOf(s, k) = w.dot
    BY <1>1, <1>2 DEF SetInv, RemovesSound, DataType
  <2>2. w.dot.rep \in Replicas /\ local[w.dot.rep] \in Nat
    BY <1>2, <2>1 DEF Dot
  <2>3. w.dot.cnt \in 1..local'[w.dot.rep]
    BY <1>2, <1>3, <2>1, <2>2 DEF n
  <2>4. a.dot # w.dot
    BY <1>2, <1>3, <2>1, <2>2 DEF n, DotOf
  <2>. QED BY <1>1, <2>1, <2>3, <2>4
<1>13. TombsSound'
  BY <1>1 DEF SetInv, TombsSound, DotRemoved, CtxRemoved
<1>14. PresentTracked'
  <2>. SUFFICES ASSUME NEW q \in Replicas, NEW x \in Elems, Present(q, x)'
                PROVE  x \in tracked'[q]
    BY DEF PresentTracked
  <2>1. CASE q = r /\ x = e
    BY <1>1, <1>2, <1>7, <2>1 DEF DataType
  <2>2. CASE ~(q = r /\ x = e)
    <3>1. Present(q, x)
      BY <1>1, <1>6, <2>2 DEF Present
    <3>. QED BY <1>1, <1>2, <1>7, <3>1 DEF SetInv, PresentTracked, DataType
  <2>. QED BY <2>1, <2>2
<1>15. HeldDotsReceived'
  <2>. SUFFICES ASSUME NEW q \in Replicas, NEW s \in Replicas, NEW x \in Elems,
                       entries'[q][x][s] > 0
                PROVE  /\ entries'[q][x][s] \in Covered(q, s)'
                       /\ [elem |-> x, dot |-> DotOf(s, entries'[q][x][s])] \in adds'
    BY DEF HeldDotsReceived, Received, DotOf
  <2>1. CASE q = r /\ x = e /\ s = r
    BY <1>1, <1>3, <1>6, <2>1
  <2>2. CASE ~(q = r /\ x = e /\ s = r)
    <3>1. /\ entries[q][x][s] \in Covered(q, s)
          /\ [elem |-> x, dot |-> DotOf(s, entries[q][x][s])] \in adds
      BY <1>6, <2>2 DEF SetInv, HeldDotsReceived, Received, DotOf
    <3>2. Covered(q, s) \subseteq Covered(q, s)'
      BY <1>3
    <3>. QED BY <1>1, <1>6, <2>2, <3>1, <3>2
  <2>. QED BY <2>1, <2>2
<1>16. OnlyObservedAddsRemoved'
  <2>. SUFFICES ASSUME NEW q \in Replicas, NEW b \in adds',
                       b.dot.cnt \in Covered(q, b.dot.rep)'
                PROVE  \/ entries'[q][b.elem][b.dot.rep] >= b.dot.cnt
                       \/ \E w \in removes : w.elem = b.elem /\ b.dot.cnt \in w.seen[b.dot.rep]
    BY <1>1 DEF OnlyObservedAddsRemoved, Received
  <2>1. CASE b \in adds
    <3>1. b.elem \in Elems /\ b.dot.rep \in Replicas /\ b.dot.cnt \in 1..local[b.dot.rep]
      BY <1>2, <2>1 DEF SetInv, AddsStamped, DataType, Dot
    <3>2. local[b.dot.rep] \in Nat /\ entries[q][b.elem][b.dot.rep] \in Nat
      BY <1>2, <3>1 DEF DataType, VClock
    <3>3. b.dot.cnt \in Covered(q, b.dot.rep)
      BY <1>3, <3>1, <3>2 DEF n
    <3>4. \/ entries[q][b.elem][b.dot.rep] >= b.dot.cnt
          \/ \E w \in removes : w.elem = b.elem /\ b.dot.cnt \in w.seen[b.dot.rep]
      BY <2>1, <3>3 DEF SetInv, OnlyObservedAddsRemoved, Received
    <3>5. CASE q = r /\ b.elem = e /\ b.dot.rep = r
      BY <1>3, <1>6, <3>1, <3>2, <3>5 DEF n
    <3>6. CASE ~(q = r /\ b.elem = e /\ b.dot.rep = r)
      BY <1>6, <3>1, <3>4, <3>6
    <3>. QED BY <3>5, <3>6
  <2>2. CASE b = a
    <3>1. b.elem = e /\ b.dot.rep = r /\ b.dot.cnt = n
      BY <2>2 DEF DotOf
    <3>2. q = r
      BY <1>2, <1>3, <1>4, <3>1 DEF n
    <3>. QED BY <1>3, <1>6, <3>1, <3>2
  <2>. QED BY <1>1, <2>1, <2>2
<1>. QED BY <1>3, <1>8, <1>9, <1>10, <1>11, <1>13, <1>14, <1>15, <1>16 DEF SetInv

\* orSetState.Remove (orset.go:62-76) keeps SetInv: its context is made of marks.
LEMMA RemoveSet ==
  ASSUME SetInv, NEW r \in Replicas, NEW e \in Elems,
         StampDot(r), RemoveElem(r, e), TrackKey(r, e, Present(r, e)'),
         removes' = removes \cup {RemoveOf(r, e)},
         UNCHANGED <<known, peerHWMs, digests, adds>>
  PROVE  SetInv'
<1>. DEFINE n == local[r] + 1
            w == [elem |-> e, dot |-> DotOf(r, n), ctx |-> hwm'[r],
                  seen |-> [s \in Replicas |-> Covered(r, s)]]
            tomb == [dot |-> DotOf(r, n), ctx |-> hwm'[r]]
<1>1. /\ StampDot(r)
      /\ entries' = [entries EXCEPT ![r][e] = EmptyClock]
      /\ tombs' = [tombs EXCEPT ![r][e] = tomb]
      /\ tracked' = [tracked EXCEPT ![r] = IF Present(r, e)' THEN @ \cup {e} ELSE @ \ {e}]
      /\ removes' = removes \cup {w} /\ adds' = adds
      /\ known' = known /\ peerHWMs' = peerHWMs /\ digests' = digests
  BY DEF RemoveElem, RemoveOf, NextDot, DotOf, TrackKey
<1>2. CoreInv /\ DataType /\ local \in [Replicas -> Nat]
  BY DEF SetInv, CoreInv, CoreType
<1>3. /\ CoreInv' /\ n \in Nat /\ n >= 1
      /\ local' = [local EXCEPT ![r] = n]
      /\ Covered(r, r)' = Covered(r, r) \cup {n}
      /\ \A q, s \in Replicas : (q # r \/ s # r) => Covered(q, s)' = Covered(q, s)
  BY <1>1, <1>2, CoreStamp
<1>4. \A q, s \in Replicas : Covered(q, s) \subseteq 1..local[s]
  BY <1>2, CoveredBounds DEF CoreInv
<1>5. /\ hwm'[r] \in VClock
      /\ \A s \in Replicas : 1..hwm'[r][s] \subseteq Covered(r, s)'
  BY <1>3 DEF CoreInv, CoreType, ReceivedType, Covered
<1>. HIDE DEF n
<1>6. /\ DotOf(r, n) \in Dot /\ tomb \in [dot : Dot, ctx : VClock]
      /\ tomb # NoTomb
  BY <1>3, <1>5 DEF Dot, DotOf, NoTomb, NoDot
<1>7. w \in [elem : Elems, dot : Dot, ctx : VClock, seen : [Replicas -> SUBSET Nat]]
  <2>1. [s \in Replicas |-> Covered(r, s)] \in [Replicas -> SUBSET Nat]
    BY <1>2, <1>4
  <2>. QED BY <1>5, <1>6, <2>1
<1>8. /\ entries' \in [Replicas -> [Elems -> VClock]]
      /\ \A s \in Replicas : entries'[r][e][s] = 0
      /\ \A q \in Replicas, x \in Elems :
            (q # r \/ x # e) => entries'[q][x] = entries[q][x]
  BY <1>1, <1>2 DEF DataType, VClock, EmptyClock
<1>9. /\ tombs' \in [Replicas -> [Elems -> [dot : Dot, ctx : VClock] \cup {NoTomb}]]
      /\ tombs'[r][e] = tomb
      /\ \A q \in Replicas, x \in Elems :
            (q # r \/ x # e) => tombs'[q][x] = tombs[q][x]
  BY <1>1, <1>2, <1>6 DEF DataType
<1>10. DataType'
  <2>1. tracked' \in [Replicas -> SUBSET Elems]
    BY <1>1, <1>2 DEF DataType
  <2>3. removes' \subseteq [elem : Elems, dot : Dot, ctx : VClock,
                            seen : [Replicas -> SUBSET Nat]]
    BY <1>1, <1>2, <1>7 DEF DataType
  <2>. QED BY <1>1, <1>2, <1>8, <1>9, <2>1, <2>3 DEF DataType
<1>11. AddsStamped'
  <2>. SUFFICES ASSUME NEW b \in adds PROVE b.dot.cnt \in 1..local'[b.dot.rep]
    BY <1>1 DEF AddsStamped
  <2>1. b.dot.cnt \in 1..local[b.dot.rep] /\ b.dot.rep \in Replicas
    BY <1>2 DEF SetInv, AddsStamped, DataType, Dot
  <2>. QED BY <1>2, <1>3, <2>1 DEF n
<1>12. AddsDiffer'
  BY <1>1 DEF SetInv, AddsDiffer
<1>13. RemovesSound'
  <2>. SUFFICES ASSUME NEW v \in removes'
                PROVE  /\ v.dot.cnt \in 1..local'[v.dot.rep]
                       /\ \A b \in adds : b.dot # v.dot
                       /\ \A s \in Replicas : \A k \in 1..v.ctx[s] :
                             k \in v.seen[s] \/ DotOf(s, k) = v.dot
    BY <1>1 DEF RemovesSound
  <2>1. CASE v \in removes
    <3>1. /\ v.dot.rep \in Replicas /\ v.dot.cnt \in 1..local[v.dot.rep]
          /\ \A b \in adds : b.dot # v.dot
          /\ \A s \in Replicas : \A k \in 1..v.ctx[s] :
                k \in v.seen[s] \/ DotOf(s, k) = v.dot
      BY <1>2, <2>1 DEF SetInv, RemovesSound, DataType, Dot
    <3>2. v.dot.cnt \in 1..local'[v.dot.rep]
      BY <1>2, <1>3, <3>1 DEF n
    <3>. QED BY <3>1, <3>2
  <2>2. CASE v = w
    <3>1. v.dot.rep = r /\ v.dot.cnt = n
      BY <2>2 DEF DotOf
    <3>2. v.dot.cnt \in 1..local'[v.dot.rep]
      BY <1>2, <1>3, <3>1
    <3>3. ASSUME NEW b \in adds PROVE b.dot # v.dot
      <4>1. b.dot.cnt \in 1..local[b.dot.rep]
        BY DEF SetInv, AddsStamped
      <4>. QED BY <1>2, <3>1, <4>1 DEF n
    <3>4. ASSUME NEW s \in Replicas, NEW k \in 1..v.ctx[s]
          PROVE  k \in v.seen[s] \/ DotOf(s, k) = v.dot
      <4>1. k \in Covered(r, s)'
        BY <1>5, <2>2
      <4>2. v.seen[s] = Covered(r, s)
        BY <2>2
      <4>3. CASE s # r
        BY <1>3, <4>1, <4>2, <4>3
      <4>4. CASE s = r
        BY <1>3, <2>2, <4>1, <4>2, <4>4
      <4>. QED BY <4>3, <4>4
    <3>. QED BY <3>2, <3>3, <3>4
  <2>. QED BY <1>1, <2>1, <2>2
<1>15. TombsSound'
  <2>. SUFFICES ASSUME NEW q \in Replicas, NEW x \in Elems, tombs'[q][x] # NoTomb
                PROVE  (DotRemoved(x, tombs[q][x].dot) /\ CtxRemoved(x, tombs[q][x].ctx))'
    BY DEF TombsSound
  <2>1. CASE q = r /\ x = e
    <3>1. w \in removes' /\ w.elem = x /\ w.dot = tombs'[q][x].dot /\ w.ctx = tombs'[q][x].ctx
      BY <1>1, <1>9, <2>1
    <3>. HIDE DEF w
    <3>. QED BY <3>1 DEF DotRemoved, CtxRemoved
  <2>2. CASE ~(q = r /\ x = e)
    BY <1>1, <1>9, <2>2 DEF SetInv, TombsSound, DotRemoved, CtxRemoved
  <2>. QED BY <2>1, <2>2
<1>16. PresentTracked'
  <2>. SUFFICES ASSUME NEW q \in Replicas, NEW x \in Elems, Present(q, x)'
                PROVE  x \in tracked'[q]
    BY DEF PresentTracked
  <2>1. Present(r, e)'
    BY <1>6, <1>9 DEF Present
  <2>2. CASE q = r /\ x = e
    BY <1>1, <1>2, <2>1, <2>2 DEF DataType
  <2>3. CASE ~(q = r /\ x = e)
    <3>1. Present(q, x)
      BY <1>8, <1>9, <2>3 DEF Present
    <3>. QED BY <1>1, <1>2, <2>1, <3>1 DEF SetInv, PresentTracked, DataType
  <2>. QED BY <2>2, <2>3
<1>17. HeldDotsReceived'
  <2>. SUFFICES ASSUME NEW q \in Replicas, NEW s \in Replicas, NEW x \in Elems,
                       entries'[q][x][s] > 0
                PROVE  /\ entries'[q][x][s] \in Covered(q, s)'
                       /\ [elem |-> x, dot |-> DotOf(s, entries'[q][x][s])] \in adds
    BY <1>1 DEF HeldDotsReceived, Received, DotOf
  <2>1. entries'[q][x] = entries[q][x]
    BY <1>8
  <2>2. /\ entries[q][x][s] \in Covered(q, s)
        /\ [elem |-> x, dot |-> DotOf(s, entries[q][x][s])] \in adds
    BY <2>1 DEF SetInv, HeldDotsReceived, Received, DotOf
  <2>3. Covered(q, s) \subseteq Covered(q, s)'
    BY <1>3
  <2>. QED BY <2>1, <2>2, <2>3
<1>18. OnlyObservedAddsRemoved'
  <2>. SUFFICES ASSUME NEW q \in Replicas, NEW b \in adds,
                       b.dot.cnt \in Covered(q, b.dot.rep)'
                PROVE  \/ entries'[q][b.elem][b.dot.rep] >= b.dot.cnt
                       \/ \E v \in removes' : v.elem = b.elem /\ b.dot.cnt \in v.seen[b.dot.rep]
    BY <1>1 DEF OnlyObservedAddsRemoved, Received
  <2>1. b.elem \in Elems /\ b.dot.rep \in Replicas /\ b.dot.cnt \in 1..local[b.dot.rep]
    BY <1>2 DEF SetInv, AddsStamped, DataType, Dot
  <2>2. b.dot.cnt \in Covered(q, b.dot.rep)
    BY <1>2, <1>3, <2>1 DEF n
  <2>3. CASE q = r /\ b.elem = e
    <3>1. b.dot.cnt \in w.seen[b.dot.rep]
      BY <2>1, <2>2, <2>3
    <3>. QED BY <1>1, <2>3, <3>1
  <2>4. CASE ~(q = r /\ b.elem = e)
    BY <1>1, <1>8, <2>1, <2>2, <2>4 DEF SetInv, OnlyObservedAddsRemoved, Received
  <2>. QED BY <2>3, <2>4
<1>. QED BY <1>3, <1>10, <1>11, <1>12, <1>13, <1>15, <1>16, <1>17, <1>18 DEF SetInv

\* An operation whose codec fails (node.go:95-100) uses up a dot that is no
\* add's and no remove's.
LEMMA OpFailsSet == ASSUME SetInv, NEW r \in Replicas, OpFails(r) PROVE SetInv'
<1>. DEFINE n == local[r] + 1
<1>1. /\ StampDot(r)
      /\ UNCHANGED <<tracked, known, peerHWMs, wire, digests, entries, tombs, adds, removes>>
  BY DEF OpFails
<1>2. CoreInv /\ DataType /\ local \in [Replicas -> Nat]
  BY DEF SetInv, CoreInv, CoreType
<1>3. /\ CoreInv' /\ n \in Nat
      /\ local' = [local EXCEPT ![r] = n]
      /\ Covered(r, r)' = Covered(r, r) \cup {n}
      /\ \A q, s \in Replicas : (q # r \/ s # r) => Covered(q, s)' = Covered(q, s)
  BY <1>1, <1>2, CoreStamp
<1>4. DataType'
  BY <1>1, <1>2 DEF DataType
<1>5. ASSUME NEW d \in Dot, d.cnt \in 1..local[d.rep]
      PROVE  /\ d.cnt \in 1..local'[d.rep]
             /\ \A q \in Replicas : d.cnt \in Covered(q, d.rep)' <=> d.cnt \in Covered(q, d.rep)
  <2>1. d.rep \in Replicas /\ local[d.rep] \in Nat
    BY <1>2 DEF Dot
  <2>2. d.cnt \in 1..local'[d.rep]
    BY <1>2, <1>3, <1>5, <2>1
  <2>3. ~(d.rep = r /\ d.cnt = n)
    BY <1>5, <2>1
  <2>. QED BY <1>3, <2>1, <2>2, <2>3
<1>6. AddsStamped' /\ AddsDiffer' /\ RemovesSound'
  BY <1>1, <1>2, <1>5 DEF SetInv, AddsStamped, AddsDiffer, RemovesSound, DataType
<1>7. TombsSound' /\ PresentTracked'
  BY <1>1 DEF SetInv, DotRemoved, CtxRemoved, TombsSound, PresentTracked, Present
<1>8. HeldDotsReceived'
  BY <1>1, <1>3 DEF SetInv, HeldDotsReceived, Received, DotOf
<1>9. OnlyObservedAddsRemoved'
  BY <1>1, <1>2, <1>5 DEF SetInv, OnlyObservedAddsRemoved, Received, AddsStamped, DataType
<1>. QED BY <1>3, <1>4, <1>6, <1>7, <1>8, <1>9 DEF SetInv

\* The dots of a delta that is in flight were stamped by their replicas, and
\* an add whose dot is among them is one that the delta brings.
LEMMA DeltaDots ==
  ASSUME SetInv, NEW d \in Delta, DeltaSound(d)
  PROVE  /\ d.elem \in Elems
         /\ DotsOf(d) \in VClock
         /\ \A s \in Replicas : DotsOf(d)[s] <= local[s]
         /\ d.op = "add" => d.dots \in VClock /\ DotsOf(d) = d.dots
         /\ d.op # "add" =>
              /\ d.op = "remove" /\ d.dot \in Dot /\ d.ctx \in VClock
              /\ \A b \in adds : DotsOf(d)[b.dot.rep] # b.dot.cnt
<1>1. local \in [Replicas -> Nat] /\ DataType
  BY DEF SetInv, CoreInv, CoreType
<1>2. CASE d.op = "add"
  <2>1. d.elem \in Elems /\ d.dots \in VClock /\ DotsOf(d) = d.dots
    BY <1>1, <1>2 DEF Delta, DotsOf
  <2>2. ASSUME NEW s \in Replicas PROVE d.dots[s] <= local[s]
    <3>1. d.dots[s] \in Nat /\ local[s] \in Nat
      BY <1>1, <2>1 DEF VClock
    <3>2. CASE d.dots[s] > 0
      <4>1. [elem |-> d.elem, dot |-> DotOf(s, d.dots[s])] \in adds
        BY <1>1, <1>2, <3>2 DEF DeltaSound, DotsAdded
      <4>. QED BY <3>1, <4>1 DEF SetInv, AddsStamped, DotOf
    <3>. QED BY <3>1, <3>2
  <2>. QED BY <1>2, <2>1, <2>2
<1>3. CASE d.op # "add"
  <2>1. /\ d.op = "remove" /\ d.elem \in Elems /\ d.dot \in Dot /\ d.ctx \in VClock
        /\ DotsOf(d) = Singleton(d.dot)
    BY <1>1, <1>3 DEF Delta, DotsOf
  <2>2. PICK w \in removes : w.dot = d.dot
    BY <1>1, <1>3 DEF DeltaSound, DotRemoved
  <2>3. /\ d.dot.rep \in Replicas /\ d.dot.cnt \in 1..local[d.dot.rep]
        /\ local[d.dot.rep] \in Nat
    BY <1>1, <2>1, <2>2 DEF SetInv, RemovesSound, Dot
  <2>4. Singleton(d.dot) \in VClock /\ \A s \in Replicas : Singleton(d.dot)[s] <= local[s]
    BY <1>1, <2>1, <2>3 DEF Singleton, VClock, Dot
  <2>5. ASSUME NEW b \in adds PROVE Singleton(d.dot)[b.dot.rep] # b.dot.cnt
    <3>1. b.dot # d.dot /\ b.dot \in Dot /\ b.dot.cnt \in 1..local[b.dot.rep]
      BY <1>1, <2>2 DEF SetInv, RemovesSound, AddsStamped, DataType
    <3>2. b.dot.rep = d.dot.rep => b.dot.cnt # d.dot.cnt
      BY <2>1, <3>1 DEF Dot
    <3>3. b.dot.cnt # 0 /\ b.dot.rep \in Replicas
      BY <1>1, <3>1 DEF Dot
    <3>. QED BY <3>2, <3>3 DEF Singleton
  <2>. QED BY <1>3, <2>1, <2>4, <2>5
<1>. QED BY <1>2, <1>3

\* A remove of b's element had observed b.
Observed(b) == \E w \in removes : w.elem = b.elem /\ b.dot.cnt \in w.seen[b.dot.rep]

\* What applyDelta leaves of the element of a delta: dots of received adds of
\* the element, and of the adds received none is missing that no remover had
\* observed (orset.go:262-348).
LEMMA AppliedEntry ==
  ASSUME SetInv, NEW r \in Replicas, NEW d \in Delta, DeltaSound(d), Apply(r, d),
         \A s \in Replicas : Covered(r, s)' = Covered(r, s) \cup
             (IF DotsOf(d)[s] = 0 THEN {} ELSE {DotsOf(d)[s]})
  PROVE  \E left \in VClock :
           /\ entries' = [entries EXCEPT ![r][d.elem] = left]
           /\ \A s \in Replicas : left[s] > 0 =>
                /\ left[s] \in Covered(r, s)'
                /\ [elem |-> d.elem, dot |-> DotOf(s, left[s])] \in adds
           /\ \A b \in adds :
                (b.elem = d.elem /\ b.dot.cnt \in Covered(r, b.dot.rep)')
                  => left[b.dot.rep] >= b.dot.cnt \/ Observed(b)
<1>. DEFINE e == d.elem
            old == entries[r][e]
            ctx == tombs[r][e].ctx
<1>1. /\ e \in Elems /\ DotsOf(d) \in VClock
      /\ d.op = "add" => d.dots \in VClock /\ DotsOf(d) = d.dots
      /\ d.op # "add" => /\ d.op = "remove" /\ d.ctx \in VClock
                         /\ \A b \in adds : DotsOf(d)[b.dot.rep] # b.dot.cnt
  BY DeltaDots
<1>2. DataType /\ RemovesSound /\ DeltaSound(d) /\ old \in VClock
  BY <1>1 DEF SetInv, DataType
<1>3. ctx \in VClock /\ ((\E s \in Replicas : ctx[s] > 0) => CtxRemoved(e, ctx))
  <2>1. tombs[r][e] \in [dot : Dot, ctx : VClock] \cup {NoTomb}
    BY <1>1, <1>2 DEF DataType
  <2>2. CASE tombs[r][e] = NoTomb
    BY <2>2 DEF NoTomb, EmptyClock, VClock
  <2>3. CASE tombs[r][e] # NoTomb
    BY <1>1, <2>1, <2>3 DEF SetInv, TombsSound
  <2>. QED BY <2>2, <2>3
<1>4. \A s \in Replicas : old[s] > 0 =>
        /\ old[s] \in Covered(r, s) /\ Covered(r, s) \subseteq Covered(r, s)'
        /\ [elem |-> e, dot |-> DotOf(s, old[s])] \in adds
  BY <1>1 DEF SetInv, HeldDotsReceived, Received, DotOf
<1>5. ASSUME NEW b \in adds, b.elem = e
      PROVE  /\ b.dot.rep \in Replicas /\ b.dot.cnt \in Nat /\ b.dot.cnt > 0
             /\ b.dot.cnt \in Covered(r, b.dot.rep) =>
                  old[b.dot.rep] >= b.dot.cnt \/ Observed(b)
             /\ \A c \in VClock : (CtxRemoved(e, c) /\ b.dot.cnt <= c[b.dot.rep]) => Observed(b)
  <2>1. b.dot \in Dot /\ b.dot.cnt \in 1..local[b.dot.rep]
    BY <1>2 DEF SetInv, DataType, AddsStamped
  <2>2. local \in [Replicas -> Nat]
    BY DEF SetInv, CoreInv, CoreType
  <2>3. b.dot.rep \in Replicas /\ b.dot.cnt \in Nat /\ b.dot.cnt > 0
    BY <2>1, <2>2 DEF Dot
  <2>4. b.dot.cnt \in Covered(r, b.dot.rep) => old[b.dot.rep] >= b.dot.cnt \/ Observed(b)
    BY <1>5 DEF SetInv, OnlyObservedAddsRemoved, Received, Observed
  <2>5. ASSUME NEW c \in VClock, CtxRemoved(e, c), b.dot.cnt <= c[b.dot.rep]
        PROVE  Observed(b)
    <3>1. b.dot.cnt \in 1..c[b.dot.rep]
      BY <2>3, <2>5 DEF VClock
    <3>. QED BY <1>2, <1>5, <2>5, <3>1, ContextObserved DEF Observed
  <2>. QED BY <2>3, <2>4, <2>5
<1>6. CASE d.op = "add"
  <2>. DEFINE both == CombineDots(old, d.dots)
              left == Surviving(both, ctx)
              new == IF left # EmptyClock THEN left ELSE old
  <2>1. d.dots \in VClock /\ DotsOf(d) = d.dots
    BY <1>1, <1>6
  <2>2. /\ both \in VClock
        /\ \A s \in Replicas : /\ old[s] \in Nat /\ d.dots[s] \in Nat /\ both[s] \in Nat
                               /\ both[s] = old[s] \/ both[s] = d.dots[s]
                               /\ both[s] >= old[s] /\ both[s] >= d.dots[s]
    <3>1. both \in VClock
      BY <1>2, <2>1, CombinedDots
    <3>2. \A s \in Replicas : both[s] \in Nat
      BY <3>1 DEF VClock
    <3>. QED BY <1>2, <2>1, <3>1, <3>2, CombinedDots
  <2>. HIDE DEF both
  <2>3. /\ left \in VClock
        /\ \A s \in Replicas : /\ ctx[s] \in Nat
                               /\ left[s] = both[s] \/ left[s] = 0
                               /\ both[s] > ctx[s] => left[s] = both[s]
    BY <1>3, <2>2, SurvivingDots
  <2>4. entries' = [entries EXCEPT ![r][e] = new]
    BY <1>6 DEF Apply, AfterAdd, both
  <2>. HIDE DEF left
  <2>5. new \in VClock
    BY <1>2, <2>3
  <2>6. ASSUME NEW s \in Replicas, new[s] > 0
        PROVE  new[s] \in Covered(r, s)' /\ [elem |-> e, dot |-> DotOf(s, new[s])] \in adds
    <3>1. d.dots[s] > 0 => /\ d.dots[s] \in Covered(r, s)'
                           /\ [elem |-> e, dot |-> DotOf(s, d.dots[s])] \in adds
      BY <1>2, <1>6, <2>1 DEF DeltaSound, DotsAdded
    <3>2. new[s] = old[s] \/ new[s] = d.dots[s]
      BY <2>2, <2>3, <2>6
    <3>. QED BY <1>4, <2>6, <3>1, <3>2
  <2>7. ASSUME NEW b \in adds, b.elem = e, b.dot.cnt \in Covered(r, b.dot.rep)'
        PROVE  new[b.dot.rep] >= b.dot.cnt \/ Observed(b)
    <3>. DEFINE s == b.dot.rep
    <3>1. s \in Replicas /\ b.dot.cnt \in Nat /\ b.dot.cnt > 0
      BY <1>5, <2>7
    <3>2. b.dot.cnt \in Covered(r, s) \/ b.dot.cnt = d.dots[s]
      BY <2>1, <2>7, <3>1
    <3>3. b.dot.cnt \in Covered(r, s) => old[s] >= b.dot.cnt \/ Observed(b)
      BY <1>5, <2>7
    <3>4. CASE both[s] >= b.dot.cnt /\ b.dot.cnt > ctx[s]
      <4>1. left[s] = both[s]
        BY <2>2, <2>3, <3>1, <3>4
      <4>2. left # EmptyClock
        BY <3>1, <3>4, <4>1, <2>2 DEF EmptyClock
      <4>. QED BY <3>4, <4>1, <4>2
    <3>5. CASE b.dot.cnt <= ctx[s]
      <4>1. CtxRemoved(e, ctx)
        BY <1>3, <2>3, <3>1, <3>5
      <4>. QED BY <1>3, <1>5, <2>7, <3>5, <4>1
    <3>. QED BY <2>2, <2>3, <3>1, <3>2, <3>3, <3>4, <3>5
  <2>. QED BY <2>4, <2>5, <2>6, <2>7
<1>7. CASE d.op # "add"
  <2>. DEFINE new == Surviving(old, d.ctx)
  <2>1. d.ctx \in VClock /\ CtxRemoved(e, d.ctx)
    BY <1>1, <1>2, <1>7 DEF DeltaSound
  <2>2. /\ new \in VClock
        /\ \A s \in Replicas : /\ old[s] \in Nat /\ d.ctx[s] \in Nat
                               /\ new[s] = old[s] \/ new[s] = 0
                               /\ old[s] > d.ctx[s] => new[s] = old[s]
    BY <1>2, <2>1, SurvivingDots
  <2>3. entries' = [entries EXCEPT ![r][e] = new]
    BY <1>1, <1>2, <1>7 DEF Apply, DataType
  <2>. HIDE DEF new
  <2>4. ASSUME NEW s \in Replicas, new[s] > 0
        PROVE  new[s] \in Covered(r, s)' /\ [elem |-> e, dot |-> DotOf(s, new[s])] \in adds
    BY <1>4, <2>2, <2>4
  <2>5. ASSUME NEW b \in adds, b.elem = e, b.dot.cnt \in Covered(r, b.dot.rep)'
        PROVE  new[b.dot.rep] >= b.dot.cnt \/ Observed(b)
    <3>. DEFINE s == b.dot.rep
    <3>1. s \in Replicas /\ b.dot.cnt \in Nat /\ DotsOf(d)[s] # b.dot.cnt
      BY <1>1, <1>5, <1>7, <2>5
    <3>2. old[s] >= b.dot.cnt \/ Observed(b)
      BY <1>5, <2>5, <3>1
    <3>3. b.dot.cnt <= d.ctx[s] => Observed(b)
      BY <1>5, <2>1, <2>5
    <3>. QED BY <2>2, <3>1, <3>2, <3>3
  <2>. QED BY <2>2, <2>3, <2>4, <2>5
<1>. QED BY <1>6, <1>7

\* applyDelta (replica.go:136-157) keeps SetInv, in whatever order and however
\* often deltas come.
LEMMA ReceiveSet ==
  ASSUME SetInv, NEW r \in Replicas, NEW d \in Delta, DeltaSound(d),
         Apply(r, d), RecordDots(r, DotsOf(d)),
         TrackKey(r, d.elem, Present(r, d.elem)'),
         UNCHANGED <<local, known, peerHWMs, digests, adds, removes>>
  PROVE  SetInv'
<1>. DEFINE e == d.elem
<1>1. /\ Apply(r, d)
      /\ RecordDots(r, DotsOf(d))
      /\ tracked' = [tracked EXCEPT ![r] = IF Present(r, e)' THEN @ \cup {e} ELSE @ \ {e}]
      /\ UNCHANGED <<local, known, peerHWMs, digests, adds, removes>>
  BY DEF TrackKey
<1>2. CoreInv /\ DataType /\ local \in [Replicas -> Nat] /\ DeltaSound(d)
  BY DEF SetInv, CoreInv, CoreType
<1>3. /\ e \in Elems /\ DotsOf(d) \in VClock
      /\ \A s \in Replicas : DotsOf(d)[s] <= local[s]
      /\ d.op # "add" => d.op = "remove" /\ d.dot \in Dot /\ d.ctx \in VClock
  BY DeltaDots
<1>4. /\ CoreInv'
      /\ \A s \in Replicas : Covered(r, s)' = Covered(r, s) \cup
             (IF DotsOf(d)[s] = 0 THEN {} ELSE {DotsOf(d)[s]})
      /\ \A q \in Replicas \ {r}, s \in Replicas : Covered(q, s)' = Covered(q, s)
  <2>1. \A s \in Replicas : local'[s] >= local[s] /\ DotsOf(d)[s] <= local'[s]
    BY <1>1, <1>2, <1>3
  <2>2. local' \in [Replicas -> Nat] /\ known' = known /\ peerHWMs' = peerHWMs /\ digests' = digests
    BY <1>1, <1>2
  <2>. QED BY <1>1, <1>2, <1>3, <2>1, <2>2, CoreRecord
<1>5. PICK left \in VClock :
        /\ entries' = [entries EXCEPT ![r][e] = left]
        /\ \A s \in Replicas : left[s] > 0 =>
             /\ left[s] \in Covered(r, s)'
             /\ [elem |-> e, dot |-> DotOf(s, left[s])] \in adds
        /\ \A b \in adds :
             (b.elem = e /\ b.dot.cnt \in Covered(r, b.dot.rep)')
               => left[b.dot.rep] >= b.dot.cnt \/ Observed(b)
  BY <1>1, <1>4, AppliedEntry
<1>6. /\ entries' \in [Replicas -> [Elems -> VClock]]
      /\ entries'[r][e] = left
      /\ \A q \in Replicas, x \in Elems : (q # r \/ x # e) => entries'[q][x] = entries[q][x]
  BY <1>2, <1>3, <1>5 DEF DataType
<1>7. /\ tombs' \in [Replicas -> [Elems -> [dot : Dot, ctx : VClock] \cup {NoTomb}]]
      /\ tombs'[r][e] # NoTomb =>
           DotRemoved(e, tombs'[r][e].dot) /\ CtxRemoved(e, tombs'[r][e].ctx)
      /\ \A q \in Replicas, x \in Elems : (q # r \/ x # e) => tombs'[q][x] = tombs[q][x]
  <2>1. tombs \in [Replicas -> [Elems -> [dot : Dot, ctx : VClock] \cup {NoTomb}]]
    BY <1>2 DEF DataType
  <2>2. tombs[r][e] # NoTomb =>
          DotRemoved(e, tombs[r][e].dot) /\ CtxRemoved(e, tombs[r][e].ctx)
    BY <1>3 DEF SetInv, TombsSound
  <2>3. CASE d.op = "add"
    BY <1>1, <2>1, <2>2, <2>3 DEF Apply
  <2>4. CASE d.op # "add"
    <3>. DEFINE new == TombAfterRemove(r, d)
    <3>1. tombs' = [tombs EXCEPT ![r][e] = new]
      BY <1>1, <2>4 DEF Apply
    <3>2. /\ d.dot \in Dot /\ d.ctx \in VClock
          /\ DotRemoved(e, d.dot) /\ CtxRemoved(e, d.ctx)
      BY <1>2, <1>3, <2>4 DEF DeltaSound
    <3>3. /\ new = [dot |-> new.dot, ctx |-> d.ctx]
          /\ new.dot = d.dot \/ (tombs[r][e] # NoTomb /\ new.dot = tombs[r][e].dot)
      BY DEF TombAfterRemove
    <3>. HIDE DEF new
    <3>4. new \in [dot : Dot, ctx : VClock]
      <4>1. tombs[r][e] # NoTomb => tombs[r][e].dot \in Dot
        BY <1>3, <2>1
      <4>. QED BY <3>2, <3>3, <4>1
    <3>5. DotRemoved(e, new.dot) /\ CtxRemoved(e, new.ctx)
      BY <2>2, <3>2, <3>3
    <3>. QED BY <1>3, <2>1, <3>1, <3>4, <3>5
  <2>. QED BY <2>3, <2>4
<1>8. DataType'
  BY <1>1, <1>2, <1>3, <1>6, <1>7 DEF DataType
<1>9. AddsStamped' /\ AddsDiffer' /\ RemovesSound'
  BY <1>1 DEF SetInv, AddsStamped, AddsDiffer, RemovesSound
<1>11. TombsSound'
  <2>. SUFFICES ASSUME NEW q \in Replicas, NEW x \in Elems, tombs'[q][x] # NoTomb
                PROVE  DotRemoved(x, tombs'[q][x].dot) /\ CtxRemoved(x, tombs'[q][x].ctx)
    BY <1>1 DEF TombsSound, DotRemoved, CtxRemoved
  <2>1. CASE q = r /\ x = e
    BY <1>7, <2>1
  <2>2. CASE ~(q = r /\ x = e)
    BY <1>7, <2>2 DEF SetInv, TombsSound
  <2>. QED BY <2>1, <2>2
<1>12. PresentTracked'
  <2>. SUFFICES ASSUME NEW q \in Replicas, NEW x \in Elems, Present(q, x)'
                PROVE  x \in tracked'[q]
    BY DEF PresentTracked
  <2>1. CASE q = r /\ x = e
    BY <1>1, <1>2, <2>1 DEF DataType
  <2>2. CASE ~(q = r /\ x = e)
    <3>1. Present(q, x)
      BY <1>6, <1>7, <2>2 DEF Present
    <3>2. x \in tracked[q]
      BY <3>1 DEF SetInv, PresentTracked
    <3>. QED BY <1>1, <1>2, <2>2, <3>2 DEF DataType
  <2>. QED BY <2>1, <2>2
<1>13. \A q, s \in Replicas : Covered(q, s) \subseteq Covered(q, s)'
  BY <1>4
<1>14. HeldDotsReceived'
  <2>. SUFFICES ASSUME NEW q \in Replicas, NEW s \in Replicas, NEW x \in Elems,
                       entries'[q][x][s] > 0
                PROVE  /\ entries'[q][x][s] \in Covered(q, s)'
                       /\ [elem |-> x, dot |-> DotOf(s, entries'[q][x][s])] \in adds
    BY <1>1 DEF HeldDotsReceived, Received, DotOf
  <2>1. CASE q = r /\ x = e
    BY <1>5, <1>6, <2>1
  <2>2. CASE ~(q = r /\ x = e)
    <3>1. entries'[q][x] = entries[q][x]
      BY <1>6, <2>2
    <3>2. /\ entries[q][x][s] \in Covered(q, s)
          /\ [elem |-> x, dot |-> DotOf(s, entries[q][x][s])] \in adds
      BY <3>1 DEF SetInv, HeldDotsReceived, Received, DotOf
    <3>. QED BY <1>13, <3>1, <3>2
  <2>. QED BY <2>1, <2>2
<1>15. OnlyObservedAddsRemoved'
  <2>. SUFFICES ASSUME NEW q \in Replicas, NEW b \in adds,
                       b.dot.cnt \in Covered(q, b.dot.rep)'
                PROVE  entries'[q][b.elem][b.dot.rep] >= b.dot.cnt \/ Observed(b)
    BY <1>1 DEF OnlyObservedAddsRemoved, Received, Observed
  <2>1. b.elem \in Elems /\ b.dot.rep \in Replicas /\ b.dot.cnt \in Nat
    BY <1>2 DEF DataType, Dot
  <2>2. CASE q = r /\ b.elem = e
    BY <1>5, <1>6, <2>2
  <2>3. CASE q = r /\ b.elem # e
    <3>1. ASSUME b.dot.cnt \notin Covered(r, b.dot.rep) PROVE FALSE
      <4>1. DotsOf(d)[b.dot.rep] = b.dot.cnt /\ b.dot.cnt # 0
        BY <1>4, <2>1, <2>3, <3>1
      <4>2. d.op = "add" /\ DotsOf(d) = d.dots
        BY <4>1, DeltaDots
      <4>3. [elem |-> e, dot |-> b.dot] \in adds
        <5>1. DotOf(b.dot.rep, b.dot.cnt) = b.dot
          BY <1>2 DEF DataType, Dot, DotOf
        <5>. QED BY <1>2, <2>1, <4>1, <4>2, <5>1 DEF DeltaSound, DotsAdded
      <4>. QED BY <2>3, <4>3 DEF SetInv, AddsDiffer
    <3>. QED BY <1>6, <2>1, <2>3, <3>1 DEF SetInv, OnlyObservedAddsRemoved, Received, Observed
  <2>4. CASE q # r
    BY <1>4, <1>6, <2>1, <2>4 DEF SetInv, OnlyObservedAddsRemoved, Received, Observed
  <2>. QED BY <2>2, <2>3, <2>4
<1>. QED BY <1>4, <1>8, <1>9, <1>11, <1>12, <1>14, <1>15 DEF SetInv

\* Collecting tombstones (orset.go:384-399) and sending digests keeps SetInv.
LEMMA SendDigestsSet ==
  ASSUME SetInv, NEW r \in Replicas, GCTombstones(r), BroadcastDigest(r),
         UNCHANGED <<local, hwm, pending, tracked, known, peerHWMs, entries, adds, removes>>
  PROVE  SetInv'
<1>1. /\ tombs' = [tombs EXCEPT ![r] = [e \in Elems |->
                     IF Collectable(r, e) THEN NoTomb ELSE tombs[r][e]]]
      /\ digests' = digests \cup {Digest(r, p) : p \in Peers(r)}
      /\ UNCHANGED <<local, hwm, pending, tracked, known, peerHWMs, entries, adds, removes>>
  BY DEF GCTombstones, BroadcastDigest
<1>2. CoreInv /\ DataType
  BY DEF SetInv
<1>3. CoreInv' /\ \A q, s \in Replicas : Covered(q, s)' = Covered(q, s)
  BY <1>1, <1>2, CoreBroadcast
<1>4. /\ tombs' \in [Replicas -> [Elems -> [dot : Dot, ctx : VClock] \cup {NoTomb}]]
      /\ \A q \in Replicas, x \in Elems : tombs'[q][x] # NoTomb => tombs'[q][x] = tombs[q][x]
  BY <1>1, <1>2 DEF DataType
<1>5. DataType'
  BY <1>1, <1>2, <1>4 DEF DataType
<1>6. AddsStamped' /\ AddsDiffer' /\ RemovesSound'
  BY <1>1 DEF SetInv, AddsStamped, AddsDiffer, RemovesSound
<1>8. TombsSound' /\ PresentTracked'
  BY <1>1, <1>4 DEF SetInv, TombsSound, DotRemoved, CtxRemoved, PresentTracked, Present
<1>9. HeldDotsReceived' /\ OnlyObservedAddsRemoved'
  BY <1>1, <1>2, <1>3 DEF SetInv, HeldDotsReceived, OnlyObservedAddsRemoved, Received, DotOf,
                          DataType, Dot
<1>. QED BY <1>3, <1>5, <1>6, <1>8, <1>9 DEF SetInv

\* What DeltasSince sends (orset.go:352-381) is sound.
LEMMA SentSound ==
  ASSUME SetInv, NEW r \in Replicas, NEW peerHWM, NEW d \in DeltasSince(r, peerHWM)
  PROVE  d \in Delta /\ DeltaSound(d)
<1>. USE DEF SetInv
<1>1. CASE \E e \in Elems : d = AddDelta(e, entries[r][e])
  <2>1. PICK e \in Elems : d = AddDelta(e, entries[r][e])
    BY <1>1
  <2>2. d \in Delta
    BY <2>1 DEF Delta, AddDelta, DataType
  <2>3. DotsAdded(e, entries[r][e])
    BY DEF HeldDotsReceived, DotsAdded
  <2>. QED BY <2>1, <2>2, <2>3 DEF DeltaSound, AddDelta
<1>2. CASE \E e \in Elems : /\ tombs[r][e] # NoTomb
                            /\ d = RemoveDelta(e, tombs[r][e].dot, tombs[r][e].ctx)
  <2>1. PICK e \in Elems : /\ tombs[r][e] # NoTomb
                           /\ d = RemoveDelta(e, tombs[r][e].dot, tombs[r][e].ctx)
    BY <1>2
  <2>2. tombs[r][e] \in [dot : Dot, ctx : VClock]
    BY <2>1 DEF DataType
  <2>3. d \in Delta
    BY <2>1, <2>2 DEF Delta, RemoveDelta
  <2>4. DotRemoved(e, tombs[r][e].dot) /\ CtxRemoved(e, tombs[r][e].ctx)
    BY <2>1 DEF TombsSound
  <2>. QED BY <2>1, <2>3, <2>4 DEF DeltaSound, RemoveDelta
<1>. QED BY <1>1, <1>2 DEF DeltasSince

\* handleSyncDigest (replica.go:261-282) keeps SetInv, whatever it sends.
LEMMA ReceiveDigestSet ==
  ASSUME SetInv, NEW r \in Replicas, NEW m \in digests, NEW sent, AnswerDigest(r, m, sent),
         UNCHANGED <<entries, tombs, adds, removes>>
  PROVE  SetInv' /\ m.from \in Replicas /\ wire' \subseteq wire \cup Syncs(m.from, sent)
<1>1. /\ digests' \subseteq digests
      /\ known' = [known EXCEPT ![r] = @ \cup {m.from}]
      /\ peerHWMs' = [peerHWMs EXCEPT ![r][m.from] = m.hwm]
      /\ wire' \subseteq wire \cup Syncs(m.from, sent)
      /\ UNCHANGED <<local, hwm, pending, tracked>>
  BY DEF AnswerDigest, Remaining
<1>2. CoreInv /\ DataType
  BY DEF SetInv
<1>3. /\ CoreInv' /\ \A q, s \in Replicas : Covered(q, s)' = Covered(q, s)
      /\ m.from \in Replicas
  BY <1>1, <1>2, CoreAnswer
<1>4. DataType'
  BY <1>1, <1>2 DEF DataType
<1>5. AddsStamped' /\ AddsDiffer' /\ RemovesSound'
  BY <1>1 DEF SetInv, AddsStamped, AddsDiffer, RemovesSound
<1>6. TombsSound' /\ PresentTracked'
  BY <1>1 DEF SetInv, TombsSound, DotRemoved, CtxRemoved, PresentTracked, Present
<1>7. HeldDotsReceived' /\ OnlyObservedAddsRemoved'
  BY <1>2, <1>3 DEF SetInv, HeldDotsReceived, OnlyObservedAddsRemoved, Received, DotOf,
                    DataType, Dot
<1>. QED BY <1>1, <1>3, <1>4, <1>5, <1>6, <1>7 DEF SetInv

\* A step that leaves the set alone keeps SetInv.
LEMMA QuietSet ==
  ASSUME SetInv, digests' \subseteq digests,
         UNCHANGED <<local, hwm, pending, tracked, known, peerHWMs,
                     entries, tombs, adds, removes>>
  PROVE  SetInv'
<1>1. CoreInv /\ DataType
  BY DEF SetInv
<1>2. CoreInv' /\ \A q, s \in Replicas : Covered(q, s)' = Covered(q, s)
  BY <1>1, CoreUnchanged
<1>3. DataType'
  BY <1>1 DEF DataType
<1>4. AddsStamped' /\ AddsDiffer' /\ RemovesSound'
  BY DEF SetInv, AddsStamped, AddsDiffer, RemovesSound
<1>5. TombsSound' /\ PresentTracked'
  BY DEF SetInv, TombsSound, DotRemoved, CtxRemoved, PresentTracked, Present
<1>6. HeldDotsReceived' /\ OnlyObservedAddsRemoved'
  BY <1>1, <1>2 DEF SetInv, HeldDotsReceived, OnlyObservedAddsRemoved, Received, DotOf,
                    DataType, Dot
<1>. QED BY <1>2, <1>3, <1>4, <1>5, <1>6 DEF SetInv

\* What is sound stays sound: the histories only grow.
LEMMA SoundStays ==
  ASSUME NEW d, DeltaSound(d), adds \subseteq adds', removes \subseteq removes'
  PROVE  DeltaSound(d)'
BY DEF DeltaSound, DotsAdded, DotRemoved, CtxRemoved

\* The delta of an add is sound.
LEMMA AddDeltaSound ==
  ASSUME SetInv, NEW r \in Replicas, NEW e \in Elems,
         adds' = adds \cup {[elem |-> e, dot |-> NextDot(r)]},
         NEW d, d = AddDelta(e, Singleton(NextDot(r)))
  PROVE  d \in Delta /\ DeltaSound(d)'
<1>. DEFINE n == local[r] + 1
<1>1. n \in Nat /\ NextDot(r) = DotOf(r, n)
  BY DEF SetInv, CoreInv, CoreType, NextDot
<1>. HIDE DEF n
<1>2. /\ Singleton(DotOf(r, n)) \in VClock /\ Singleton(DotOf(r, n))[r] = n
      /\ \A s \in Replicas : Singleton(DotOf(r, n))[s] > 0 => s = r
  BY <1>1 DEF Singleton, DotOf, VClock
<1>3. d \in Delta /\ d.op = "add" /\ d.elem = e /\ d.dots = Singleton(DotOf(r, n))
  BY <1>1, <1>2 DEF AddDelta, Delta
<1>4. \A s \in Replicas : d.dots[s] > 0 => [elem |-> d.elem, dot |-> DotOf(s, d.dots[s])] \in adds'
  BY <1>1, <1>2, <1>3
<1>. QED BY <1>3, <1>4 DEF DeltaSound, DotsAdded

\* The delta of a remove is sound.
LEMMA RemoveDeltaSound ==
  ASSUME SetInv, SetInv', NEW r \in Replicas, NEW e \in Elems,
         removes' = removes \cup {RemoveOf(r, e)},
         NEW d, d = RemoveDelta(e, NextDot(r), hwm'[r])
  PROVE  d \in Delta /\ DeltaSound(d)'
<1>1. NextDot(r) \in Dot /\ hwm'[r] \in VClock
  BY DEF SetInv, CoreInv, CoreType, ReceivedType, NextDot, DotOf, Dot
<1>2. /\ d \in Delta /\ d.op = "remove"
      /\ d.elem = e /\ d.dot = NextDot(r) /\ d.ctx = hwm'[r]
  BY <1>1 DEF RemoveDelta, Delta
<1>. DEFINE w == RemoveOf(r, e)
<1>3. /\ w \in removes' /\ w.elem = e /\ w.dot = NextDot(r) /\ w.ctx = hwm'[r]
  BY DEF RemoveOf
<1>. HIDE DEF w
<1>. QED BY <1>2, <1>3 DEF DeltaSound, DotRemoved, CtxRemoved
-----------------------------------------------------------------------------
(* The set: SetInv and the deltas in flight.                               *)

WireSound ==
    /\ wire \subseteq [to : Replicas, via : {"push", "sync"}, delta : Delta]
    /\ \A m \in wire : DeltaSound(m.delta)

IInv == SetInv /\ WireSound

\* Deltas in flight stay sound when the new ones are.
LEMMA WireStays ==
  ASSUME WireSound, adds \subseteq adds', removes \subseteq removes',
         \A m \in wire' : m \in wire \/
             (m \in [to : Replicas, via : {"push", "sync"}, delta : Delta] /\ DeltaSound(m.delta)')
  PROVE  WireSound'
<1>1. ASSUME NEW m \in wire' PROVE DeltaSound(m.delta)'
  <2>1. CASE m \in wire
    <3>1. PICK d : d = m.delta
      OBVIOUS
    <3>. QED BY <2>1, <3>1, SoundStays DEF WireSound
  <2>. QED BY <2>1
<1>. QED BY <1>1 DEF WireSound

\* ORSet.Add (node.go:93-107) keeps IInv.
LEMMA AddStep == ASSUME IInv, NEW r \in Replicas, NEW e \in Elems, Add(r, e) PROVE IInv'
<1>1. PICK d : d = AddDelta(e, Singleton(NextDot(r)))
  OBVIOUS
<1>2. /\ StampDot(r) /\ AddElem(r, e) /\ TrackKey(r, e, Present(r, e)')
      /\ wire' = wire \cup Pushes(r, d)
      /\ adds' = adds \cup {[elem |-> e, dot |-> NextDot(r)]}
      /\ UNCHANGED <<known, peerHWMs, digests, removes>>
  BY <1>1 DEF Add, Propagate
<1>3. SetInv'
  BY <1>2, AddSet DEF IInv
<1>4. d \in Delta /\ DeltaSound(d)'
  BY <1>1, <1>2, AddDeltaSound DEF IInv
<1>5. \A m \in wire' : m \in wire \/
        (m \in [to : Replicas, via : {"push", "sync"}, delta : Delta] /\ DeltaSound(m.delta)')
  BY <1>2, <1>4 DEF Pushes, Peers
<1>. QED BY <1>2, <1>3, <1>5, WireStays DEF IInv

\* ORSet.Remove (node.go:110-123) keeps IInv.
LEMMA RemoveStep == ASSUME IInv, NEW r \in Replicas, NEW e \in Elems, Remove(r, e) PROVE IInv'
<1>1. PICK d : d = RemoveDelta(e, NextDot(r), hwm'[r])
  OBVIOUS
<1>2. /\ StampDot(r) /\ RemoveElem(r, e) /\ TrackKey(r, e, Present(r, e)')
      /\ wire' = wire \cup Pushes(r, d)
      /\ removes' = removes \cup {RemoveOf(r, e)}
      /\ UNCHANGED <<known, peerHWMs, digests, adds>>
  BY <1>1 DEF Remove, Propagate
<1>3. SetInv'
  BY <1>2, RemoveSet DEF IInv
<1>4. d \in Delta /\ DeltaSound(d)'
  BY <1>1, <1>2, <1>3, RemoveDeltaSound DEF IInv
<1>5. \A m \in wire' : m \in wire \/
        (m \in [to : Replicas, via : {"push", "sync"}, delta : Delta] /\ DeltaSound(m.delta)')
  BY <1>2, <1>4 DEF Pushes, Peers
<1>. QED BY <1>2, <1>3, <1>5, WireStays DEF IInv

\* applyDelta keeps IInv.
LEMMA ReceiveDeltaStep ==
  ASSUME IInv, NEW r \in Replicas, NEW m \in wire, ReceiveDelta(r, m) PROVE IInv'
<1>1. m.delta \in Delta /\ DeltaSound(m.delta)
  BY DEF IInv, WireSound
<1>2. SetInv'
  BY <1>1, ReceiveSet DEF IInv, ReceiveDelta
<1>3. wire' \subseteq wire /\ adds' = adds /\ removes' = removes
  BY DEF ReceiveDelta, Remaining
<1>. QED BY <1>2, <1>3, WireStays DEF IInv

\* handleSyncDigest keeps IInv.
LEMMA ReceiveDigestStep ==
  ASSUME IInv, NEW r \in Replicas, NEW m \in digests, ReceiveDigest(r, m) PROVE IInv'
<1>1. PICK sent : sent = DeltasSince(r, m.hwm)
  OBVIOUS
<1>2. AnswerDigest(r, m, sent) /\ UNCHANGED <<entries, tombs, adds, removes>>
  BY <1>1 DEF ReceiveDigest
<1>3. SetInv' /\ m.from \in Replicas /\ wire' \subseteq wire \cup Syncs(m.from, sent)
  BY <1>2, ReceiveDigestSet DEF IInv
<1>4. ASSUME NEW d \in sent PROVE d \in Delta /\ DeltaSound(d)'
  <2>1. d \in Delta /\ DeltaSound(d)
    BY <1>1, SentSound DEF IInv
  <2>. QED BY <1>2, <2>1, SoundStays
<1>5. \A x \in wire' : x \in wire \/
        (x \in [to : Replicas, via : {"push", "sync"}, delta : Delta] /\ DeltaSound(x.delta)')
  BY <1>3, <1>4 DEF Syncs
<1>. QED BY <1>2, <1>3, <1>5, WireStays DEF IInv

\* Every step of the set keeps IInv.
LEMMA NextStep == ASSUME IInv, [Next]_vars PROVE IInv'
<1>1. CASE UNCHANGED vars
  BY <1>1, QuietSet, WireStays DEF IInv, vars, shell
<1>2. CASE Lose
  BY <1>2, QuietSet, WireStays DEF IInv, Lose, LoseDelta, LoseDigest
<1>3. ASSUME NEW r \in Replicas, OpFails(r) PROVE IInv'
  BY <1>3, OpFailsSet, WireStays DEF IInv, OpFails
<1>4. ASSUME NEW r \in Replicas, SendDigests(r) PROVE IInv'
  BY <1>4, SendDigestsSet, WireStays DEF IInv, SendDigests
<1>. QED BY <1>1, <1>2, <1>3, <1>4, AddStep, RemoveStep, ReceiveDeltaStep, ReceiveDigestStep
       DEF Next

\* Everything the safety of the set rests on, in every reachable state.
THEOREM InductiveInvariant == Spec => []IInv
<1>1. Init => IInv
  BY InitSetInv DEF IInv, WireSound, Init, ShellInit
<1>2. IInv /\ [Next]_vars => IInv'
  BY NextStep
<1>. QED BY <1>1, <1>2, PTL DEF Spec

\* The state keeps its types whatever is lost, repeated or reordered.
THEOREM TypeCorrect == Spec => []TypeOK
<1>1. IInv => TypeOK
  BY DEF IInv, SetInv, TypeOK, CoreInv, CoreType, ReceivedType, DataType, WireSound
<1>. QED BY InductiveInvariant, <1>1, PTL

\* What keeps an element alive is the dot of a received add of that element
\* (orset.go:32-55, 272-300).
THEOREM HeldAreReceived == Spec => []HeldDotsReceived
<1>1. IInv => HeldDotsReceived
  BY DEF IInv, SetInv
<1>. QED BY InductiveInvariant, <1>1, PTL

\* The promise of an observed-remove set: a received add is there unless a
\* remover had received it (orset.go:62-76, 272-330).
THEOREM UnobservedAddsStay == Spec => []OnlyObservedAddsRemoved
<1>1. IInv => OnlyObservedAddsRemoved
  BY DEF IInv, SetInv
<1>. QED BY InductiveInvariant, <1>1, PTL

\* No digest, however stale, hides a dot or a tombstone that its sender lacks
\* (replica.go:261-282, orset.go:352-381).
THEOREM AnswersComplete == Spec => []DigestAnswerComplete
<1>1. ASSUME IInv PROVE DigestAnswerComplete
  <2>. SUFFICES ASSUME NEW m \in digests, NEW e \in Elems
                PROVE  /\ \A s \in Replicas :
                            (/\ entries[m.to][e][s] > 0
                             /\ ~Received(m.from, DotOf(s, entries[m.to][e][s])))
                               => /\ AddDelta(e, entries[m.to][e]) \in DeltasSince(m.to, m.hwm)
                                  /\ ~SameHash(m.to, m)
                       /\ (tombs[m.to][e] # NoTomb /\ ~Received(m.from, tombs[m.to][e].dot))
                            => /\ RemoveDelta(e, tombs[m.to][e].dot, tombs[m.to][e].ctx)
                                    \in DeltasSince(m.to, m.hwm)
                               /\ ~SameHash(m.to, m)
    BY DEF DigestAnswerComplete
  <2>1. /\ m.to \in Replicas /\ m.from \in Replicas /\ m.hwm \in VClock
        /\ LTE(m.hwm, hwm[m.from]) /\ CoreInv /\ DataType
    BY <1>1 DEF IInv, SetInv, CoreInv, CoreType, ReportedMarksSound
  <2>2. ASSUME NEW s \in Replicas, NEW n \in Nat, n > 0, ~Received(m.from, DotOf(s, n))
        PROVE  n > m.hwm[s]
    <3>1. m.hwm[s] \in Nat /\ hwm[m.from][s] \in Nat /\ m.hwm[s] <= hwm[m.from][s]
      BY <2>1 DEF LTE, VClock, CoreInv, CoreType, ReceivedType
    <3>2. n \notin 1..hwm[m.from][s]
      BY <2>2 DEF Received, Covered, DotOf
    <3>. QED BY <2>2, <3>1, <3>2
  <2>3. Present(m.to, e) => ~SameHash(m.to, m)
    BY <1>1, <2>1 DEF IInv, SetInv, PresentTracked, SameHash
  <2>4. ASSUME NEW s \in Replicas, entries[m.to][e][s] > 0,
               ~Received(m.from, DotOf(s, entries[m.to][e][s]))
        PROVE  /\ AddDelta(e, entries[m.to][e]) \in DeltasSince(m.to, m.hwm)
               /\ ~SameHash(m.to, m)
    <3>1. entries[m.to][e][s] \in Nat
      BY <2>1 DEF DataType, VClock
    <3>2. entries[m.to][e][s] > m.hwm[s]
      BY <2>2, <2>4, <3>1
    <3>3. Present(m.to, e)
      BY <2>4 DEF Present, EmptyClock
    <3>. QED BY <2>3, <3>2, <3>3 DEF DeltasSince
  <2>5. ASSUME tombs[m.to][e] # NoTomb, ~Received(m.from, tombs[m.to][e].dot)
        PROVE  /\ RemoveDelta(e, tombs[m.to][e].dot, tombs[m.to][e].ctx)
                    \in DeltasSince(m.to, m.hwm)
               /\ ~SameHash(m.to, m)
    <3>. DEFINE d == tombs[m.to][e].dot
    <3>1. DotRemoved(e, d) /\ d \in Dot
      BY <1>1, <2>1, <2>5 DEF IInv, SetInv, TombsSound, DataType
    <3>2. d.cnt \in 1..local[d.rep] /\ local \in [Replicas -> Nat]
      BY <1>1, <3>1 DEF IInv, SetInv, DotRemoved, RemovesSound, CoreInv, CoreType
    <3>3. /\ d.rep \in Replicas /\ d.cnt \in Nat /\ d.cnt > 0
          /\ d = DotOf(d.rep, d.cnt)
      BY <3>1, <3>2 DEF Dot, DotOf
    <3>4. d.cnt > m.hwm[d.rep]
      BY <2>2, <2>5, <3>3
    <3>5. Present(m.to, e)
      BY <2>5 DEF Present
    <3>. QED BY <2>3, <2>5, <3>4, <3>5 DEF DeltasSince
  <2>. QED BY <2>4, <2>5
<1>2. IInv => DigestAnswerComplete
  BY <1>1
<1>. QED BY InductiveInvariant, <1>2, PTL

\* A tombstone is dropped only after every peer that has reported its marks
\* has received the remove (replica.go:242-249, orset.go:384-399).
THEOREM CollectionSafe == Spec => CollectedOnlyIfReceived
<1>. DEFINE Safe == \A r \in Replicas, e \in Elems : Collected(r, e) =>
                      \A p \in known[r] : Received(p, tombs[r][e].dot)
<1>1. ASSUME IInv, [Next]_vars, NEW r \in Replicas, NEW e \in Elems, Collected(r, e),
             NEW p \in known[r]
      PROVE  Received(p, tombs[r][e].dot)
  <2>. DEFINE d == tombs[r][e].dot
  <2>1. DataType /\ CoreInv /\ tombs[r][e] # NoTomb /\ tombs'[r][e] = NoTomb
    BY <1>1 DEF IInv, SetInv, Collected
  <2>2. Collectable(r, e)
    <3>1. ASSUME NEW q \in Replicas, SendDigests(q) PROVE Collectable(r, e)
      BY <2>1, <3>1 DEF SendDigests, GCTombstones, DataType
    <3>2. ASSUME NEW q \in Replicas, NEW x \in Elems, Remove(q, x) PROVE FALSE
      <4>1. [dot |-> NextDot(q), ctx |-> hwm'[q]] # NoTomb
        BY <2>1 DEF NoTomb, NextDot, DotOf, NoDot, CoreInv, CoreType
      <4>. QED BY <2>1, <3>2, <4>1 DEF Remove, RemoveElem, DataType
    <3>3. ASSUME NEW q \in Replicas, NEW m \in wire, ReceiveDelta(q, m) PROVE FALSE
      <4>1. m.delta.op # "add" => DotRemoved(m.delta.elem, m.delta.dot)
        BY <1>1 DEF IInv, SetInv, WireSound, DeltaSound
      <4>2. m.delta.op # "add" => m.delta.dot.cnt \in 1..local[m.delta.dot.rep]
        BY <1>1, <4>1 DEF IInv, SetInv, RemovesSound, DotRemoved
      <4>3. m.delta.op # "add" => m.delta.dot # NoDot
        BY <2>1, <4>2 DEF NoDot
      <4>4. ASSUME tombs[q][m.delta.elem] # NoTomb, m.delta.elem \in Elems
            PROVE  tombs[q][m.delta.elem].dot # NoDot
        <5>1. DotRemoved(m.delta.elem, tombs[q][m.delta.elem].dot)
          BY <1>1, <4>4 DEF IInv, SetInv, TombsSound
        <5>2. tombs[q][m.delta.elem].dot.cnt \in 1..local[tombs[q][m.delta.elem].dot.rep]
          BY <1>1, <5>1 DEF IInv, SetInv, RemovesSound, DotRemoved
        <5>. QED BY <5>2 DEF NoDot
      <4>5. m.delta.elem \in Elems
        BY <1>1 DEF IInv, SetInv, WireSound, Delta
      <4>6. CASE m.delta.op = "add"
        BY <2>1, <3>3, <4>6 DEF ReceiveDelta, Apply
      <4>7. CASE m.delta.op # "add"
        <5>1. tombs' = [tombs EXCEPT ![q][m.delta.elem] = TombAfterRemove(q, m.delta)]
          BY <3>3, <4>7 DEF ReceiveDelta, Apply
        <5>2. TombAfterRemove(q, m.delta).dot # NoDot
          BY <4>3, <4>4, <4>5, <4>7 DEF TombAfterRemove
        <5>3. TombAfterRemove(q, m.delta) # NoTomb
          BY <5>2 DEF NoTomb
        <5>. QED BY <2>1, <4>5, <5>1, <5>3 DEF DataType
      <4>. QED BY <4>6, <4>7
    <3>4. CASE tombs' = tombs
      BY <2>1, <3>4
    <3>. QED BY <1>1, <3>1, <3>2, <3>3, <3>4
           DEF Next, vars, Add, AddElem, OpFails, ReceiveDigest, Lose
  <2>3. DotRemoved(e, d) /\ d \in Dot
    BY <1>1, <2>1 DEF IInv, SetInv, TombsSound, DataType
  <2>4. d.cnt \in 1..local[d.rep] /\ d.rep \in Replicas
    BY <1>1, <2>3 DEF IInv, SetInv, DotRemoved, RemovesSound, Dot
  <2>5. p \in Replicas
    BY <2>1 DEF CoreInv, CoreType
  <2>6. MinHWM(r)[d.rep] \in Nat /\ MinHWM(r)[d.rep] <= hwm[p][d.rep]
    BY <2>1, <2>4, MinHWMReceived
  <2>7. d.cnt <= MinHWM(r)[d.rep]
    BY <2>2 DEF Collectable
  <2>8. 1..hwm[p][d.rep] \subseteq Covered(p, d.rep) /\ hwm[p][d.rep] \in Nat /\ local[d.rep] \in Nat
    BY <2>1, <2>4, <2>5, CoveredBounds DEF CoreInv
  <2>9. d.cnt \in 1..hwm[p][d.rep]
    BY <2>4, <2>6, <2>7, <2>8
  <2>. QED BY <2>8, <2>9 DEF Received
<1>2. IInv /\ [Next]_vars => [Safe]_vars
  BY <1>1
<1>. QED BY InductiveInvariant, <1>2, PTL DEF Spec, CollectedOnlyIfReceived
-----------------------------------------------------------------------------
(* The map: SetInv for its keys, and what its values and deltas are.       *)

\* v is the value of a put of k that the dots cover or a remover had observed.
Backed(k, dots, v) ==
    /\ v \in Dot
    /\ [elem |-> k, dot |-> v] \in adds
    /\ v.cnt <= dots[v.rep] \/ Observed([elem |-> k, dot |-> v])

MapDeltaSound(d) ==
    /\ DeltaSound(WithoutValue(d))
    /\ d.op = "add" => Backed(d.elem, d.dots, d.val)

MapWireSound ==
    /\ wire \subseteq [to : Replicas, via : {"push", "sync"}, delta : MapDelta]
    /\ \A m \in wire : MapDeltaSound(m.delta)

ValuesSound ==
    /\ vals \in [Replicas -> [Elems -> Dot \cup {NoDot}]]
    /\ ValueBacked

MapInv == SetInv /\ MapWireSound /\ ValuesSound /\ IsFiniteSet(wire)

\* A key's value and dots as ValueBacked has them.
ShownWith(k, dots, v) ==
    \/ v = NoDot /\ dots = EmptyClock
    \/ v # NoDot /\ dots # EmptyClock /\ Backed(k, dots, v)

\* A put's value is that of a stamped dot.
LEMMA BackedStamped ==
  ASSUME SetInv, NEW k, NEW dots, NEW v, Backed(k, dots, v)
  PROVE  v.rep \in Replicas /\ v.cnt \in Nat /\ v.cnt > 0 /\ v # NoDot
<1>1. v.rep \in Replicas /\ v.cnt \in Nat
  BY DEF Backed, Dot
<1>2. v.cnt \in 1..local[v.rep] /\ local[v.rep] \in Nat
  BY <1>1 DEF Backed, SetInv, AddsStamped, CoreInv, CoreType
<1>. QED BY <1>1, <1>2 DEF NoDot

\* ValueBacked, key by key.
LEMMA ValuesShown ==
  ASSUME SetInv, vals \in [Replicas -> [Elems -> Dot \cup {NoDot}]]
  PROVE  ValueBacked <=> \A r \in Replicas, k \in Elems : ShownWith(k, entries[r][k], vals[r][k])
<1>1. ASSUME ValueBacked, NEW r \in Replicas, NEW k \in Elems
      PROVE  ShownWith(k, entries[r][k], vals[r][k])
  <2>1. vals[r][k] \in Dot \/ vals[r][k] = NoDot
    OBVIOUS
  <2>. QED BY <1>1, <2>1 DEF ValueBacked, ShownWith, Backed, Observed
<1>2. ASSUME \A r \in Replicas, k \in Elems : ShownWith(k, entries[r][k], vals[r][k])
      PROVE  ValueBacked
  BY <1>2 DEF ValueBacked, ShownWith, Backed, Observed
<1>. QED BY <1>1, <1>2

\* What is backed stays backed: the histories only grow.
LEMMA BackedStays ==
  ASSUME NEW k, NEW dots, NEW v, Backed(k, dots, v), adds \subseteq adds', removes \subseteq removes'
  PROVE  Backed(k, dots, v)'
BY DEF Backed, Observed

\* Values stay sound when those that change do so soundly.
LEMMA ValuesStay ==
  ASSUME SetInv, SetInv', ValuesSound, adds \subseteq adds', removes \subseteq removes',
         vals' \in [Replicas -> [Elems -> Dot \cup {NoDot}]],
         \A r \in Replicas, k \in Elems :
            \/ vals'[r][k] = vals[r][k] /\ entries'[r][k] = entries[r][k]
            \/ ShownWith(k, entries[r][k], vals[r][k])'
  PROVE  ValuesSound'
<1>1. ASSUME NEW r \in Replicas, NEW k \in Elems
      PROVE  ShownWith(k, entries[r][k], vals[r][k])'
  <2>1. CASE vals'[r][k] = vals[r][k] /\ entries'[r][k] = entries[r][k]
    <3>1. PICK v, dots : v = vals[r][k] /\ dots = entries[r][k]
      OBVIOUS
    <3>2. ShownWith(k, dots, v)
      BY <3>1, ValuesShown DEF ValuesSound
    <3>3. ShownWith(k, dots, v)'
      BY <3>2, BackedStays DEF ShownWith
    <3>. QED BY <2>1, <3>1, <3>3
  <2>. QED BY <2>1
<1>2. ValueBacked'
  <2>1. \A r \in Replicas, k \in Elems : ShownWith(k, entries[r][k], vals[r][k])'
    BY <1>1
  <2>. QED BY <2>1 DEF ValueBacked, ShownWith, Backed, Observed
<1>. QED BY <1>2 DEF ValuesSound

\* A delta of the map without its value is a delta of the set, with the same
\* effect on the dots.
LEMMA PlainDelta ==
  ASSUME NEW d \in MapDelta
  PROVE  /\ WithoutValue(d) \in Delta
         /\ WithoutValue(d).op = d.op /\ WithoutValue(d).elem = d.elem
         /\ d.op = "add" => /\ d.dots \in VClock /\ d.val \in Dot
                            /\ WithoutValue(d) = AddDelta(d.elem, d.dots)
         /\ d.op # "add" => d.op = "remove" /\ d \in Delta /\ WithoutValue(d) = d
         /\ d.elem \in Elems
         /\ DotsOf(WithoutValue(d)) = DotsOf(d)
<1>1. CASE d.op = "add"
  BY <1>1 DEF MapDelta, WithoutValue, AddDelta, Delta, DotsOf
<1>2. CASE d.op # "add"
  BY <1>2 DEF MapDelta, WithoutValue, Delta, DotsOf
<1>. QED BY <1>1, <1>2

\* orMapState.Apply treats the dots as orSetState.Apply does.
LEMMA PlainApply ==
  ASSUME NEW r \in Replicas, NEW d \in MapDelta
  PROVE  Apply(r, d) <=> Apply(r, WithoutValue(d))
<1>1. CASE d.op = "add"
  <2>1. /\ WithoutValue(d).op = "add" /\ WithoutValue(d).elem = d.elem
        /\ WithoutValue(d).dots = d.dots
    BY <1>1 DEF WithoutValue, AddDelta
  <2>2. AfterAdd(r, d) = AfterAdd(r, WithoutValue(d))
    BY <2>1 DEF AfterAdd
  <2>. QED BY <1>1, <2>1, <2>2 DEF Apply
<1>2. CASE d.op # "add"
  BY <1>2 DEF WithoutValue
<1>. QED BY <1>1, <1>2

\* Deltas in flight stay sound when the new ones are.
LEMMA MapWireStays ==
  ASSUME MapWireSound, adds \subseteq adds', removes \subseteq removes',
         \A m \in wire' : m \in wire \/
             /\ m \in [to : Replicas, via : {"push", "sync"}, delta : MapDelta]
             /\ MapDeltaSound(m.delta)'
  PROVE  MapWireSound'
<1>1. ASSUME NEW m \in wire' PROVE MapDeltaSound(m.delta)'
  <2>1. CASE m \in wire
    <3>1. PICK d, p : d = m.delta /\ p = WithoutValue(d)
      OBVIOUS
    <3>2. /\ DeltaSound(p)
          /\ d.op = "add" => Backed(d.elem, d.dots, d.val)
      BY <2>1, <3>1 DEF MapWireSound, MapDeltaSound
    <3>3. DeltaSound(p)'
      BY <3>2, SoundStays
    <3>4. d.op = "add" => Backed(d.elem, d.dots, d.val)'
      BY <3>2, BackedStays
    <3>. QED BY <3>1, <3>3, <3>4 DEF MapDeltaSound
  <2>. QED BY <2>1
<1>. QED BY <1>1 DEF MapWireSound

\* Pruning dots against the context of a remove leaves a value backed: what
\* goes was observed (ormap.go:258-270, 308-327).
LEMMA BackedPruned ==
  ASSUME SetInv, NEW k \in Elems, NEW dots \in VClock, NEW ctx \in VClock, NEW v,
         Backed(k, dots, v), (\E s \in Replicas : ctx[s] > 0) => CtxRemoved(k, ctx)
  PROVE  Backed(k, Surviving(dots, ctx), v)
<1>. DEFINE a == [elem |-> k, dot |-> v]
<1>1. v.rep \in Replicas /\ v.cnt \in Nat /\ v.cnt > 0
  BY BackedStamped
<1>2. /\ dots[v.rep] \in Nat /\ ctx[v.rep] \in Nat
      /\ dots[v.rep] > ctx[v.rep] => Surviving(dots, ctx)[v.rep] = dots[v.rep]
  BY <1>1, SurvivingDots
<1>3. a \in adds /\ a.elem = k /\ a.dot = v
  BY DEF Backed
<1>. HIDE DEF a
<1>4. CASE v.cnt <= dots[v.rep] /\ dots[v.rep] <= ctx[v.rep]
  <2>1. CtxRemoved(a.elem, ctx)
    BY <1>1, <1>2, <1>3, <1>4
  <2>2. a.dot.cnt \in 1..ctx[a.dot.rep]
    BY <1>1, <1>2, <1>3, <1>4
  <2>3. DataType /\ RemovesSound
    BY DEF SetInv
  <2>4. Observed(a)
    BY <1>3, <2>1, <2>2, <2>3, ContextObserved DEF Observed
  <2>. QED BY <2>4 DEF Backed, a
<1>5. CASE ~(v.cnt <= dots[v.rep] /\ dots[v.rep] <= ctx[v.rep])
  BY <1>1, <1>2, <1>5 DEF Backed
<1>. QED BY <1>4, <1>5

\* Combining dots leaves a value of either side backed.
LEMMA BackedCombined ==
  ASSUME SetInv, NEW k, NEW u \in VClock, NEW w \in VClock, NEW v,
         Backed(k, u, v) \/ Backed(k, w, v)
  PROVE  Backed(k, CombineDots(u, w), v)
<1>1. v.rep \in Replicas /\ v.cnt \in Nat
  BY BackedStamped
<1>2. /\ u[v.rep] \in Nat /\ w[v.rep] \in Nat /\ CombineDots(u, w)[v.rep] \in Nat
      /\ CombineDots(u, w)[v.rep] >= u[v.rep] /\ CombineDots(u, w)[v.rep] >= w[v.rep]
  BY <1>1, CombinedDots DEF VClock
<1>. QED BY <1>1, <1>2 DEF Backed

\* The context of a tombstone is empty or that of a remove.
LEMMA TombContext ==
  ASSUME SetInv, NEW r \in Replicas, NEW e \in Elems
  PROVE  /\ tombs[r][e].ctx \in VClock
         /\ (\E s \in Replicas : tombs[r][e].ctx[s] > 0) => CtxRemoved(e, tombs[r][e].ctx)
<1>1. tombs[r][e] \in [dot : Dot, ctx : VClock] \cup {NoTomb}
  BY DEF SetInv, DataType
<1>2. CASE tombs[r][e] = NoTomb
  BY <1>2 DEF NoTomb, EmptyClock, VClock
<1>3. CASE tombs[r][e] # NoTomb
  BY <1>1, <1>3 DEF SetInv, TombsSound
<1>. QED BY <1>2, <1>3

\* The value of a key after a delta, by what is left of its dots.
ValueAfter(r, d) ==
    IF d.op = "add"
    THEN IF Surviving(CombineDots(entries[r][d.elem], d.dots), tombs[r][d.elem].ctx) # EmptyClock
         THEN Merged(r, d).val ELSE vals[r][d.elem]
    ELSE IF Surviving(entries[r][d.elem], d.ctx) # EmptyClock
         THEN vals[r][d.elem] ELSE NoDot

\* Merging and pruning of the map come to those of the set: an absent entry is
\* one without dots, an absent tombstone one with an empty context.
LEMMA MergedDots ==
  ASSUME SetInv, NEW r \in Replicas, NEW d \in MapDelta, d.op = "add"
  PROVE  PrunedByTomb(r, d.elem, Merged(r, d).dots)
           = Surviving(CombineDots(entries[r][d.elem], d.dots), tombs[r][d.elem].ctx)
<1>1. d.elem \in Elems /\ d.dots \in VClock /\ entries[r][d.elem] \in VClock
  BY PlainDelta DEF SetInv, DataType
<1>2. PICK both : both = CombineDots(entries[r][d.elem], d.dots)
  OBVIOUS
<1>3. both \in VClock
  BY <1>1, <1>2, CombinedDots
<1>4. Merged(r, d).dots = both
  <2>1. CASE entries[r][d.elem] = EmptyClock
    <3>1. CombineDots(EmptyClock, d.dots) = d.dots
      BY <1>1 DEF CombineDots, Larger, EmptyClock, VClock
    <3>. QED BY <1>2, <2>1, <3>1 DEF Merged
  <2>2. CASE entries[r][d.elem] # EmptyClock
    BY <1>2, <2>2 DEF Merged
  <2>. QED BY <2>1, <2>2
<1>5. Surviving(both, EmptyClock) = both
  BY <1>3 DEF Surviving, EmptyClock, VClock
<1>. QED BY <1>2, <1>4, <1>5 DEF PrunedByTomb, NoTomb

\* What the map makes of a delta is, for its dots, what the set makes of it
\* (ormap.go:231-327, orset.go:262-348).
LEMMA MapReceived ==
  ASSUME SetInv, vals \in [Replicas -> [Elems -> Dot \cup {NoDot}]],
         NEW r \in Replicas, NEW m \in wire, m.delta \in MapDelta, ReceiveMapDelta(r, m)
  PROVE  /\ ReceiveDelta(r, m)
         /\ vals' = [vals EXCEPT ![r][m.delta.elem] = ValueAfter(r, m.delta)]
<1>1. PICK d : d = m.delta
  OBVIOUS
<1>2. d \in MapDelta /\ d.elem \in Elems
  BY <1>1, PlainDelta
<1>3. entries \in [Replicas -> [Elems -> VClock]]
  BY DEF SetInv, DataType
<1>4. Apply(r, d) /\ vals' = [vals EXCEPT ![r][d.elem] = ValueAfter(r, d)]
  <2>1. CASE d.op = "add"
    <3>1. PICK left : left = Surviving(CombineDots(entries[r][d.elem], d.dots),
                                       tombs[r][d.elem].ctx)
      OBVIOUS
    <3>2. PrunedByTomb(r, d.elem, Merged(r, d).dots) = left
      BY <1>2, <2>1, <3>1, MergedDots
    <3>3. /\ IF left = EmptyClock
             THEN UNCHANGED <<entries, vals>>
             ELSE /\ entries' = [entries EXCEPT ![r][d.elem] = left]
                  /\ vals' = [vals EXCEPT ![r][d.elem] = Merged(r, d).val]
          /\ UNCHANGED tombs
      BY <1>1, <2>1, <3>2 DEF ReceiveMapDelta, ApplyPut
    <3>4. AfterAdd(r, d) = IF left # EmptyClock THEN left ELSE entries[r][d.elem]
      BY <3>1 DEF AfterAdd
    <3>5. ValueAfter(r, d) = IF left # EmptyClock THEN Merged(r, d).val ELSE vals[r][d.elem]
      BY <2>1, <3>1 DEF ValueAfter
    <3>6. /\ entries = [entries EXCEPT ![r][d.elem] = entries[r][d.elem]]
          /\ vals = [vals EXCEPT ![r][d.elem] = vals[r][d.elem]]
      BY <1>2, <1>3
    <3>. QED BY <2>1, <3>3, <3>4, <3>5, <3>6 DEF Apply
  <2>2. CASE d.op # "add"
    <3>1. ApplyRemove(r, d)
      BY <1>1, <2>2 DEF ReceiveMapDelta
    <3>2. TombAfterRemove(r, d)
            = [dot |-> IF tombs[r][d.elem] = NoTomb \/ DotGT(d.dot, tombs[r][d.elem].dot)
                       THEN d.dot ELSE tombs[r][d.elem].dot,
               ctx |-> d.ctx]
      BY DEF TombAfterRemove
    <3>3. ValueAfter(r, d) = IF Surviving(entries[r][d.elem], d.ctx) = EmptyClock
                             THEN NoDot ELSE vals[r][d.elem]
      BY <2>2 DEF ValueAfter
    <3>. QED BY <2>2, <3>1, <3>2, <3>3 DEF ApplyRemove, Apply
  <2>. QED BY <2>1, <2>2
<1>5. RecordDots(r, DotsOf(d))
  BY <1>1, <1>2, PlainDelta DEF ReceiveMapDelta, DotsOf
<1>. QED BY <1>1, <1>4, <1>5 DEF ReceiveMapDelta, ReceiveDelta

\* What orMapState.Apply makes of a key's dots and value: a value exactly if
\* dots are left, and then a backed one (ormap.go:231-327).
LEMMA AppliedValue ==
  ASSUME SetInv, ValuesSound, NEW r \in Replicas, NEW d \in MapDelta, MapDeltaSound(d),
         Apply(r, d)
  PROVE  ShownWith(d.elem, entries'[r][d.elem], ValueAfter(r, d))
<1>. DEFINE e == d.elem
            old == entries[r][e]
            ctx == tombs[r][e].ctx
            v == vals[r][e]
<1>1. e \in Elems /\ old \in VClock /\ entries \in [Replicas -> [Elems -> VClock]]
  BY PlainDelta DEF SetInv, DataType
<1>2. ctx \in VClock /\ ((\E s \in Replicas : ctx[s] > 0) => CtxRemoved(e, ctx))
  BY <1>1, TombContext
<1>3. ShownWith(e, old, v)
  BY <1>1, ValuesShown DEF ValuesSound
<1>4. CASE d.op = "add"
  <2>. DEFINE both == CombineDots(old, d.dots)
              left == Surviving(both, ctx)
  <2>1. d.dots \in VClock /\ both \in VClock /\ Backed(e, d.dots, d.val)
    BY <1>1, <1>4, PlainDelta, CombinedDots DEF MapDeltaSound
  <2>2. entries'[r][e] = IF left # EmptyClock THEN left ELSE old
    BY <1>1, <1>4 DEF Apply, AfterAdd
  <2>3. ValueAfter(r, d) = IF left # EmptyClock THEN Merged(r, d).val ELSE v
    BY <1>4 DEF ValueAfter
  <2>4. CASE left = EmptyClock
    BY <1>3, <2>2, <2>3, <2>4
  <2>5. CASE left # EmptyClock
    <3>1. Merged(r, d).val = d.val \/ (old # EmptyClock /\ Merged(r, d).val = v)
      BY DEF Merged
    <3>2. Backed(e, d.dots, Merged(r, d).val) \/ Backed(e, old, Merged(r, d).val)
      BY <1>3, <2>1, <3>1 DEF ShownWith
    <3>3. PICK x : x = Merged(r, d).val
      OBVIOUS
    <3>4. Backed(e, both, x)
      BY <1>1, <2>1, <3>2, <3>3, BackedCombined
    <3>. HIDE DEF both
    <3>5. Backed(e, left, x)
      BY <1>1, <1>2, <2>1, <3>4, BackedPruned
    <3>6. x # NoDot
      BY <3>5, BackedStamped
    <3>. QED BY <2>2, <2>3, <2>5, <3>3, <3>5, <3>6 DEF ShownWith
  <2>. QED BY <2>4, <2>5
<1>5. CASE d.op # "add"
  <2>. DEFINE left == Surviving(old, d.ctx)
  <2>1. d.op = "remove" /\ d \in Delta /\ WithoutValue(d) = d
    BY <1>5, PlainDelta
  <2>2. d.ctx \in VClock /\ CtxRemoved(e, d.ctx)
    BY <1>5, <2>1 DEF Delta, MapDeltaSound, DeltaSound
  <2>3. entries'[r][e] = left
    BY <1>1, <1>5 DEF Apply
  <2>4. ValueAfter(r, d) = IF left # EmptyClock THEN v ELSE NoDot
    BY <1>5 DEF ValueAfter
  <2>5. CASE left = EmptyClock
    BY <2>3, <2>4, <2>5 DEF ShownWith
  <2>6. CASE left # EmptyClock
    <3>1. old # EmptyClock
      <4>1. ASSUME old = EmptyClock PROVE FALSE
        <5>1. \A s \in Replicas : left[s] = 0
          BY <1>1, <2>2, <4>1, SurvivingDots DEF EmptyClock
        <5>2. left = EmptyClock
          BY <5>1 DEF Surviving, EmptyClock
        <5>. QED BY <2>6, <5>2
      <4>. QED BY <4>1
    <3>2. Backed(e, old, v) /\ v # NoDot
      BY <1>3, <3>1 DEF ShownWith
    <3>3. Backed(e, left, v)
      BY <1>1, <2>2, <3>2, BackedPruned
    <3>. QED BY <2>3, <2>4, <2>6, <3>2, <3>3 DEF ShownWith
  <2>. QED BY <2>5, <2>6
<1>. QED BY <1>4, <1>5

\* A set whose members are all values of a function on a finite set is finite.
LEMMA FiniteImage ==
  ASSUME NEW S, IsFiniteSet(S), NEW f, NEW T, \A t \in T : \E x \in S : f[x] = t
  PROVE  IsFiniteSet(T)
<1>. DEFINE U == {x \in S : f[x] \in T}
            g == [x \in U |-> f[x]]
<1>1. IsFiniteSet(U)
  BY FS_Subset
<1>2. g \in Surjection(U, T)
  BY DEF Surjection
<1>. QED BY <1>1, <1>2, FS_Surjection

\* The copies of a delta that are sent to the peers are finitely many.
LEMMA PushesFinite == ASSUME NEW r \in Replicas, NEW d PROVE IsFiniteSet(Pushes(r, d))
<1>. DEFINE f == [p \in Peers(r) |-> [to |-> p, via |-> "push", delta |-> d]]
<1>1. IsFiniteSet(Peers(r))
  BY ORMapAssumption, FS_Subset DEF Peers
<1>2. \A t \in Pushes(r, d) : \E p \in Peers(r) : f[p] = t
  BY DEF Pushes
<1>. HIDE DEF f
<1>. QED BY <1>1, <1>2, FiniteImage

\* What DeltasSince sends (ormap.go:331-361) is sound, and finite.
LEMMA MapSentSound ==
  ASSUME SetInv, ValuesSound, NEW r \in Replicas, NEW peerHWM \in VClock,
         NEW sent, sent = MapDeltasSince(r, peerHWM)
  PROVE  /\ \A d \in sent : d \in MapDelta /\ MapDeltaSound(d)
         /\ \A p \in Replicas : IsFiniteSet(Syncs(p, sent))
<1>. DEFINE put == [k \in Elems |-> PutDelta(k, entries[r][k], vals[r][k])]
            rem == [k \in Elems |-> RemoveDelta(k, tombs[r][k].dot, tombs[r][k].ctx)]
<1>1. ASSUME NEW d \in sent
      PROVE  \/ \E k \in Elems : d = put[k] /\ \E s \in Replicas : entries[r][k][s] > peerHWM[s]
             \/ \E k \in Elems : d = rem[k] /\ tombs[r][k] # NoTomb
  BY DEF MapDeltasSince
<1>2. ASSUME NEW k \in Elems, NEW s \in Replicas, entries[r][k][s] > peerHWM[s]
      PROVE  put[k] \in MapDelta /\ MapDeltaSound(put[k])
  <2>1. entries[r][k] \in VClock /\ DotsAdded(k, entries[r][k])
    BY DEF SetInv, DataType, HeldDotsReceived, DotsAdded
  <2>2. entries[r][k] # EmptyClock
    BY <1>2, <2>1 DEF VClock, EmptyClock
  <2>3. Backed(k, entries[r][k], vals[r][k])
    BY <2>2, ValuesShown DEF ValuesSound, ShownWith
  <2>4. vals[r][k] \in Dot
    BY <2>3 DEF Backed
  <2>5. put[k] = [op |-> "add", elem |-> k, dots |-> entries[r][k], val |-> vals[r][k]]
    BY DEF PutDelta
  <2>. HIDE DEF put
  <2>6. put[k] \in MapDelta
    BY <2>1, <2>4, <2>5 DEF MapDelta
  <2>7. WithoutValue(put[k]) = AddDelta(k, entries[r][k])
    BY <2>5 DEF WithoutValue
  <2>8. DeltaSound(WithoutValue(put[k]))
    BY <2>1, <2>7 DEF DeltaSound, AddDelta
  <2>. QED BY <2>3, <2>5, <2>6, <2>8 DEF MapDeltaSound
<1>3. ASSUME NEW k \in Elems, tombs[r][k] # NoTomb
      PROVE  rem[k] \in MapDelta /\ MapDeltaSound(rem[k])
  <2>1. tombs[r][k] \in [dot : Dot, ctx : VClock]
    BY <1>3 DEF SetInv, DataType
  <2>2. DotRemoved(k, tombs[r][k].dot) /\ CtxRemoved(k, tombs[r][k].ctx)
    BY <1>3 DEF SetInv, TombsSound
  <2>3. rem[k] = [op |-> "remove", elem |-> k, dot |-> tombs[r][k].dot, ctx |-> tombs[r][k].ctx]
    BY DEF RemoveDelta
  <2>. HIDE DEF rem
  <2>. QED BY <2>1, <2>2, <2>3 DEF MapDelta, MapDeltaSound, WithoutValue, DeltaSound
<1>. HIDE DEF put, rem
<1>4. \A d \in sent : d \in MapDelta /\ MapDeltaSound(d)
  BY <1>1, <1>2, <1>3
<1>5. IsFiniteSet(sent)
  <2>. DEFINE P == {d \in sent : \E k \in Elems : put[k] = d}
              R == {d \in sent : \E k \in Elems : rem[k] = d}
  <2>1. /\ \A t \in P : \E k \in Elems : put[k] = t
        /\ \A t \in R : \E k \in Elems : rem[k] = t
        /\ sent = P \cup R
    BY <1>1
  <2>. HIDE DEF P, R
  <2>2. IsFiniteSet(P) /\ IsFiniteSet(R)
    BY <2>1, ORMapAssumption, FiniteImage
  <2>3. IsFiniteSet(P \cup R)
    BY <2>2, FS_Union
  <2>. QED BY <2>1, <2>3
<1>6. ASSUME NEW p \in Replicas PROVE IsFiniteSet(Syncs(p, sent))
  <2>. DEFINE f == [d \in sent |-> [to |-> p, via |-> "sync", delta |-> d]]
  <2>1. \A t \in Syncs(p, sent) : \E d \in sent : f[d] = t
    BY DEF Syncs
  <2>. HIDE DEF f
  <2>. QED BY <1>5, <2>1, FiniteImage
<1>. QED BY <1>4, <1>6

\* ORMap.Put keeps MapInv.
LEMMA PutStep == ASSUME MapInv, NEW r \in Replicas, NEW k \in Elems, Put(r, k) PROVE MapInv'
<1>1. PICK v, p : v = NextDot(r) /\ p = PutDelta(k, Singleton(v), v)
  OBVIOUS
<1>2. /\ StampDot(r) /\ AddElem(r, k) /\ TrackKey(r, k, Present(r, k)')
      /\ wire' = wire \cup Pushes(r, p)
      /\ adds' = adds \cup {[elem |-> k, dot |-> v]}
      /\ vals' = [vals EXCEPT ![r][k] = v]
      /\ UNCHANGED <<known, peerHWMs, digests, removes>>
  BY <1>1 DEF Put, Propagate, AddElem
<1>3. SetInv /\ MapWireSound /\ ValuesSound /\ IsFiniteSet(wire)
  BY DEF MapInv
<1>4. SetInv'
  BY <1>1, <1>2, <1>3, AddSet
<1>5. v \in Dot /\ v.rep = r /\ v.cnt \in Nat /\ v.cnt > 0 /\ v # NoDot
  BY <1>1, <1>3 DEF SetInv, CoreInv, CoreType, NextDot, DotOf, Dot, NoDot
<1>6. Singleton(v) \in VClock /\ Singleton(v)[r] = v.cnt
  BY <1>5 DEF Singleton, VClock
<1>7. PICK d : d = WithoutValue(p)
  OBVIOUS
<1>8. /\ p.op = "add" /\ p.elem = k /\ p.dots = Singleton(v) /\ p.val = v
      /\ d = AddDelta(k, Singleton(v)) /\ p \in MapDelta
  BY <1>1, <1>5, <1>6, <1>7 DEF PutDelta, WithoutValue, MapDelta
<1>9. DeltaSound(d)'
  BY <1>1, <1>2, <1>3, <1>8, AddDeltaSound
<1>10. Backed(k, p.dots, v)'
  BY <1>2, <1>5, <1>6, <1>8 DEF Backed
<1>11. MapDeltaSound(p)'
  BY <1>7, <1>8, <1>9, <1>10 DEF MapDeltaSound
<1>12. MapWireSound'
  <2>1. \A m \in wire' : m \in wire \/
          /\ m \in [to : Replicas, via : {"push", "sync"}, delta : MapDelta]
          /\ MapDeltaSound(m.delta)'
    BY <1>2, <1>8, <1>11 DEF Pushes, Peers
  <2>. QED BY <1>2, <1>3, <2>1, MapWireStays
<1>13. ValuesSound'
  <2>1. vals' \in [Replicas -> [Elems -> Dot \cup {NoDot}]] /\ vals'[r][k] = v
        /\ \A q \in Replicas, x \in Elems : (q # r \/ x # k) => vals'[q][x] = vals[q][x]
    BY <1>2, <1>3, <1>5 DEF ValuesSound
  <2>2. /\ entries'[r][k] \in VClock /\ entries'[r][k][r] = v.cnt
        /\ \A q \in Replicas, x \in Elems : (q # r \/ x # k) => entries'[q][x] = entries[q][x]
    BY <1>1, <1>2, <1>3, <1>5 DEF AddElem, SetInv, DataType, VClock
  <2>3. ShownWith(k, entries[r][k], vals[r][k])'
    <3>1. Backed(k, entries[r][k], vals[r][k])'
      BY <1>2, <1>5, <2>1, <2>2 DEF Backed
    <3>2. entries'[r][k] # EmptyClock
      BY <1>5, <2>2 DEF EmptyClock
    <3>. QED BY <1>5, <2>1, <3>1, <3>2 DEF ShownWith
  <2>. QED BY <1>2, <1>3, <1>4, <2>1, <2>2, <2>3, ValuesStay
<1>14. IsFiniteSet(wire')
  BY <1>2, <1>3, PushesFinite, FS_Union
<1>. QED BY <1>4, <1>12, <1>13, <1>14 DEF MapInv

\* ORMap.Remove keeps MapInv.
LEMMA RemoveKeyStep ==
  ASSUME MapInv, NEW r \in Replicas, NEW k \in Elems, RemoveKey(r, k) PROVE MapInv'
<1>1. PICK d : d = RemoveDelta(k, NextDot(r), hwm'[r])
  OBVIOUS
<1>2. /\ StampDot(r) /\ RemoveElem(r, k) /\ TrackKey(r, k, Present(r, k)')
      /\ wire' = wire \cup Pushes(r, d)
      /\ removes' = removes \cup {RemoveOf(r, k)}
      /\ vals' = [vals EXCEPT ![r][k] = NoDot]
      /\ UNCHANGED <<known, peerHWMs, digests, adds>>
  BY <1>1 DEF RemoveKey, RemoveElem, Propagate
<1>3. SetInv /\ MapWireSound /\ ValuesSound /\ IsFiniteSet(wire)
  BY DEF MapInv
<1>4. SetInv'
  BY <1>2, <1>3, RemoveSet
<1>5. d \in Delta /\ DeltaSound(d)'
  BY <1>1, <1>2, <1>3, <1>4, RemoveDeltaSound
<1>6. d.op = "remove" /\ d \in MapDelta /\ WithoutValue(d) = d
  BY <1>1, <1>5 DEF RemoveDelta, Delta, MapDelta, WithoutValue
<1>7. MapDeltaSound(d)'
  BY <1>5, <1>6 DEF MapDeltaSound
<1>8. MapWireSound'
  <2>1. \A m \in wire' : m \in wire \/
          /\ m \in [to : Replicas, via : {"push", "sync"}, delta : MapDelta]
          /\ MapDeltaSound(m.delta)'
    BY <1>2, <1>6, <1>7 DEF Pushes, Peers
  <2>2. adds \subseteq adds' /\ removes \subseteq removes'
    BY <1>2
  <2>. QED BY <1>3, <2>1, <2>2, MapWireStays
<1>9. ValuesSound'
  <2>1. vals' \in [Replicas -> [Elems -> Dot \cup {NoDot}]] /\ vals'[r][k] = NoDot
        /\ \A q \in Replicas, x \in Elems : (q # r \/ x # k) => vals'[q][x] = vals[q][x]
    BY <1>2, <1>3 DEF ValuesSound
  <2>2. /\ entries'[r][k] = EmptyClock
        /\ \A q \in Replicas, x \in Elems : (q # r \/ x # k) => entries'[q][x] = entries[q][x]
    BY <1>2, <1>3 DEF RemoveElem, SetInv, DataType
  <2>3. ShownWith(k, entries[r][k], vals[r][k])'
    BY <2>1, <2>2 DEF ShownWith
  <2>4. adds \subseteq adds' /\ removes \subseteq removes'
    BY <1>2
  <2>. QED BY <1>3, <1>4, <2>1, <2>2, <2>3, <2>4, ValuesStay
<1>10. IsFiniteSet(wire')
  BY <1>2, <1>3, PushesFinite, FS_Union
<1>. QED BY <1>4, <1>8, <1>9, <1>10 DEF MapInv

\* applyDelta with orMapState.Apply keeps MapInv.
LEMMA ReceiveMapDeltaStep ==
  ASSUME MapInv, NEW r \in Replicas, NEW m \in wire, ReceiveMapDelta(r, m) PROVE MapInv'
<1>1. PICK d, p : d = m.delta /\ p = WithoutValue(d)
  OBVIOUS
<1>2. SetInv /\ MapWireSound /\ ValuesSound /\ IsFiniteSet(wire)
  BY DEF MapInv
<1>3. d \in MapDelta /\ MapDeltaSound(d)
  BY <1>1, <1>2 DEF MapWireSound
<1>4. /\ p \in Delta /\ DeltaSound(p) /\ p.elem = d.elem /\ d.elem \in Elems
      /\ DotsOf(p) = DotsOf(d)
  BY <1>1, <1>3, PlainDelta DEF MapDeltaSound
<1>5. /\ Apply(r, d) /\ RecordDots(r, DotsOf(d))
      /\ TrackKey(r, d.elem, Present(r, d.elem)')
      /\ wire' \subseteq wire
      /\ vals' = [vals EXCEPT ![r][d.elem] = ValueAfter(r, d)]
      /\ UNCHANGED <<local, known, peerHWMs, digests, adds, removes>>
  BY <1>1, <1>2, <1>3, MapReceived DEF ReceiveDelta, Remaining, ValuesSound
<1>6. Apply(r, p)
  BY <1>1, <1>3, <1>5, PlainApply
<1>7. SetInv'
  BY <1>2, <1>4, <1>5, <1>6, ReceiveSet
<1>8. MapWireSound'
  BY <1>2, <1>5, MapWireStays
<1>9. PICK v : v = ValueAfter(r, d)
  OBVIOUS
<1>10. ShownWith(d.elem, entries'[r][d.elem], v)
  BY <1>2, <1>3, <1>5, <1>9, AppliedValue
<1>11. v \in Dot \cup {NoDot}
  BY <1>10 DEF ShownWith, Backed
<1>12. ValuesSound'
  <2>1. /\ vals' \in [Replicas -> [Elems -> Dot \cup {NoDot}]] /\ vals'[r][d.elem] = v
        /\ \A q \in Replicas, x \in Elems : (q # r \/ x # d.elem) => vals'[q][x] = vals[q][x]
    BY <1>2, <1>4, <1>5, <1>9, <1>11 DEF ValuesSound
  <2>2. \A q \in Replicas, x \in Elems : (q # r \/ x # d.elem) => entries'[q][x] = entries[q][x]
    BY <1>2, <1>5 DEF Apply, SetInv, DataType
  <2>3. ShownWith(d.elem, entries[r][d.elem], vals[r][d.elem])'
    BY <1>5, <1>10, <2>1 DEF ShownWith, Backed, Observed
  <2>. QED BY <1>2, <1>5, <1>7, <2>1, <2>2, <2>3, ValuesStay
<1>13. IsFiniteSet(wire')
  BY <1>2, <1>5, FS_Subset
<1>. QED BY <1>7, <1>8, <1>12, <1>13 DEF MapInv

\* A step that changes neither dots nor values and sends nothing keeps MapInv.
LEMMA QuietMapStep ==
  ASSUME MapInv, SetInv', wire' \subseteq wire, UNCHANGED <<entries, adds, removes, vals>>
  PROVE  MapInv'
<1>1. SetInv /\ MapWireSound /\ ValuesSound /\ IsFiniteSet(wire)
  BY DEF MapInv
<1>2. MapWireSound'
  BY <1>1, MapWireStays
<1>3. ValuesSound'
  BY <1>1 DEF ValuesSound, ValueBacked
<1>4. IsFiniteSet(wire')
  BY <1>1, FS_Subset
<1>. QED BY <1>2, <1>3, <1>4 DEF MapInv

\* handleSyncDigest keeps MapInv.
LEMMA ReceiveMapDigestStep ==
  ASSUME MapInv, NEW r \in Replicas, NEW m \in digests, ReceiveMapDigest(r, m) PROVE MapInv'
<1>1. PICK sent : sent = MapDeltasSince(r, m.hwm)
  OBVIOUS
<1>2. AnswerDigest(r, m, sent) /\ UNCHANGED <<entries, tombs, adds, removes, vals>>
  BY <1>1 DEF ReceiveMapDigest
<1>3. SetInv /\ MapWireSound /\ ValuesSound /\ IsFiniteSet(wire)
  BY DEF MapInv
<1>4. SetInv' /\ m.from \in Replicas /\ wire' \subseteq wire \cup Syncs(m.from, sent)
  BY <1>2, <1>3, ReceiveDigestSet
<1>5. m.hwm \in VClock
  BY <1>3 DEF SetInv, CoreInv, CoreType
<1>6. /\ \A d \in sent : d \in MapDelta /\ MapDeltaSound(d)
      /\ IsFiniteSet(Syncs(m.from, sent))
  BY <1>1, <1>3, <1>4, <1>5, MapSentSound
<1>7. ASSUME NEW d \in sent PROVE MapDeltaSound(d)'
  <2>1. MapDeltaSound(d)
    BY <1>6
  <2>. QED BY <1>2, <2>1 DEF MapDeltaSound, DeltaSound, DotsAdded, DotRemoved, CtxRemoved,
                             Backed, Observed
<1>8. MapWireSound'
  <2>1. \A x \in wire' : x \in wire \/
          /\ x \in [to : Replicas, via : {"push", "sync"}, delta : MapDelta]
          /\ MapDeltaSound(x.delta)'
    BY <1>4, <1>6, <1>7 DEF Syncs
  <2>. QED BY <1>2, <1>3, <2>1, MapWireStays
<1>9. ValuesSound'
  BY <1>2, <1>3 DEF ValuesSound, ValueBacked
<1>10. IsFiniteSet(wire')
  <2>1. IsFiniteSet(wire \cup Syncs(m.from, sent))
    BY <1>3, <1>6, FS_Union
  <2>. QED BY <1>4, <2>1, FS_Subset
<1>. QED BY <1>4, <1>8, <1>9, <1>10 DEF MapInv

\* Sending digests, the map collects what the set collects (ormap.go:363-379,
\* orset.go:383-399).
LEMMA MapCollects ==
  ASSUME SetInv, NEW r \in Replicas, SendMapDigests(r)
  PROVE  SendDigests(r) /\ UNCHANGED vals
<1>1. tombs \in [Replicas -> [Elems -> [dot : Dot, ctx : VClock] \cup {NoTomb}]]
  BY DEF SetInv, DataType
<1>2. GCTombstones(r)
  <2>1. CASE known[r] = {}
    <3>1. tombs = [tombs EXCEPT ![r] = [e \in Elems |-> tombs[r][e]]]
      BY <1>1
    <3>2. tombs' = tombs
      BY <2>1 DEF SendMapDigests
    <3>. QED BY <2>1, <3>1, <3>2 DEF GCTombstones, Collectable
  <2>2. CASE known[r] # {}
    BY <2>2 DEF SendMapDigests, CollectTombstones, GCTombstones, Collectable
  <2>. QED BY <2>1, <2>2
<1>. QED BY <1>2 DEF SendMapDigests, SendDigests

\* Every step of the map keeps MapInv.
LEMMA MapNextStep == ASSUME MapInv, [MapNext]_mapVars PROVE MapInv'
<1>. USE DEF MapInv
<1>1. CASE UNCHANGED mapVars
  BY <1>1, QuietSet, QuietMapStep DEF mapVars, vars, shell
<1>2. CASE LoseMapMessage
  BY <1>2, QuietSet, QuietMapStep DEF LoseMapMessage, Lose, LoseDelta, LoseDigest
<1>3. ASSUME NEW r \in Replicas, PutFails(r) PROVE MapInv'
  BY <1>3, OpFailsSet, QuietMapStep DEF PutFails, OpFails
<1>4. ASSUME NEW r \in Replicas, SendMapDigests(r) PROVE MapInv'
  <2>1. SendDigests(r) /\ UNCHANGED vals
    BY <1>4, MapCollects
  <2>. QED BY <2>1, SendDigestsSet, QuietMapStep DEF SendDigests
<1>. QED BY <1>1, <1>2, <1>3, <1>4, PutStep, RemoveKeyStep, ReceiveMapDeltaStep,
            ReceiveMapDigestStep DEF MapNext

\* The first state of the map satisfies MapInv.
LEMMA InitMapInv == MapInit => MapInv
<1>. SUFFICES ASSUME MapInit PROVE MapInv
  OBVIOUS
<1>1. SetInv /\ wire = {}
  BY InitSetInv DEF MapInit, Init, ShellInit
<1>2. MapWireSound /\ IsFiniteSet(wire)
  BY <1>1, FS_EmptySet DEF MapWireSound
<1>3. ValuesSound
  BY DEF MapInit, Init, ValuesSound, ValueBacked
<1>. QED BY <1>1, <1>2, <1>3 DEF MapInv

\* Everything the safety of the map rests on, in every reachable state.
THEOREM MapInvariant == MapSpec => []MapInv
<1>1. MapInv /\ [MapNext]_mapVars => MapInv'
  BY MapNextStep
<1>. QED BY InitMapInv, <1>1, PTL DEF MapSpec

\* The values and the deltas of the map keep their types.
THEOREM MapTypeCorrect == MapSpec => []MapTypeOK
<1>1. MapInv => MapTypeOK
  BY DEF MapInv, MapTypeOK, ValuesSound, MapWireSound, SetInv, CoreInv, CoreType, ReceivedType
<1>. QED BY MapInvariant, <1>1, PTL

\* A key shows a value exactly while it has a dot, and the value is that of a
\* put of the key that is covered by the dots held or was observed by a remover
\* (ormap.go:231-327).
THEOREM ValuesBacked == MapSpec => []ValueBacked
<1>1. MapInv => ValueBacked
  BY DEF MapInv, ValuesSound
<1>. QED BY MapInvariant, <1>1, PTL

\* The map keeps the set's promise: the dots held are those of received puts,
\* and a received put is there unless a remover had received it.
THEOREM MapKeysObserved == MapSpec => [](HeldDotsReceived /\ OnlyObservedAddsRemoved)
<1>1. MapInv => HeldDotsReceived /\ OnlyObservedAddsRemoved
  BY DEF MapInv, SetInv
<1>. QED BY MapInvariant, <1>1, PTL
-----------------------------------------------------------------------------
(* The map implements the set, step by step.                               *)

\* What the set sees of a message.
Plain(m) == [m EXCEPT !.delta = WithoutValue(@)]

PlainWire == {Plain(m) : m \in wire}

\* The operators of the set that do not mention its wire are the map's.
LEMMA SameState ==
  ASSUME NEW r \in Replicas, NEW e \in Elems
  PROVE  /\ Dots!NextDot(r) = NextDot(r)
         /\ Dots!EmptyClock = EmptyClock /\ Dots!NoTomb = NoTomb /\ Dots!NoDot = NoDot
         /\ Dots!Present(r, e) <=> Present(r, e)
BY DEF Dots!NextDot, Dots!DotOf, NextDot, DotOf, Dots!EmptyClock, EmptyClock,
       Dots!NoTomb, NoTomb, Dots!NoDot, NoDot, Dots!Present, Present

\* Recording dots is the same.
LEMMA SameRecord ==
  ASSUME NEW r \in Replicas, NEW dots
  PROVE  Dots!RecordDots(r, dots) <=> RecordDots(r, dots)
BY DEF Dots!RecordDots, RecordDots, Dots!RecordHWM, RecordHWM, Dots!RecordPending, RecordPending,
       Dots!AdvanceHWM, AdvanceHWM

\* Stamping a dot is the same.
LEMMA SameStamp ==
  ASSUME NEW r \in Replicas
  PROVE  Dots!StampDot(r) <=> StampDot(r)
BY SameRecord DEF Dots!StampDot, StampDot, Dots!Singleton, Singleton, Dots!NextDot, NextDot,
       Dots!DotOf, DotOf

\* Applying a delta is the same.
LEMMA SameApply ==
  ASSUME NEW r \in Replicas, NEW d
  PROVE  /\ Dots!Apply(r, d) <=> Apply(r, d)
         /\ Dots!DotsOf(d) = DotsOf(d)
<1>1. Dots!AfterAdd(r, d) = AfterAdd(r, d)
  BY DEF Dots!AfterAdd, AfterAdd, Dots!CombineDots, CombineDots, Dots!Larger, Larger,
         Dots!Surviving, Surviving, Dots!EmptyClock, EmptyClock
<1>2. Dots!TombAfterRemove(r, d) = TombAfterRemove(r, d)
  BY DEF Dots!TombAfterRemove, TombAfterRemove, Dots!NoTomb, NoTomb, Dots!NoDot, NoDot,
         Dots!EmptyClock, EmptyClock, Dots!DotGT, DotGT
<1>3. Dots!Apply(r, d) <=> Apply(r, d)
  BY <1>1, <1>2 DEF Dots!Apply, Apply, Dots!Surviving, Surviving
<1>4. Dots!DotsOf(d) = DotsOf(d)
  BY DEF Dots!DotsOf, DotsOf, Dots!Singleton, Singleton
<1>. QED BY <1>3, <1>4

\* Counting is the same.
LEMMA SameCardinality == \A S : Dots!Cardinality(S) = Cardinality(S)
BY DEF Dots!Cardinality, Cardinality, Dots!IsFiniteSet, IsFiniteSet

\* No more messages are in flight for the set than for the map.
LEMMA PlainFewer ==
  ASSUME IsFiniteSet(wire), Cardinality(wire) <= MaxWire
  PROVE  Cardinality(PlainWire) <= MaxWire
<1>. DEFINE f == [m \in wire |-> Plain(m)]
<1>1. f \in Surjection(wire, PlainWire)
  BY DEF Surjection, PlainWire
<1>. HIDE DEF f
<1>2. IsFiniteSet(PlainWire) /\ Cardinality(PlainWire) <= Cardinality(wire)
  BY <1>1, FS_Surjection
<1>3. Cardinality(PlainWire) \in Nat /\ Cardinality(wire) \in Nat
  BY <1>2, FS_CardinalityType
<1>. QED BY <1>2, <1>3, ORMapAssumption

\* A push of the map is a push of the set.
LEMMA PlainPush ==
  ASSUME IsFiniteSet(wire), NEW r \in Replicas, NEW p, NEW d, d = WithoutValue(p),
         Propagate(r, p)
  PROVE  Dots!Propagate(r, d)
<1>1. {Plain(m) : m \in Pushes(r, p)} = Pushes(r, d)
  <2>1. ASSUME NEW m \in Pushes(r, p) PROVE Plain(m) \in Pushes(r, d)
    BY DEF Pushes, Plain
  <2>2. ASSUME NEW x \in Pushes(r, d) PROVE \E m \in Pushes(r, p) : x = Plain(m)
    <3>. DEFINE m == [to |-> x.to, via |-> "push", delta |-> p]
    <3>1. m \in Pushes(r, p) /\ Plain(m) = x
      BY DEF Pushes, Plain
    <3>. QED BY <3>1
  <2>. QED BY <2>1, <2>2
<1>2. PlainWire' = PlainWire \cup Pushes(r, d)
  <2>1. wire' = wire \cup Pushes(r, p)
    BY DEF Propagate
  <2>. QED BY <1>1, <2>1 DEF PlainWire, Plain, WithoutValue, AddDelta
<1>3. Cardinality(PlainWire) <= MaxWire /\ UNCHANGED digests
  BY PlainFewer DEF Propagate
<1>. QED BY <1>2, <1>3, SameCardinality DEF Dots!Propagate, Dots!Pushes, Dots!Peers, Pushes, Peers,
                           PlainWire, Plain

\* Taking one message away takes its image away, unless another message has
\* the same image.
LEMMA PlainRemaining ==
  ASSUME NEW m \in wire, wire' = wire \ {m}
  PROVE  PlainWire' = PlainWire \ {Plain(m)} \/ PlainWire' = PlainWire
<1>1. PlainWire' = {Plain(x) : x \in wire \ {m}}
  BY DEF PlainWire, Plain, WithoutValue, AddDelta
<1>2. CASE \E x \in wire \ {m} : Plain(x) = Plain(m)
  BY <1>1, <1>2 DEF PlainWire
<1>3. CASE ~\E x \in wire \ {m} : Plain(x) = Plain(m)
  BY <1>1, <1>3 DEF PlainWire
<1>. QED BY <1>2, <1>3

\* ORMap.Put is Add of the set.
LEMMA PutIsAdd ==
  ASSUME MapInv, NEW r \in Replicas, NEW k \in Elems, Put(r, k)
  PROVE  Dots!Add(r, k)
<1>1. PICK p, d : /\ p = PutDelta(k, Singleton(NextDot(r)), NextDot(r))
                  /\ d = AddDelta(k, Singleton(NextDot(r)))
  OBVIOUS
<1>2. d = WithoutValue(p)
  BY <1>1 DEF WithoutValue, PutDelta
<1>3. Propagate(r, p)
  BY <1>1 DEF Put
<1>4. Dots!Propagate(r, d)
  BY <1>2, <1>3, PlainPush DEF MapInv
<1>5. Dots!StampDot(r)
  BY SameStamp DEF Put
<1>6. Dots!AddElem(r, k)
  BY SameState DEF Put, Dots!AddElem
<1>7. Dots!TrackKey(r, k, Dots!Present(r, k)')
  BY DEF Put, TrackKey, Dots!TrackKey, Dots!Present, Present, Dots!EmptyClock, EmptyClock,
         Dots!NoTomb, NoTomb, Dots!NoDot, NoDot
<1>8. d = Dots!AddDelta(k, Dots!Singleton(Dots!NextDot(r)))
  BY <1>1, SameState DEF Dots!AddDelta, AddDelta, Dots!Singleton, Singleton
<1>9. /\ local[r] < MaxOps[r]
      /\ adds' = adds \cup {[elem |-> k, dot |-> Dots!NextDot(r)]}
      /\ UNCHANGED <<known, peerHWMs, removes>>
  BY SameState DEF Put
<1>. QED BY <1>4, <1>5, <1>6, <1>7, <1>8, <1>9 DEF Dots!Add, Dots!Propagate, Dots!Pushes

\* ORMap.Remove is Remove of the set.
LEMMA RemoveKeyIsRemove ==
  ASSUME MapInv, NEW r \in Replicas, NEW k \in Elems, RemoveKey(r, k)
  PROVE  Dots!Remove(r, k)
<1>. USE DEF RemoveKey
<1>1. PICK d : d = RemoveDelta(k, NextDot(r), hwm'[r])
  OBVIOUS
<1>2. d = WithoutValue(d)
  BY <1>1 DEF WithoutValue, RemoveDelta
<1>3. Propagate(r, d)
  BY <1>1
<1>4. Dots!Propagate(r, d)
  BY <1>2, <1>3, PlainPush DEF MapInv
<1>5. Dots!StampDot(r)
  BY SameStamp
<1>6. Dots!RemoveElem(r, k)
  BY SameState DEF Dots!RemoveElem
<1>7. Dots!TrackKey(r, k, Dots!Present(r, k)')
  BY DEF TrackKey, Dots!TrackKey, Dots!Present, Present, Dots!EmptyClock, EmptyClock,
         Dots!NoTomb, NoTomb, Dots!NoDot, NoDot
<1>8. d = Dots!RemoveDelta(k, Dots!NextDot(r), hwm'[r])
  BY <1>1, SameState DEF Dots!RemoveDelta, RemoveDelta
<1>9. /\ local[r] < MaxOps[r]
      /\ removes' = removes \cup {Dots!RemoveOf(r, k)}
      /\ UNCHANGED <<known, peerHWMs, adds>>
  BY SameState DEF RemoveOf, Dots!RemoveOf, Dots!Covered, Covered
<1>. QED BY <1>4, <1>5, <1>6, <1>7, <1>8, <1>9 DEF Dots!Remove, Dots!Propagate, Dots!Pushes

\* Receiving a delta of the map is receiving its image, after which the image
\* may still be in flight.
LEMMA ReceiveIsReceive ==
  ASSUME MapInv, NEW r \in Replicas, NEW m \in wire, ReceiveMapDelta(r, m)
  PROVE  Dots!ReceiveDelta(r, Plain(m)) /\ Plain(m) \in PlainWire
<1>1. PICK d, p, x : d = m.delta /\ p = WithoutValue(d) /\ x = Plain(m)
  OBVIOUS
<1>2. m \in [to : Replicas, via : {"push", "sync"}, delta : MapDelta] /\ d \in MapDelta
  BY <1>1 DEF MapInv, MapWireSound
<1>3. x.to = m.to /\ x.delta = p /\ x \in PlainWire
  BY <1>1, <1>2 DEF Plain, PlainWire
<1>4. p.elem = d.elem /\ DotsOf(p) = DotsOf(d) /\ d.elem \in Elems
  BY <1>1, <1>2, PlainDelta
<1>5. /\ m.to = r /\ wire' \in Remaining(wire, m)
      /\ Apply(r, d) /\ RecordDots(r, DotsOf(d))
      /\ TrackKey(r, d.elem, Present(r, d.elem)')
      /\ UNCHANGED <<local, known, peerHWMs, digests, adds, removes>>
  BY <1>1, <1>2, MapReceived DEF ReceiveDelta, MapInv, ValuesSound
<1>6. Dots!Apply(r, p) /\ Dots!RecordDots(r, Dots!DotsOf(p))
  <2>1. Apply(r, p)
    BY <1>1, <1>2, <1>5, PlainApply
  <2>2. PICK c : c = DotsOf(p)
    OBVIOUS
  <2>3. RecordDots(r, c)
    BY <1>4, <1>5, <2>2
  <2>4. Dots!RecordDots(r, c) /\ c = Dots!DotsOf(p)
    BY <2>2, <2>3, SameRecord, SameApply
  <2>. QED BY <2>1, <2>4, SameApply DEF Dots!RecordDots
<1>7. Dots!TrackKey(r, p.elem, Dots!Present(r, p.elem)')
  BY <1>4, <1>5 DEF TrackKey, Dots!TrackKey, Dots!Present, Present, Dots!EmptyClock, EmptyClock,
         Dots!NoTomb, NoTomb, Dots!NoDot, NoDot
<1>8. PlainWire' \in Dots!Remaining(PlainWire, x)
  <2>1. wire' = wire \ {m} \/ wire' = wire
    BY <1>5 DEF Remaining
  <2>2. PlainWire' = PlainWire \ {x} \/ PlainWire' = PlainWire
    BY <1>1, <2>1, PlainRemaining DEF PlainWire, Plain, WithoutValue, AddDelta
  <2>. QED BY <2>2 DEF Dots!Remaining
<1>9. Dots!ReceiveDelta(r, x)
  BY <1>3, <1>5, <1>6, <1>7, <1>8 DEF Dots!ReceiveDelta, PlainWire, Plain
<1>. QED BY <1>1, <1>3, <1>9

\* Sending digests and collecting tombstones is the same.
LEMMA SendIsSend ==
  ASSUME MapInv, NEW r \in Replicas, SendMapDigests(r)
  PROVE  Dots!SendDigests(r)
<1>. SendDigests(r)
  BY MapCollects DEF MapInv
<1>. USE DEF SendDigests
<1>1. Dots!GCTombstones(r)
  BY DEF GCTombstones, Dots!GCTombstones, Collectable, Dots!Collectable, MinHWM, Dots!MinHWM,
         Dots!NoTomb, NoTomb, Dots!NoDot, NoDot, Dots!EmptyClock, EmptyClock
<1>2. Dots!BroadcastDigest(r)
  BY SameCardinality DEF BroadcastDigest, Dots!BroadcastDigest, Digest, Dots!Digest, Peers, Dots!Peers
<1>. QED BY <1>1, <1>2 DEF Dots!SendDigests

\* What the map sends in answer to a digest is, without values, what the set
\* sends.
LEMMA PlainSent ==
  ASSUME NEW r \in Replicas, NEW v
  PROVE  {WithoutValue(d) : d \in MapDeltasSince(r, v)} = Dots!DeltasSince(r, v)
<1>1. ASSUME NEW d \in MapDeltasSince(r, v) PROVE WithoutValue(d) \in Dots!DeltasSince(r, v)
  <2>1. CASE \E k \in Elems : /\ d = PutDelta(k, entries[r][k], vals[r][k])
                              /\ \E s \in Replicas : entries[r][k][s] > v[s]
    <3>1. PICK k \in Elems : /\ d = PutDelta(k, entries[r][k], vals[r][k])
                             /\ \E s \in Replicas : entries[r][k][s] > v[s]
      BY <2>1
    <3>2. WithoutValue(d) = Dots!AddDelta(k, entries[r][k])
      BY <3>1 DEF WithoutValue, PutDelta, AddDelta, Dots!AddDelta
    <3>. QED BY <3>1, <3>2 DEF Dots!DeltasSince
  <2>2. CASE \E k \in Elems : /\ d = RemoveDelta(k, tombs[r][k].dot, tombs[r][k].ctx)
                              /\ tombs[r][k] # NoTomb
                              /\ tombs[r][k].dot.cnt > v[tombs[r][k].dot.rep]
    <3>1. PICK k \in Elems : /\ d = RemoveDelta(k, tombs[r][k].dot, tombs[r][k].ctx)
                             /\ tombs[r][k] # NoTomb
                             /\ tombs[r][k].dot.cnt > v[tombs[r][k].dot.rep]
      BY <2>2
    <3>2. WithoutValue(d) = Dots!RemoveDelta(k, tombs[r][k].dot, tombs[r][k].ctx)
      BY <3>1 DEF WithoutValue, RemoveDelta, Dots!RemoveDelta
    <3>. QED BY <3>1, <3>2, SameState DEF Dots!DeltasSince
  <2>. QED BY <2>1, <2>2 DEF MapDeltasSince
<1>2. ASSUME NEW p \in Dots!DeltasSince(r, v)
      PROVE  \E d \in MapDeltasSince(r, v) : p = WithoutValue(d)
  <2>1. CASE \E k \in Elems : /\ p = Dots!AddDelta(k, entries[r][k])
                              /\ \E s \in Replicas : entries[r][k][s] > v[s]
    <3>1. PICK k \in Elems : /\ p = Dots!AddDelta(k, entries[r][k])
                             /\ \E s \in Replicas : entries[r][k][s] > v[s]
      BY <2>1
    <3>2. PutDelta(k, entries[r][k], vals[r][k]) \in MapDeltasSince(r, v)
      BY <3>1 DEF MapDeltasSince
    <3>3. p = WithoutValue(PutDelta(k, entries[r][k], vals[r][k]))
      BY <3>1 DEF WithoutValue, PutDelta, AddDelta, Dots!AddDelta
    <3>. QED BY <3>2, <3>3
  <2>2. CASE \E k \in Elems : /\ p = Dots!RemoveDelta(k, tombs[r][k].dot, tombs[r][k].ctx)
                              /\ tombs[r][k] # Dots!NoTomb
                              /\ tombs[r][k].dot.cnt > v[tombs[r][k].dot.rep]
    <3>1. PICK k \in Elems : /\ p = Dots!RemoveDelta(k, tombs[r][k].dot, tombs[r][k].ctx)
                             /\ tombs[r][k] # Dots!NoTomb
                             /\ tombs[r][k].dot.cnt > v[tombs[r][k].dot.rep]
      BY <2>2
    <3>2. p \in MapDeltasSince(r, v)
      BY <3>1, SameState DEF MapDeltasSince, RemoveDelta, Dots!RemoveDelta
    <3>3. p = WithoutValue(p)
      BY <3>1 DEF WithoutValue, Dots!RemoveDelta
    <3>. QED BY <3>2, <3>3
  <2>. QED BY <2>1, <2>2 DEF Dots!DeltasSince
<1>. QED BY <1>1, <1>2

\* Answering a digest is the same.
LEMMA AnswerIsAnswer ==
  ASSUME MapInv, NEW r \in Replicas, NEW m \in digests, ReceiveMapDigest(r, m)
  PROVE  Dots!ReceiveDigest(r, m)
<1>1. PICK sent, plain : sent = MapDeltasSince(r, m.hwm) /\ plain = Dots!DeltasSince(r, m.hwm)
  OBVIOUS
<1>2. plain = {WithoutValue(d) : d \in sent}
  BY <1>1, PlainSent
<1>3. AnswerDigest(r, m, sent) /\ UNCHANGED <<entries, tombs, adds, removes>>
  BY <1>1 DEF ReceiveMapDigest
<1>4. {Plain(x) : x \in Syncs(m.from, sent)} = Syncs(m.from, plain)
  <2>1. ASSUME NEW x \in Syncs(m.from, sent) PROVE Plain(x) \in Syncs(m.from, plain)
    BY <1>2 DEF Syncs, Plain
  <2>2. ASSUME NEW y \in Syncs(m.from, plain) PROVE \E x \in Syncs(m.from, sent) : y = Plain(x)
    <3>1. PICK d \in sent : y.delta = WithoutValue(d)
      BY <1>2 DEF Syncs
    <3>. DEFINE x == [to |-> m.from, via |-> "sync", delta |-> d]
    <3>2. x \in Syncs(m.from, sent) /\ Plain(x) = y
      BY <3>1 DEF Syncs, Plain
    <3>. QED BY <3>2
  <2>. QED BY <2>1, <2>2
<1>5. PlainWire' = IF SameHash(r, m) THEN PlainWire ELSE PlainWire \cup Syncs(m.from, plain)
  <2>1. wire' = IF SameHash(r, m) THEN wire ELSE wire \cup Syncs(m.from, sent)
    BY <1>3 DEF AnswerDigest
  <2>2. PlainWire' = {Plain(x) : x \in wire'}
    BY DEF PlainWire, Plain, WithoutValue, AddDelta
  <2>. QED BY <1>4, <2>1, <2>2 DEF PlainWire
<1>6. Cardinality(PlainWire) <= MaxWire
  BY <1>3, PlainFewer DEF AnswerDigest, MapInv
<1>7. digests' \in Dots!Remaining(digests, m)
  BY <1>3 DEF AnswerDigest, Remaining, Dots!Remaining
<1>8. Dots!SameHash(r, m) <=> SameHash(r, m)
  BY DEF Dots!SameHash, SameHash
<1>9. Dots!AnswerDigest(r, m, plain)
  BY <1>3, <1>5, <1>6, <1>7, <1>8, SameCardinality
     DEF AnswerDigest, Dots!AnswerDigest, Dots!Syncs, Syncs, PlainWire, Plain
<1>. QED BY <1>1, <1>3, <1>9 DEF Dots!ReceiveDigest, Dots!AnswerDigest, Dots!Syncs

\* A message that the transport loses is lost for the set, or not noticed.
LEMMA LoseIsLose ==
  ASSUME LoseMapMessage
  PROVE  Dots!Lose \/ UNCHANGED Dots!vars
<1>1. CASE LoseDelta
  <2>1. PICK m \in wire : wire' = wire \ {m}
    BY <1>1 DEF LoseDelta
  <2>2. PlainWire' = PlainWire \ {Plain(m)} \/ PlainWire' = PlainWire
    BY <2>1, PlainRemaining
  <2>3. Plain(m) \in PlainWire
    BY DEF PlainWire
  <2>4. /\ "lose" \in Faults
        /\ UNCHANGED <<local, hwm, pending, tracked, known, peerHWMs, digests>>
        /\ UNCHANGED <<entries, tombs, adds, removes>>
    BY <1>1 DEF LoseDelta, LoseMapMessage, Lose
  <2>5. PICK x : x = Plain(m)
    OBVIOUS
  <2>6. CASE PlainWire' = PlainWire \ {x}
    BY <2>3, <2>4, <2>5, <2>6 DEF Dots!Lose, Dots!LoseDelta, PlainWire, Plain
  <2>7. CASE PlainWire' = PlainWire
    BY <2>4, <2>7 DEF Dots!vars, Dots!shell, PlainWire, Plain
  <2>. QED BY <2>2, <2>5, <2>6, <2>7
<1>2. CASE LoseDigest
  <2>1. PlainWire' = PlainWire
    BY <1>2 DEF LoseDigest, PlainWire, Plain, WithoutValue, AddDelta
  <2>. QED BY <1>2, <2>1 DEF LoseDigest, Dots!LoseDigest, Dots!Lose, LoseMapMessage, Lose,
                             PlainWire, Plain
<1>. QED BY <1>1, <1>2 DEF LoseMapMessage, Lose

\* Every step of the map is a step of the set, or one the set does not notice.
LEMMA MapStepIsSetStep ==
  ASSUME MapInv, [MapNext]_mapVars
  PROVE  [Dots!Next]_(Dots!vars)
<1>1. CASE UNCHANGED mapVars
  <2>1. wire' = wire
    BY <1>1 DEF mapVars, vars, shell
  <2>2. PlainWire' = PlainWire
    BY <2>1 DEF PlainWire, Plain, WithoutValue, AddDelta
  <2>. QED BY <1>1, <2>2 DEF mapVars, vars, shell, Dots!vars, Dots!shell, PlainWire, Plain
<1>2. ASSUME NEW r \in Replicas, PutFails(r) PROVE Dots!OpFails(r)
  <2>1. PlainWire' = PlainWire
    BY <1>2 DEF PutFails, OpFails, PlainWire, Plain, WithoutValue, AddDelta
  <2>2. Dots!StampDot(r)
    BY <1>2, SameStamp DEF PutFails, OpFails
  <2>. QED BY <1>2, <2>1, <2>2 DEF PutFails, OpFails, Dots!OpFails, PlainWire, Plain
<1>3. ASSUME NEW r \in Replicas, NEW m \in wire, ReceiveMapDelta(r, m) PROVE Dots!Next
  <2>1. PICK x : x = Plain(m)
    OBVIOUS
  <2>2. Dots!ReceiveDelta(r, x) /\ x \in PlainWire
    BY <1>3, <2>1, ReceiveIsReceive DEF Dots!ReceiveDelta
  <2>. QED BY <2>2 DEF Dots!Next, PlainWire, Plain
<1>4. ASSUME NEW r \in Replicas, NEW k \in Elems, Put(r, k) PROVE Dots!Next
  BY <1>4, PutIsAdd DEF Dots!Next
<1>5. ASSUME NEW r \in Replicas, NEW k \in Elems, RemoveKey(r, k) PROVE Dots!Next
  BY <1>5, RemoveKeyIsRemove DEF Dots!Next
<1>6. ASSUME NEW r \in Replicas, SendMapDigests(r) PROVE Dots!Next
  BY <1>6, SendIsSend DEF Dots!Next
<1>7. ASSUME NEW r \in Replicas, NEW m \in digests, ReceiveMapDigest(r, m) PROVE Dots!Next
  BY <1>7, AnswerIsAnswer DEF Dots!Next
<1>8. CASE LoseMapMessage
  BY <1>8, LoseIsLose DEF Dots!Next
<1>9. ASSUME NEW r \in Replicas, PutFails(r) PROVE Dots!Next
  BY <1>2, <1>9 DEF Dots!Next
<1>. QED BY <1>1, <1>3, <1>4, <1>5, <1>6, <1>7, <1>8, <1>9 DEF MapNext

\* ormap.go treats its dots as orset.go does: without its values the map is a
\* set, for every cluster, set of keys, bound and transport.
THEOREM Refinement == MapSpec => ImplementsORSet
<1>1. MapInit => Dots!Init
  BY DEF MapInit, Init, ShellInit, Dots!Init, Dots!ShellInit, Dots!EmptyClock, EmptyClock,
         Dots!NoTomb, NoTomb, Dots!NoDot, NoDot
<1>2. MapInv /\ [MapNext]_mapVars => [Dots!Next]_(Dots!vars)
  BY MapStepIsSetStep
<1>. QED BY MapInvariant, <1>1, <1>2, PTL DEF MapSpec, ImplementsORSet, Dots!Spec
=============================================================================
