--------------------------- MODULE GCounterProofs ---------------------------
(***************************************************************************)
(* Safety of GCounter for every set of replicas, every amount, every       *)
(* transport fault and every bound, as long as no count wraps around.      *)
(*                                                                         *)
(* None of the properties is inductive alone.  The marks of a digest are   *)
(* sound only because marks never go down; a mark is backed by a count     *)
(* only because a refused delta is never larger than the count at hand;    *)
(* and the pending counters must be bounded, by that same count, for       *)
(* advanceHWM to end.  IInv puts these together.                           *)
(***************************************************************************)
EXTENDS GCounter, ReplicaProofs

\* No replica is asked to add so much that its count wraps around.
NoWrap == \A r \in Replicas : MaxTotal[r] < Modulus

\* Every stored count is tracked in the MerkleMap.
CountsTracked ==
    \A r, s \in Replicas : counts[r][s] > 0 => s \in tracked[r]

AskedWithinBound == \A r \in Replicas : asked[r] <= MaxTotal[r]

ReceivedBacked == \A r \in Replicas : ReceivedWithin(r, counts[r])

DeltasSound == \A m \in wire : m.delta.count <= asked[m.delta.rep]

CountsSound ==
    \A r, s \in Replicas : counts[s][s] = asked[s] /\ counts[r][s] <= asked[s]

IInv == /\ TypeOK
        /\ AskedWithinBound
        /\ CountsSound
        /\ DeltasSound
        /\ ReceivedBacked
        /\ CountsTracked
        /\ ReportedMarksSound

\* An unsigned sum that stays below the modulus does not wrap.
LEMMA ModSmall ==
  ASSUME NEW k \in Nat \ {0}, NEW n \in 0 .. k - 1
  PROVE  n % k = n
OBVIOUS

\* The first state, in which nothing was counted or received, satisfies IInv.
LEMMA InitIInv == Init => IInv
<1>. SUFFICES ASSUME Init PROVE IInv
  OBVIOUS
<1>. USE DEF Init, ShellInit, EmptyClock, VClock
<1>1. TypeOK
  BY DEF TypeOK
<1>2. AskedWithinBound /\ CountsSound /\ DeltasSound /\ CountsTracked
  BY GCounterAssumption DEF AskedWithinBound, CountsSound, DeltasSound, CountsTracked
<1>3. ReceivedBacked
  BY DEF ReceivedBacked, ReceivedWithin
<1>4. ReportedMarksSound
  BY DEF ReportedMarksSound
<1>. QED BY <1>1, <1>2, <1>3, <1>4 DEF IInv

\* GCounter.Increment keeps IInv: the count, the local clock, the recorded
\* counter and the pushed delta move together.
LEMMA IncrementStep ==
  ASSUME NoWrap, IInv, NEW r \in Replicas, NEW a \in Amounts, Increment(r, a)
  PROVE  IInv'
<1>. DEFINE new == (counts[r][r] + a) % Modulus
            dots == Singleton(DotOf(r, new))
            bound == [counts[r] EXCEPT ![r] = new]
<1>1. /\ a \in Nat /\ counts[r][r] \in Nat /\ counts[r][r] = asked[r]
      /\ asked[r] + a <= MaxTotal[r] /\ MaxTotal[r] \in Nat /\ Modulus \in Nat
    BY GCounterAssumption DEF IInv, TypeOK, CountsSound, Increment, VClock
<1>2. new = counts[r][r] + a /\ new \in Nat
  <2>1. counts[r][r] + a \in 0 .. Modulus - 1 /\ Modulus \in Nat \ {0}
    BY <1>1, GCounterAssumption DEF NoWrap
  <2>2. new = counts[r][r] + a
    BY <2>1, ModSmall
  <2>. QED BY <2>1, <2>2
<1>3. /\ asked' = [asked EXCEPT ![r] = @ + a]
      /\ counts' = [counts EXCEPT ![r][r] = new]
      /\ local' = [local EXCEPT ![r] = new]
      /\ RecordDots(r, dots)
      /\ tracked' = [tracked EXCEPT ![r] = @ \cup {r}]
      /\ wire' = wire \cup Pushes(r, [rep |-> r, count |-> new])
      /\ known' = known /\ peerHWMs' = peerHWMs /\ digests' = digests
  BY DEF Increment, NewCount, TrackKey, Propagate
<1>. HIDE DEF new
<1>4. /\ dots \in VClock /\ bound \in VClock
      /\ \A s \in Replicas : dots[s] <= bound[s] /\ counts[r][s] <= bound[s]
  BY <1>1, <1>2 DEF Singleton, DotOf, VClock, IInv, TypeOK
<1>5. ReceivedType /\ ReceivedWithin(r, bound)
  <2>1. ReceivedType
    BY DEF IInv, TypeOK, ReceivedType
  <2>2. \A s \in Replicas : counts[r][s] \in Nat /\ bound[s] \in Nat /\ hwm[r][s] \in Nat
    BY <1>4 DEF IInv, TypeOK, VClock
  <2>. QED BY <1>4, <2>1, <2>2 DEF IInv, ReceivedBacked, ReceivedWithin
<1>. HIDE DEF dots, bound
<1>6. /\ ReceivedType'
      /\ \A s \in Replicas : /\ hwm'[r][s] >= hwm[r][s] /\ hwm'[r][s] <= bound[s]
                             /\ pending'[r][s] \subseteq 1..bound[s]
                             /\ hwm'[r][s] + 1 \notin pending'[r][s]
      /\ \A q \in Replicas \ {r} : hwm'[q] = hwm[q] /\ pending'[q] = pending[q]
  BY <1>3, <1>4, <1>5, RecordDotsResult
<1>7. TypeOK'
  <2>1. Pushes(r, [rep |-> r, count |-> new])
          \subseteq [to : Replicas, via : {"push", "sync"}, delta : Delta]
    BY <1>2 DEF Pushes, Peers, Delta
  <2>. QED BY <1>1, <1>2, <1>3, <1>6, <2>1 DEF IInv, TypeOK, ReceivedType, VClock
<1>8. AskedWithinBound'
  BY <1>1, <1>3 DEF IInv, TypeOK, AskedWithinBound
<1>9. CountsSound'
  BY <1>1, <1>2, <1>3 DEF IInv, TypeOK, CountsSound, VClock
<1>10. DeltasSound'
  <2>1. ASSUME NEW m \in wire' PROVE m.delta.count <= asked'[m.delta.rep]
    <3>1. CASE m \in wire
      BY <1>1, <1>3, <3>1 DEF IInv, TypeOK, DeltasSound, Delta
    <3>2. CASE m \in Pushes(r, [rep |-> r, count |-> new])
      BY <1>1, <1>2, <1>3, <3>2 DEF IInv, TypeOK, Pushes
    <3>. QED BY <1>3, <2>1, <3>1, <3>2
  <2>. QED BY <2>1 DEF DeltasSound
<1>11. ReceivedBacked'
  <2>1. counts'[r] = bound
    BY <1>3 DEF bound, IInv, TypeOK
  <2>2. \A q \in Replicas \ {r} : counts'[q] = counts[q]
    BY <1>3 DEF IInv, TypeOK
  <2>. QED BY <1>6, <2>1, <2>2 DEF IInv, ReceivedBacked, ReceivedWithin
<1>12. CountsTracked'
  BY <1>3 DEF IInv, TypeOK, CountsTracked, VClock
<1>13. ReportedMarksSound'
  <2>1. ASSUME NEW q \in Replicas, NEW s \in Replicas
        PROVE  hwm'[q][s] >= hwm[q][s]
    <3>1. hwm[q][s] \in Nat
      BY DEF IInv, TypeOK, VClock
    <3>2. CASE q = r
      BY <1>6, <3>2
    <3>3. CASE q # r
      BY <1>6, <3>1, <3>3
    <3>. QED BY <3>2, <3>3
  <2>. QED BY <1>3, <1>7, <2>1, MarksGrow DEF IInv, TypeOK, ReceivedType
<1>. QED BY <1>7, <1>8, <1>9, <1>10, <1>11, <1>12, <1>13 DEF IInv

\* applyDelta keeps IInv, also when the delta is old, repeated or refused.
LEMMA ReceiveDeltaStep ==
  ASSUME IInv, NEW r \in Replicas, NEW m \in wire, ReceiveDelta(r, m)
  PROVE  IInv'
<1>. DEFINE d == m.delta
            new == Applied(r, d)
            dots == Singleton(DotOf(d.rep, d.count))
            bound == [counts[r] EXCEPT ![d.rep] = new]
<1>1. /\ d.rep \in Replicas /\ d.count \in Nat
      /\ counts[r][d.rep] \in Nat /\ asked[d.rep] \in Nat
      /\ d.count <= asked[d.rep] /\ counts[r][d.rep] <= asked[d.rep]
    BY DEF IInv, TypeOK, DeltasSound, CountsSound, Delta, VClock
<1>2. /\ new \in Nat /\ new >= d.count /\ new >= counts[r][d.rep]
      /\ new <= asked[d.rep]
  BY <1>1 DEF Applied, Allows, IInv, CountsTracked
<1>3. /\ counts' = [counts EXCEPT ![r][d.rep] = new]
      /\ RecordDots(r, dots)
      /\ tracked' = [tracked EXCEPT ![r] = @ \cup {d.rep}]
      /\ wire' \subseteq wire
      /\ local' = local /\ asked' = asked
      /\ known' = known /\ peerHWMs' = peerHWMs /\ digests' = digests
  BY DEF ReceiveDelta, TrackKey, Remaining
<1>. HIDE DEF new, d
<1>4. /\ dots \in VClock /\ bound \in VClock
      /\ \A s \in Replicas : dots[s] <= bound[s] /\ counts[r][s] <= bound[s]
  BY <1>1, <1>2 DEF Singleton, DotOf, VClock, IInv, TypeOK
<1>5. ReceivedType /\ ReceivedWithin(r, bound)
  <2>1. ReceivedType
    BY DEF IInv, TypeOK, ReceivedType
  <2>2. \A s \in Replicas : counts[r][s] \in Nat /\ bound[s] \in Nat /\ hwm[r][s] \in Nat
    BY <1>4 DEF IInv, TypeOK, VClock
  <2>. QED BY <1>4, <2>1, <2>2 DEF IInv, ReceivedBacked, ReceivedWithin
<1>. HIDE DEF dots, bound
<1>6. /\ ReceivedType'
      /\ \A s \in Replicas : /\ hwm'[r][s] >= hwm[r][s] /\ hwm'[r][s] <= bound[s]
                             /\ pending'[r][s] \subseteq 1..bound[s]
                             /\ hwm'[r][s] + 1 \notin pending'[r][s]
      /\ \A q \in Replicas \ {r} : hwm'[q] = hwm[q] /\ pending'[q] = pending[q]
  BY <1>3, <1>4, <1>5, RecordDotsResult
<1>7. TypeOK'
  BY <1>1, <1>2, <1>3, <1>6 DEF IInv, TypeOK, ReceivedType, VClock
<1>8. AskedWithinBound' /\ DeltasSound'
  BY <1>3 DEF IInv, AskedWithinBound, DeltasSound
<1>9. CountsSound'
  <2>1. ASSUME r = d.rep PROVE new = counts[r][r]
    <3>1. counts[r][r] = asked[r]
      BY DEF IInv, CountsSound
    <3>. QED BY <1>1, <1>2, <2>1, <3>1
  <2>. QED BY <1>1, <1>2, <1>3, <2>1 DEF IInv, TypeOK, CountsSound, VClock
<1>10. ReceivedBacked'
  <2>1. counts'[r] = bound
    BY <1>3 DEF bound, IInv, TypeOK
  <2>2. \A q \in Replicas \ {r} : counts'[q] = counts[q]
    BY <1>3 DEF IInv, TypeOK
  <2>. QED BY <1>6, <2>1, <2>2 DEF IInv, ReceivedBacked, ReceivedWithin
<1>11. CountsTracked'
  BY <1>1, <1>3 DEF IInv, TypeOK, CountsTracked, VClock
<1>12. ReportedMarksSound'
  <2>1. ASSUME NEW q \in Replicas, NEW s \in Replicas
        PROVE  hwm'[q][s] >= hwm[q][s]
    <3>1. hwm[q][s] \in Nat
      BY DEF IInv, TypeOK, VClock
    <3>2. CASE q = r
      BY <1>6, <3>2
    <3>3. CASE q # r
      BY <1>6, <3>1, <3>3
    <3>. QED BY <3>2, <3>3
  <2>. QED BY <1>3, <1>7, <2>1, MarksGrow DEF IInv, TypeOK, ReceivedType
<1>. QED BY <1>7, <1>8, <1>9, <1>10, <1>11, <1>12 DEF IInv

\* sendDigests keeps IInv: it reports the marks of the moment.
LEMMA SendDigestsStep ==
  ASSUME IInv, NEW r \in Replicas, SendDigests(r)
  PROVE  IInv'
<1>1. /\ digests' = digests \cup {Digest(r, p) : p \in Peers(r)}
      /\ UNCHANGED <<local, hwm, pending, tracked, known, peerHWMs, wire, counts, asked>>
  BY DEF SendDigests, BroadcastDigest
<1>2. ASSUME NEW p \in Peers(r)
      PROVE  /\ Digest(r, p) \in [to : Replicas, from : Replicas, hwm : VClock, empty : BOOLEAN]
             /\ LTE(Digest(r, p).hwm, hwm[Digest(r, p).from])
  <2>1. hwm[r] \in VClock /\ p \in Replicas /\ (tracked[r] = {}) \in BOOLEAN
    BY DEF IInv, TypeOK, Peers
  <2>2. LTE(hwm[r], hwm[r])
    BY <2>1 DEF LTE, VClock
  <2>. QED BY <2>1, <2>2 DEF Digest
<1>3. TypeOK'
  BY <1>1, <1>2 DEF IInv, TypeOK
<1>4. ReportedMarksSound'
  <2>1. ASSUME NEW m \in digests' PROVE LTE(m.hwm, hwm[m.from])
    BY <1>1, <1>2, <2>1 DEF IInv, ReportedMarksSound
  <2>2. \A q \in Replicas : \A p \in known[q] : LTE(peerHWMs[q][p], hwm[p])
    BY DEF IInv, ReportedMarksSound
  <2>. QED BY <1>1, <2>1, <2>2 DEF ReportedMarksSound, LTE
<1>5. /\ AskedWithinBound' /\ CountsSound' /\ DeltasSound' /\ ReceivedBacked'
      /\ CountsTracked'
  BY <1>1 DEF IInv, AskedWithinBound, CountsSound, DeltasSound, ReceivedBacked,
              ReceivedWithin, CountsTracked
<1>. QED BY <1>3, <1>4, <1>5 DEF IInv

\* handleSyncDigest keeps IInv: a stale mark may replace a newer one.
LEMMA ReceiveDigestStep ==
  ASSUME IInv, NEW r \in Replicas, NEW m \in digests, ReceiveDigest(r, m)
  PROVE  IInv'
<1>. DEFINE sent == Syncs(m.from, DeltasSince(r, m.hwm))
<1>1. /\ digests' \subseteq digests
      /\ known' = [known EXCEPT ![r] = @ \cup {m.from}]
      /\ peerHWMs' = [peerHWMs EXCEPT ![r][m.from] = m.hwm]
      /\ wire' \subseteq wire \cup sent
      /\ UNCHANGED <<local, hwm, pending, tracked, counts, asked>>
  BY DEF ReceiveDigest, AnswerDigest, Remaining
<1>2. m.from \in Replicas /\ m.hwm \in VClock /\ LTE(m.hwm, hwm[m.from])
  BY DEF IInv, TypeOK, ReportedMarksSound
<1>3. ASSUME NEW x \in sent
      PROVE  /\ x \in [to : Replicas, via : {"push", "sync"}, delta : Delta]
             /\ x.delta.count <= asked[x.delta.rep]
  <2>1. PICK s \in Replicas : x.delta = [rep |-> s, count |-> counts[r][s]]
    BY DEF Syncs, DeltasSince
  <2>2. counts[r][s] \in Nat /\ counts[r][s] <= asked[s]
    BY DEF IInv, TypeOK, CountsSound, VClock
  <2>3. x = [to |-> m.from, via |-> "sync", delta |-> x.delta]
    BY DEF Syncs
  <2>. QED BY <1>2, <2>1, <2>2, <2>3 DEF Delta
<1>. HIDE DEF sent
<1>4. TypeOK'
  BY <1>1, <1>2, <1>3 DEF IInv, TypeOK
<1>5. DeltasSound'
  BY <1>1, <1>3 DEF IInv, DeltasSound
<1>6. ReportedMarksSound'
  <2>1. ASSUME NEW q \in Replicas, NEW p \in known'[q]
        PROVE  LTE(peerHWMs'[q][p], hwm[p])
    <3>1. CASE q = r /\ p = m.from
      BY <1>1, <1>2, <3>1 DEF IInv, TypeOK
    <3>2. CASE ~(q = r /\ p = m.from)
      <4>1. p \in known[q] /\ p \in Replicas
        BY <1>1, <2>1, <3>2 DEF IInv, TypeOK
      <4>2. peerHWMs'[q][p] = peerHWMs[q][p]
        BY <1>1, <1>2, <3>2, <4>1 DEF IInv, TypeOK
      <4>. QED BY <4>1, <4>2 DEF IInv, ReportedMarksSound
    <3>. QED BY <3>1, <3>2
  <2>2. \A x \in digests' : LTE(x.hwm, hwm[x.from])
    BY <1>1 DEF IInv, ReportedMarksSound
  <2>. QED BY <1>1, <2>1, <2>2 DEF ReportedMarksSound, LTE
<1>7. AskedWithinBound' /\ CountsSound' /\ ReceivedBacked' /\ CountsTracked'
  BY <1>1 DEF IInv, AskedWithinBound, CountsSound, ReceivedBacked,
              ReceivedWithin, CountsTracked
<1>. QED BY <1>4, <1>5, <1>6, <1>7 DEF IInv

\* Losing a message keeps IInv.
LEMMA LoseStep == ASSUME IInv, Lose PROVE IInv'
<1>1. /\ wire' \subseteq wire /\ digests' \subseteq digests
      /\ UNCHANGED <<local, hwm, pending, tracked, known, peerHWMs, counts, asked>>
  BY DEF Lose, LoseDelta, LoseDigest
<1>2. TypeOK'
  BY <1>1 DEF IInv, TypeOK
<1>3. ReportedMarksSound'
  BY <1>1 DEF IInv, ReportedMarksSound, LTE
<1>4. /\ AskedWithinBound' /\ CountsSound' /\ DeltasSound' /\ ReceivedBacked'
      /\ CountsTracked'
  BY <1>1 DEF IInv, AskedWithinBound, CountsSound, DeltasSound, ReceivedBacked,
              ReceivedWithin, CountsTracked
<1>. QED BY <1>2, <1>3, <1>4 DEF IInv

\* Every step of the counter keeps IInv.
LEMMA NextStep == ASSUME NoWrap, IInv, [Next]_vars PROVE IInv'
<1>1. CASE UNCHANGED vars
  <2>. USE <1>1 DEF vars, shell
  <2>1. TypeOK'
    BY DEF IInv, TypeOK
  <2>2. ReportedMarksSound'
    BY DEF IInv, ReportedMarksSound, LTE
  <2>3. /\ AskedWithinBound' /\ CountsSound' /\ DeltasSound' /\ ReceivedBacked'
        /\ CountsTracked'
    BY DEF IInv, AskedWithinBound, CountsSound, DeltasSound, ReceivedBacked,
           ReceivedWithin, CountsTracked
  <2>. QED BY <2>1, <2>2, <2>3 DEF IInv
<1>. QED BY <1>1, IncrementStep, ReceiveDeltaStep, SendDigestsStep,
            ReceiveDigestStep, LoseStep DEF Next

\* Everything the safety of the counter rests on, in every reachable state.
THEOREM InductiveInvariant == ASSUME NoWrap PROVE Spec => []IInv
<1>1. IInv /\ [Next]_vars => IInv'
  BY NextStep
<1>. QED BY InitIInv, <1>1, PTL DEF Spec

\* The state keeps its types whatever is lost, repeated or reordered.
THEOREM TypeCorrect == ASSUME NoWrap PROVE Spec => []TypeOK
<1>1. IInv => TypeOK
  BY DEF IInv
<1>. QED BY InductiveInvariant, <1>1, PTL

\* No replica and no delta ever counts more for s than s was asked to add,
\* and s counts exactly that (gcounter.go:24-32, 106-114).
THEOREM NeverOverCounts == ASSUME NoWrap PROVE Spec => []NoOverCount
<1>1. IInv => NoOverCount
  <2>. SUFFICES ASSUME IInv, NEW s \in Replicas
                PROVE  counts[s][s] = asked[s] /\ \A n \in CountsFor(s) : n <= asked[s]
    BY DEF NoOverCount
  <2>1. \A r \in Replicas : counts[s][s] = asked[s] /\ counts[r][s] <= asked[s]
    BY DEF IInv, CountsSound
  <2>2. \A m \in wire : m.delta.rep = s => m.delta.count <= asked[s]
    BY DEF IInv, DeltasSound
  <2>. QED BY <2>1, <2>2 DEF CountsFor
<1>. QED BY InductiveInvariant, <1>1, PTL

\* A counter that a replica reports or keeps as received never exceeds the
\* count it holds (replica.go:145-153).
THEOREM MarksBacked == ASSUME NoWrap PROVE Spec => []MarkBackedByCount
<1>1. IInv => MarkBackedByCount
  <2>. SUFFICES ASSUME IInv, NEW r \in Replicas, NEW s \in Replicas,
                       NEW n \in Covered(r, s)
                PROVE  n <= counts[r][s]
    BY DEF MarkBackedByCount
  <2>1. /\ hwm[r][s] \in Nat /\ counts[r][s] \in Nat /\ hwm[r][s] <= counts[r][s]
        /\ pending[r][s] \subseteq 1..counts[r][s]
    BY DEF IInv, TypeOK, VClock, ReceivedBacked, ReceivedWithin
  <2>. QED BY <2>1 DEF Covered
<1>. QED BY InductiveInvariant, <1>1, PTL

\* No mark on its way to a peer or kept by one exceeds what its owner has
\* received, whatever happens to digests (replica.go:230-258, 260-270).
THEOREM MarksSound == ASSUME NoWrap PROVE Spec => []ReportedMarksSound
<1>1. IInv => ReportedMarksSound
  BY DEF IInv
<1>. QED BY InductiveInvariant, <1>1, PTL

\* No digest, however stale, hides a difference: its answer holds every count
\* in which its sender is still behind (replica.go:261-282).
THEOREM AnswersComplete == ASSUME NoWrap PROVE Spec => []DigestAnswerComplete
<1>1. IInv => DigestAnswerComplete
  <2>. SUFFICES ASSUME IInv, NEW m \in digests, NEW s \in Replicas,
                       counts[m.to][s] > counts[m.from][s]
                PROVE  /\ ~SameHash(m.to, m)
                       /\ [rep |-> s, count |-> counts[m.to][s]]
                            \in DeltasSince(m.to, m.hwm)
    BY DEF DigestAnswerComplete
  <2>1. /\ m.to \in Replicas /\ m.from \in Replicas /\ m.hwm[s] \in Nat
        /\ counts[m.to][s] \in Nat /\ counts[m.from][s] \in Nat
        /\ hwm[m.from][s] \in Nat
    BY DEF IInv, TypeOK, VClock
  <2>2. m.hwm[s] <= hwm[m.from][s]
    BY DEF IInv, ReportedMarksSound, LTE
  <2>3. hwm[m.from][s] <= counts[m.from][s]
    BY <2>1 DEF IInv, ReceivedBacked, ReceivedWithin
  <2>4. s \in tracked[m.to]
    BY <2>1 DEF IInv, CountsTracked
  <2>5. counts[m.to][s] > m.hwm[s]
    BY <2>1, <2>2, <2>3
  <2>. QED BY <2>4, <2>5 DEF SameHash, DeltasSince
<1>. QED BY InductiveInvariant, <1>1, PTL

\* A count never goes down, at any replica, in any step: a late or repeated
\* delta never takes a count back (gcounter.go:5-6, clock_maxwins.go:13-28).
THEOREM CountsMonotone == ASSUME NoWrap PROVE Spec => CountsNeverDecrease
<1>. DEFINE Mono == \A r, s \in Replicas : counts'[r][s] >= counts[r][s]
<1>1. ASSUME IInv, [Next]_vars PROVE Mono
  <2>1. \A r, s \in Replicas : counts[r][s] \in Nat
    BY <1>1 DEF IInv, TypeOK, VClock
  <2>2. CASE counts' = counts
    BY <2>1, <2>2
  <2>3. ASSUME NEW q \in Replicas, NEW a \in Amounts, Increment(q, a) PROVE Mono
    <3>1. counts' = [counts EXCEPT ![q][q] = (counts[q][q] + a) % Modulus]
      BY <2>3 DEF Increment, NewCount
    <3>2. (counts[q][q] + a) % Modulus = counts[q][q] + a
      <4>1. counts[q][q] + a <= MaxTotal[q]
        BY <1>1, <2>3 DEF IInv, CountsSound, Increment
      <4>2. /\ a \in Nat /\ MaxTotal[q] \in Nat /\ Modulus \in Nat \ {0}
            /\ counts[q][q] \in Nat
        BY <2>1, GCounterAssumption
      <4>3. counts[q][q] + a \in 0 .. Modulus - 1
        BY <4>1, <4>2 DEF NoWrap
      <4>. QED BY <4>2, <4>3, ModSmall
    <3>3. a \in Nat
      BY GCounterAssumption
    <3>. QED BY <1>1, <2>1, <3>1, <3>2, <3>3 DEF IInv, TypeOK, VClock
  <2>4. ASSUME NEW q \in Replicas, NEW m \in wire, ReceiveDelta(q, m) PROVE Mono
    <3>1. counts' = [counts EXCEPT ![q][m.delta.rep] = Applied(q, m.delta)]
      BY <2>4 DEF ReceiveDelta
    <3>2. m.delta.rep \in Replicas /\ m.delta.count \in Nat
      BY <1>1 DEF IInv, TypeOK, Delta
    <3>3. Applied(q, m.delta) >= counts[q][m.delta.rep]
      BY <1>1, <2>1, <3>2 DEF Applied, Allows, IInv, CountsTracked
    <3>. QED BY <1>1, <2>1, <3>1, <3>2, <3>3 DEF IInv, TypeOK, VClock
  <2>. QED BY <1>1, <2>2, <2>3, <2>4
         DEF Next, SendDigests, ReceiveDigest, Lose, vars
<1>2. IInv /\ [Next]_vars => [Mono]_vars
  BY <1>1
<1>. QED BY InductiveInvariant, <1>2, PTL DEF Spec, CountsNeverDecrease
=============================================================================
