---------------------------- MODULE ReplicaProofs ----------------------------
(***************************************************************************)
(* Lemmas about the building blocks of Replica, shared by the proofs about *)
(* the CRDT types.                                                         *)
(***************************************************************************)
EXTENDS Replica, ClocksProofs

ReceivedType ==
    /\ hwm \in [Replicas -> VClock]
    /\ pending \in [Replicas -> [Replicas -> SUBSET (Nat \ {0})]]

\* The received clock of r holds nothing beyond the given clock, and the
\* counter after a mark is never pending.
ReceivedWithin(r, bound) ==
    \A s \in Replicas : /\ hwm[r][s] <= bound[s]
                        /\ pending[r][s] \subseteq 1..bound[s]
                        /\ hwm[r][s] + 1 \notin pending[r][s]

\* Recording the dots of a delta (replica.go:151-153) adds exactly those dots
\* to what the replica has received, and touches no other replica's clock.
LEMMA RecordDotsResult ==
  ASSUME ReceivedType,
         NEW r \in Replicas, NEW dots \in VClock, NEW bound \in VClock,
         ReceivedWithin(r, bound),
         \A s \in Replicas : dots[s] <= bound[s],
         RecordDots(r, dots)
  PROVE  /\ ReceivedType'
         /\ \A s \in Replicas :
              /\ hwm'[r][s] >= hwm[r][s] /\ hwm'[r][s] <= bound[s]
              /\ pending'[r][s] \subseteq 1..bound[s]
              /\ hwm'[r][s] + 1 \notin pending'[r][s]
              /\ Covered(r, s)'
                   = Covered(r, s) \cup (IF dots[s] = 0 THEN {} ELSE {dots[s]})
         /\ \A q \in Replicas \ {r} : hwm'[q] = hwm[q] /\ pending'[q] = pending[q]
<1>. DEFINE H(s) == RecordHWM(hwm[r][s], pending[r][s], dots[s])
            P(s) == RecordPending(hwm[r][s], pending[r][s], dots[s])
<1>1. ASSUME NEW s \in Replicas
      PROVE  /\ H(s) \in Nat /\ H(s) >= hwm[r][s] /\ H(s) <= bound[s]
             /\ P(s) \in SUBSET (1..bound[s]) /\ H(s) + 1 \notin P(s)
             /\ 1..H(s) \cup P(s)
                  = Covered(r, s) \cup (IF dots[s] = 0 THEN {} ELSE {dots[s]})
  <2>1. /\ hwm[r][s] \in Nat /\ bound[s] \in Nat /\ hwm[r][s] <= bound[s]
        /\ pending[r][s] \in SUBSET (1..bound[s])
        /\ dots[s] \in 0..bound[s] /\ hwm[r][s] + 1 \notin pending[r][s]
    BY DEF ReceivedType, ReceivedWithin, VClock
  <2>2. H(s) \in hwm[r][s]..bound[s]
    BY <2>1, RecordResult
  <2>. QED BY <2>1, <2>2, RecordResult DEF Covered
<1>2. /\ hwm' = [hwm EXCEPT ![r] = [s \in Replicas |-> H(s)]]
      /\ pending' = [pending EXCEPT ![r] = [s \in Replicas |-> P(s)]]
  BY DEF RecordDots
<1>. HIDE DEF H, P
<1>3. \A s \in Replicas : P(s) \in SUBSET (Nat \ {0})
  BY <1>1 DEF VClock
<1>4. ReceivedType'
  BY <1>1, <1>2, <1>3 DEF ReceivedType, VClock
<1>5. ASSUME NEW s \in Replicas
      PROVE  hwm'[r][s] = H(s) /\ pending'[r][s] = P(s)
  BY <1>2 DEF ReceivedType
<1>6. ASSUME NEW s \in Replicas
      PROVE  Covered(r, s)' = 1..H(s) \cup P(s)
  BY <1>5 DEF Covered
<1>7. \A q \in Replicas \ {r} : hwm'[q] = hwm[q] /\ pending'[q] = pending[q]
  BY <1>2 DEF ReceivedType
<1>. QED BY <1>1, <1>4, <1>5, <1>6, <1>7
-----------------------------------------------------------------------------
(* The invariant of the replica core, for the types whose dots are counted *)
(* by the local clock: the types of its state, nothing received that its   *)
(* writer has not stamped, and no mark reported that its owner lacks.      *)

CoreType ==
    /\ local \in [Replicas -> Nat]
    /\ ReceivedType
    /\ known \in [Replicas -> SUBSET Replicas]
    /\ peerHWMs \in [Replicas -> [Replicas -> VClock]]
    /\ digests \subseteq [to : Replicas, from : Replicas, hwm : VClock, empty : BOOLEAN]

ReceivedStamped == \A r \in Replicas : ReceivedWithin(r, local)

CoreInv == CoreType /\ ReceivedStamped /\ ReportedMarksSound

\* What is left of it when a replica may forget what it has received.
ClockInv == CoreType /\ ReceivedStamped

\* The core of a new replica (replica.go:56-84) satisfies its invariant.
LEMMA CoreInitial == ShellInit => CoreInv
<1>. SUFFICES ASSUME ShellInit PROVE CoreInv
  OBVIOUS
<1>. USE DEF ShellInit, EmptyClock, VClock
<1>1. CoreType
  BY DEF CoreType, ReceivedType
<1>2. ReceivedStamped
  BY DEF ReceivedStamped, ReceivedWithin
<1>3. ReportedMarksSound
  BY DEF ReportedMarksSound
<1>. QED BY <1>1, <1>2, <1>3 DEF CoreInv

\* What a replica has received lies between 1 and its writer's counter, and
\* holds everything up to the mark.
LEMMA CoveredBounds ==
  ASSUME CoreType, ReceivedStamped, NEW r \in Replicas, NEW s \in Replicas
  PROVE  /\ Covered(r, s) \subseteq 1..local[s]
         /\ 1..hwm[r][s] \subseteq Covered(r, s)
         /\ hwm[r][s] \in Nat /\ local[s] \in Nat
<1>1. /\ hwm[r][s] \in Nat /\ local[s] \in Nat /\ hwm[r][s] <= local[s]
      /\ pending[r][s] \subseteq 1..local[s]
  BY DEF CoreType, ReceivedType, VClock, ReceivedStamped, ReceivedWithin
<1>. QED BY <1>1 DEF Covered

\* A mark is at the counter up to which everything has been received.
LEMMA MarkReached ==
  ASSUME NEW n \in Nat, NEW h \in 0..n, NEW p, h + 1 \notin p, 1..n \subseteq 1..h \cup p
  PROVE  h = n
OBVIOUS

\* A mark reported earlier stays sound when marks only grow.
LEMMA MarksGrow ==
  ASSUME ReceivedType, ReceivedType',
         known \in [Replicas -> SUBSET Replicas],
         peerHWMs \in [Replicas -> [Replicas -> VClock]],
         digests \subseteq [to : Replicas, from : Replicas, hwm : VClock, empty : BOOLEAN],
         ReportedMarksSound,
         \A q, s \in Replicas : hwm'[q][s] >= hwm[q][s],
         known' = known, peerHWMs' = peerHWMs, digests' \subseteq digests
  PROVE  ReportedMarksSound'
<1>1. ASSUME NEW v \in VClock, NEW q \in Replicas, LTE(v, hwm[q])
      PROVE  LTE(v, hwm'[q])
  BY <1>1 DEF LTE, VClock, ReceivedType
<1>2. ASSUME NEW r \in Replicas, NEW p \in known'[r]
      PROVE  LTE(peerHWMs'[r][p], hwm'[p])
  BY <1>1, <1>2 DEF ReportedMarksSound
<1>3. ASSUME NEW m \in digests' PROVE LTE(m.hwm, hwm'[m.from])
  <2>1. m.hwm \in VClock /\ m.from \in Replicas /\ LTE(m.hwm, hwm[m.from])
    BY <1>3 DEF ReportedMarksSound
  <2>. QED BY <1>1, <2>1
<1>4. \A m \in digests' : LTE(m.hwm, hwm'[m.from])
  BY <1>3
<1>. QED BY <1>2, <1>4 DEF ReportedMarksSound, LTE

\* Recording the dots of a delta keeps the clocks sound, as long as the dots
\* were stamped; exactly these dots are received, by this replica alone.
LEMMA ClockRecord ==
  ASSUME ClockInv, NEW r \in Replicas, NEW dots \in VClock,
         local' \in [Replicas -> Nat],
         \A s \in Replicas : local'[s] >= local[s] /\ dots[s] <= local'[s],
         RecordDots(r, dots),
         known' = known, peerHWMs' = peerHWMs, digests' = digests
  PROVE  /\ ClockInv'
         /\ \A q, s \in Replicas : hwm'[q][s] >= hwm[q][s]
         /\ \A s \in Replicas :
              Covered(r, s)' = Covered(r, s) \cup (IF dots[s] = 0 THEN {} ELSE {dots[s]})
         /\ \A q \in Replicas \ {r}, s \in Replicas : Covered(q, s)' = Covered(q, s)
<1>1. ReceivedType /\ local \in [Replicas -> Nat]
  BY DEF ClockInv, CoreType
<1>2. ASSUME NEW q \in Replicas PROVE ReceivedWithin(q, local')
  <2>. SUFFICES ASSUME NEW s \in Replicas
                PROVE  /\ hwm[q][s] <= local'[s] /\ pending[q][s] \subseteq 1..local'[s]
                       /\ hwm[q][s] + 1 \notin pending[q][s]
    BY DEF ReceivedWithin
  <2>1. /\ hwm[q][s] <= local[s] /\ pending[q][s] \subseteq 1..local[s]
        /\ hwm[q][s] + 1 \notin pending[q][s]
    BY DEF ClockInv, ReceivedStamped, ReceivedWithin
  <2>2. hwm[q][s] \in Nat /\ local[s] \in Nat /\ local'[s] \in Nat /\ local'[s] >= local[s]
    BY <1>1 DEF ReceivedType, VClock
  <2>. QED BY <2>1, <2>2
<1>3. local' \in VClock
  BY DEF VClock
<1>4. /\ ReceivedType'
      /\ \A s \in Replicas :
           /\ hwm'[r][s] >= hwm[r][s] /\ hwm'[r][s] <= local'[s]
           /\ pending'[r][s] \subseteq 1..local'[s]
           /\ hwm'[r][s] + 1 \notin pending'[r][s]
           /\ Covered(r, s)'
                = Covered(r, s) \cup (IF dots[s] = 0 THEN {} ELSE {dots[s]})
      /\ \A q \in Replicas \ {r} : hwm'[q] = hwm[q] /\ pending'[q] = pending[q]
  BY <1>1, <1>2, <1>3, RecordDotsResult
<1>5. CoreType'
  BY <1>4 DEF ClockInv, CoreType
<1>6. ReceivedStamped'
  BY <1>2, <1>4 DEF ReceivedStamped, ReceivedWithin
<1>7. ASSUME NEW q \in Replicas, NEW s \in Replicas PROVE hwm'[q][s] >= hwm[q][s]
  <2>1. hwm[q][s] \in Nat
    BY <1>1 DEF ReceivedType, VClock
  <2>. QED BY <1>4, <2>1
<1>8. \A q \in Replicas \ {r}, s \in Replicas : Covered(q, s)' = Covered(q, s)
  BY <1>4 DEF Covered
<1>. QED BY <1>4, <1>5, <1>6, <1>7, <1>8 DEF ClockInv

\* The same for the whole invariant of the core: reported marks stay sound.
LEMMA CoreRecord ==
  ASSUME CoreInv, NEW r \in Replicas, NEW dots \in VClock,
         local' \in [Replicas -> Nat],
         \A s \in Replicas : local'[s] >= local[s] /\ dots[s] <= local'[s],
         RecordDots(r, dots),
         known' = known, peerHWMs' = peerHWMs, digests' = digests
  PROVE  /\ CoreInv'
         /\ \A s \in Replicas :
              Covered(r, s)' = Covered(r, s) \cup (IF dots[s] = 0 THEN {} ELSE {dots[s]})
         /\ \A q \in Replicas \ {r}, s \in Replicas : Covered(q, s)' = Covered(q, s)
<1>1. /\ ClockInv' /\ \A q, s \in Replicas : hwm'[q][s] >= hwm[q][s]
      /\ \A s \in Replicas :
           Covered(r, s)' = Covered(r, s) \cup (IF dots[s] = 0 THEN {} ELSE {dots[s]})
      /\ \A q \in Replicas \ {r}, s \in Replicas : Covered(q, s)' = Covered(q, s)
  BY ClockRecord DEF CoreInv, ClockInv
<1>2. ReportedMarksSound'
  BY <1>1, MarksGrow DEF CoreInv, ClockInv, CoreType
<1>. QED BY <1>1, <1>2 DEF CoreInv, ClockInv

\* Stamping a dot (replica.go:114-118) keeps the clocks sound; the dot is one
\* that nobody has received before.
LEMMA ClockStamp ==
  ASSUME ClockInv, NEW r \in Replicas, StampDot(r),
         known' = known, peerHWMs' = peerHWMs, digests' = digests
  PROVE  /\ ClockInv'
         /\ \A q, s \in Replicas : hwm'[q][s] >= hwm[q][s]
         /\ local[r] + 1 \in Nat
         /\ local' = [local EXCEPT ![r] = local[r] + 1]
         /\ Covered(r, r)' = Covered(r, r) \cup {local[r] + 1}
         /\ \A q, s \in Replicas : (q # r \/ s # r) => Covered(q, s)' = Covered(q, s)
<1>. DEFINE dots == Singleton(NextDot(r))
<1>1. local \in [Replicas -> Nat] /\ local[r] \in Nat /\ local[r] + 1 \in Nat \ {0}
  BY DEF ClockInv, CoreType
<1>2. local' = [local EXCEPT ![r] = local[r] + 1] /\ RecordDots(r, dots)
  BY DEF StampDot
<1>3. local' \in [Replicas -> Nat]
  BY <1>1, <1>2
<1>4. /\ dots \in VClock /\ dots[r] = local[r] + 1
      /\ \A s \in Replicas \ {r} : dots[s] = 0
  BY <1>1 DEF Singleton, NextDot, DotOf, VClock
<1>. HIDE DEF dots
<1>5. \A s \in Replicas : local'[s] >= local[s] /\ dots[s] <= local'[s]
  BY <1>1, <1>2, <1>4
<1>6. /\ ClockInv'
      /\ \A q, s \in Replicas : hwm'[q][s] >= hwm[q][s]
      /\ \A s \in Replicas :
           Covered(r, s)' = Covered(r, s) \cup (IF dots[s] = 0 THEN {} ELSE {dots[s]})
      /\ \A q \in Replicas \ {r}, s \in Replicas : Covered(q, s)' = Covered(q, s)
  BY <1>2, <1>3, <1>4, <1>5, ClockRecord
<1>7. Covered(r, r)' = Covered(r, r) \cup {local[r] + 1}
  BY <1>1, <1>4, <1>6
<1>8. \A s \in Replicas \ {r} : Covered(r, s)' = Covered(r, s)
  BY <1>4, <1>6
<1>. QED BY <1>1, <1>2, <1>6, <1>7, <1>8

\* The same for the whole invariant of the core.
LEMMA CoreStamp ==
  ASSUME CoreInv, NEW r \in Replicas, StampDot(r),
         known' = known, peerHWMs' = peerHWMs, digests' = digests
  PROVE  /\ CoreInv'
         /\ local[r] + 1 \in Nat
         /\ local' = [local EXCEPT ![r] = local[r] + 1]
         /\ Covered(r, r)' = Covered(r, r) \cup {local[r] + 1}
         /\ \A q, s \in Replicas : (q # r \/ s # r) => Covered(q, s)' = Covered(q, s)
<1>1. /\ ClockInv' /\ \A q, s \in Replicas : hwm'[q][s] >= hwm[q][s]
      /\ local[r] + 1 \in Nat
      /\ local' = [local EXCEPT ![r] = local[r] + 1]
      /\ Covered(r, r)' = Covered(r, r) \cup {local[r] + 1}
      /\ \A q, s \in Replicas : (q # r \/ s # r) => Covered(q, s)' = Covered(q, s)
  BY ClockStamp DEF CoreInv, ClockInv
<1>2. ReportedMarksSound'
  BY <1>1, MarksGrow DEF CoreInv, ClockInv, CoreType
<1>. QED BY <1>1, <1>2 DEF CoreInv, ClockInv

\* A dot that was stamped before is neither the next one nor received by the
\* step that stamps that one.
LEMMA OldDots ==
  ASSUME CoreInv, NEW r \in Replicas, StampDot(r),
         known' = known, peerHWMs' = peerHWMs, digests' = digests
  PROVE  \A y \in Dot : y.cnt \in 1..local[y.rep] =>
            /\ y # DotOf(r, local[r] + 1) /\ y.cnt \in 1..local'[y.rep]
            /\ \A q \in Replicas : y.cnt \in Covered(q, y.rep)' <=> y.cnt \in Covered(q, y.rep)
<1>. SUFFICES ASSUME NEW y \in Dot, y.cnt \in 1..local[y.rep]
              PROVE  /\ y # DotOf(r, local[r] + 1) /\ y.cnt \in 1..local'[y.rep]
                     /\ \A q \in Replicas :
                           y.cnt \in Covered(q, y.rep)' <=> y.cnt \in Covered(q, y.rep)
  OBVIOUS
<1>1. /\ local' = [local EXCEPT ![r] = local[r] + 1]
      /\ Covered(r, r)' = Covered(r, r) \cup {local[r] + 1}
      /\ \A q, s \in Replicas : (q # r \/ s # r) => Covered(q, s)' = Covered(q, s)
  BY CoreStamp
<1>2. y.rep \in Replicas /\ local[y.rep] \in Nat /\ local \in [Replicas -> Nat]
  BY DEF Dot, CoreInv, CoreType
<1>3. y.rep = r => y.cnt # local[r] + 1
  BY <1>2
<1>4. y # DotOf(r, local[r] + 1)
  BY <1>3 DEF DotOf
<1>. QED BY <1>1, <1>2, <1>3, <1>4

\* A stamped dot that the sender of a digest has not received is beyond the
\* mark in the digest, however stale that is.
LEMMA UnreportedIfLacking ==
  ASSUME CoreInv, NEW m \in digests, NEW y \in Dot, y.cnt \in 1..local[y.rep],
         y.cnt \notin Covered(m.from, y.rep)
  PROVE  y.cnt > m.hwm[y.rep]
<1>1. /\ m.from \in Replicas /\ m.hwm \in VClock /\ LTE(m.hwm, hwm[m.from])
      /\ y.rep \in Replicas /\ y.cnt \in Nat
  BY DEF CoreInv, CoreType, ReportedMarksSound, Dot
<1>2. /\ 1..hwm[m.from][y.rep] \subseteq Covered(m.from, y.rep)
      /\ hwm[m.from][y.rep] \in Nat /\ local[y.rep] \in Nat
  BY <1>1, CoveredBounds DEF CoreInv
<1>3. m.hwm[y.rep] \in Nat /\ m.hwm[y.rep] <= hwm[m.from][y.rep]
  BY <1>1 DEF LTE, VClock
<1>. QED BY <1>1, <1>2, <1>3

\* A step that leaves the core alone, or only takes digests from the
\* transport, keeps its invariant and what has been received.
LEMMA CoreUnchanged ==
  ASSUME CoreInv, digests' \subseteq digests,
         UNCHANGED <<local, hwm, pending, known, peerHWMs>>
  PROVE  /\ CoreInv'
         /\ \A q, s \in Replicas : Covered(q, s)' = Covered(q, s)
<1>1. CoreType'
  BY DEF CoreInv, CoreType, ReceivedType
<1>2. ReceivedStamped'
  BY DEF CoreInv, ReceivedStamped, ReceivedWithin
<1>3. ReportedMarksSound'
  BY DEF CoreInv, ReportedMarksSound, LTE
<1>. QED BY <1>1, <1>2, <1>3 DEF CoreInv, Covered

\* sendDigests (replica.go:230-258) keeps the invariant of the core: it
\* reports the marks of the moment.
LEMMA CoreBroadcast ==
  ASSUME CoreInv, NEW r \in Replicas,
         digests' = digests \cup {Digest(r, p) : p \in Peers(r)},
         UNCHANGED <<local, hwm, pending, known, peerHWMs>>
  PROVE  /\ CoreInv'
         /\ \A q, s \in Replicas : Covered(q, s)' = Covered(q, s)
<1>1. ASSUME NEW p \in Peers(r)
      PROVE  /\ Digest(r, p) \in [to : Replicas, from : Replicas, hwm : VClock, empty : BOOLEAN]
             /\ LTE(Digest(r, p).hwm, hwm[Digest(r, p).from])
  <2>1. hwm[r] \in VClock /\ p \in Replicas /\ (tracked[r] = {}) \in BOOLEAN
    BY DEF CoreInv, CoreType, ReceivedType, Peers
  <2>2. LTE(hwm[r], hwm[r])
    BY <2>1 DEF LTE, VClock
  <2>. QED BY <2>1, <2>2 DEF Digest
<1>2. CoreType'
  BY <1>1 DEF CoreInv, CoreType, ReceivedType
<1>3. ReceivedStamped'
  BY DEF CoreInv, ReceivedStamped, ReceivedWithin
<1>4. ReportedMarksSound'
  <2>1. ASSUME NEW m \in digests' PROVE LTE(m.hwm, hwm[m.from])
    BY <1>1, <2>1 DEF CoreInv, ReportedMarksSound
  <2>2. \A q \in Replicas : \A p \in known[q] : LTE(peerHWMs[q][p], hwm[p])
    BY DEF CoreInv, ReportedMarksSound
  <2>. QED BY <2>1, <2>2 DEF ReportedMarksSound, LTE
<1>. QED BY <1>2, <1>3, <1>4 DEF CoreInv, Covered

\* handleSyncDigest (replica.go:261-282) keeps the invariant of the core: a
\* stale mark may replace a newer one, but never exceeds what its owner has.
LEMMA CoreAnswer ==
  ASSUME CoreInv, NEW r \in Replicas, NEW m \in digests, digests' \subseteq digests,
         known' = [known EXCEPT ![r] = @ \cup {m.from}],
         peerHWMs' = [peerHWMs EXCEPT ![r][m.from] = m.hwm],
         UNCHANGED <<local, hwm, pending>>
  PROVE  /\ CoreInv'
         /\ \A q, s \in Replicas : Covered(q, s)' = Covered(q, s)
         /\ m.from \in Replicas
<1>1. m.from \in Replicas /\ m.hwm \in VClock /\ LTE(m.hwm, hwm[m.from])
  BY DEF CoreInv, CoreType, ReportedMarksSound
<1>2. CoreType'
  BY <1>1 DEF CoreInv, CoreType, ReceivedType
<1>3. ReceivedStamped'
  BY DEF CoreInv, ReceivedStamped, ReceivedWithin
<1>4. ReportedMarksSound'
  <2>1. ASSUME NEW q \in Replicas, NEW p \in known'[q]
        PROVE  LTE(peerHWMs'[q][p], hwm[p])
    <3>1. CASE q = r /\ p = m.from
      BY <1>1, <3>1 DEF CoreInv, CoreType
    <3>2. CASE ~(q = r /\ p = m.from)
      <4>1. p \in known[q] /\ p \in Replicas
        BY <2>1, <3>2 DEF CoreInv, CoreType
      <4>2. peerHWMs'[q][p] = peerHWMs[q][p]
        BY <1>1, <3>2, <4>1 DEF CoreInv, CoreType
      <4>. QED BY <4>1, <4>2 DEF CoreInv, ReportedMarksSound
    <3>. QED BY <3>1, <3>2
  <2>2. \A x \in digests' : LTE(x.hwm, hwm[x.from])
    BY DEF CoreInv, ReportedMarksSound
  <2>. QED BY <2>1, <2>2 DEF ReportedMarksSound, LTE
<1>. QED BY <1>1, <1>2, <1>3, <1>4 DEF CoreInv, Covered

\* The minimum that sendDigests collects garbage below (replica.go:242-249)
\* is at most what any peer it has heard of has received.
LEMMA MinHWMReceived ==
  ASSUME CoreInv, NEW r \in Replicas, NEW p \in known[r], NEW s \in Replicas
  PROVE  MinHWM(r)[s] \in Nat /\ MinHWM(r)[s] <= hwm[p][s]
<1>. DEFINE G == {hwm[r][s]} \cup {peerHWMs[r][q][s] : q \in known[r]}
<1>1. /\ hwm[r][s] \in Nat /\ known[r] \subseteq Replicas
      /\ \A q \in known[r] : peerHWMs[r][q][s] \in Nat
      /\ peerHWMs[r][p][s] <= hwm[p][s] /\ hwm[p][s] \in Nat
  BY DEF CoreInv, CoreType, ReceivedType, VClock, ReportedMarksSound, LTE
<1>2. G \in SUBSET Nat /\ G # {}
  BY <1>1
<1>3. PICK g \in G : \A k \in G : g <= k
  BY <1>2, LeastNatural
<1>4. \E n \in G : n <= hwm[r][s] /\ \A q \in known[r] : n <= peerHWMs[r][q][s]
  BY <1>3
<1>5. MinHWM(r)[s] = CHOOSE n \in G : n <= hwm[r][s] /\ \A q \in known[r] : n <= peerHWMs[r][q][s]
  BY DEF MinHWM
<1>6. /\ MinHWM(r)[s] \in G
      /\ \A q \in known[r] : MinHWM(r)[s] <= peerHWMs[r][q][s]
  BY <1>4, <1>5
<1>7. MinHWM(r)[s] \in Nat
  BY <1>2, <1>6
<1>. QED BY <1>1, <1>6, <1>7
=============================================================================
