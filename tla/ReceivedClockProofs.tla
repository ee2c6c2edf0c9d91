------------------------- MODULE ReceivedClockProofs -------------------------
(***************************************************************************)
(* Proofs about ReceivedClock for every set of replicas and every bound on *)
(* the counters.  The inductive invariant adds to the types that the       *)
(* counter after the mark is never pending (NoShortMark).                  *)
(***************************************************************************)
EXTENDS ReceivedClock, ClocksProofs

IInv == TypeOK /\ NoShortMark

\* A new receivedClock satisfies IInv.
LEMMA InitIInv == Init => IInv
  BY MaxCounterAssumption DEF Init, IInv, TypeOK, NoShortMark

\* What one Record does to one replica's entry.
LEMMA RecordEntry ==
  ASSUME IInv, NEW r \in Replicas, NEW c \in 0..MaxCounter, Record(r, c)
  PROVE  /\ IInv'
         /\ [s \in Replicas |-> Covered(s)]'
              = [[s \in Replicas |-> Covered(s)] EXCEPT
                   ![r] = @ \cup (IF c = 0 THEN {} ELSE {c})]
<1>. USE MaxCounterAssumption
<1>1. /\ hwm[r] \in Nat /\ hwm[r] <= MaxCounter
      /\ pending[r] \in SUBSET (1..MaxCounter)
      /\ hwm[r] + 1 \notin pending[r]
  BY DEF IInv, TypeOK, NoShortMark
<1>. DEFINE h == RecordHWM(hwm[r], pending[r], c)
            p == RecordPending(hwm[r], pending[r], c)
<1>2. /\ h \in 0..MaxCounter /\ p \in SUBSET (1..MaxCounter) /\ h + 1 \notin p
      /\ 1..h \cup p
           = (1..hwm[r]) \cup pending[r] \cup (IF c = 0 THEN {} ELSE {c})
  <2>1. h \in hwm[r]..MaxCounter
    BY <1>1, RecordResult
  <2>. QED BY <1>1, <2>1, RecordResult
<1>. HIDE DEF h, p
<1>3. hwm' = [hwm EXCEPT ![r] = h] /\ pending' = [pending EXCEPT ![r] = p]
  BY DEF Record, h, p
<1>4. TypeOK'
  BY <1>2, <1>3 DEF IInv, TypeOK
<1>5. NoShortMark'
  BY <1>2, <1>3 DEF IInv, TypeOK, NoShortMark
<1>6. ASSUME NEW s \in Replicas
      PROVE  Covered(s)' = IF s = r
                           THEN Covered(r) \cup (IF c = 0 THEN {} ELSE {c})
                           ELSE Covered(s)
  BY <1>2, <1>3 DEF IInv, TypeOK, Covered
<1>. QED BY <1>4, <1>5, <1>6 DEF IInv

\* What one SetHWM does to one replica's entry: the pending counters stay
\* and all up to n are covered, whatever the mark was.
LEMMA SetHWMEntry ==
  ASSUME IInv, NEW r \in Replicas, NEW n \in 0..MaxCounter, SetHWM(r, n)
  PROVE  /\ IInv'
         /\ [s \in Replicas |-> Covered(s)]'
              = [[s \in Replicas |-> Covered(s)] EXCEPT ![r] = pending[r] \cup 1..n]
<1>. USE MaxCounterAssumption
<1>. DEFINE h == AdvanceHWM(n, pending[r])
            p == pending[r] \ ((n+1)..h)
<1>1. /\ n \in Nat /\ n <= MaxCounter
      /\ pending[r] \in SUBSET (0..MaxCounter)
      /\ pending[r] \in SUBSET (1..MaxCounter)
  BY DEF IInv, TypeOK
<1>2. /\ h \in pending[r] \cup {n} /\ h \in Nat /\ h >= n
      /\ (n+1)..h \subseteq pending[r] /\ h + 1 \notin pending[r]
  BY <1>1, AdvanceHWMResult
<1>3. hwm' = [hwm EXCEPT ![r] = h] /\ pending' = [pending EXCEPT ![r] = p]
  BY DEF SetHWM, IInv, TypeOK
<1>. HIDE DEF h
<1>4. TypeOK'
  <2>1. h \in 0..MaxCounter
    BY <1>1, <1>2
  <2>. QED BY <1>1, <1>3, <2>1 DEF IInv, TypeOK
<1>5. NoShortMark'
  BY <1>2, <1>3 DEF IInv, TypeOK, NoShortMark
<1>6. 1..h \cup p = pending[r] \cup 1..n
  BY <1>1, <1>2
<1>7. ASSUME NEW s \in Replicas
      PROVE  Covered(s)' = IF s = r THEN pending[r] \cup 1..n ELSE Covered(s)
  BY <1>3, <1>6 DEF IInv, TypeOK, Covered
<1>. QED BY <1>4, <1>5, <1>7 DEF IInv

\* The marks and the pending counters keep their types and the counter after
\* a mark is never pending, whatever is recorded in whatever order.
THEOREM InductiveInvariant == Spec => []IInv
<1>1. IInv /\ [Next]_vars => IInv'
  <2>. SUFFICES ASSUME IInv, [Next]_vars PROVE IInv'
    OBVIOUS
  <2>1. ASSUME NEW r \in Replicas, NEW c \in 0..MaxCounter, Record(r, c)
        PROVE  IInv'
    BY <2>1, RecordEntry
  <2>2. ASSUME NEW r \in Replicas, NEW c \in 0..MaxCounter, SetHWM(r, c)
        PROVE  IInv'
    BY <2>2, SetHWMEntry
  <2>3. CASE UNCHANGED vars
    BY <2>3 DEF vars, IInv, TypeOK, NoShortMark
  <2>. QED BY <2>1, <2>2, <2>3 DEF Next
<1>. QED BY InitIInv, <1>1, PTL DEF Spec

\* Record and SetHWM (received.go:29-52, 105-108) keep marks and pending
\* counters within the counters recorded.
THEOREM TypeCorrect == Spec => []TypeOK
<1>1. IInv => TypeOK
  BY DEF IInv
<1>. QED BY InductiveInvariant, <1>1, PTL

\* received.go:7-9: the high-water mark is the largest N such that all of
\* 1..N have been received, for every bound and every order of arrival.
THEOREM HWMExact == Spec => []HWMIsContiguousPrefix
<1>1. IInv => HWMIsContiguousPrefix
  <2>. SUFFICES ASSUME IInv, NEW r \in Replicas, NEW n \in 0..MaxCounter + 1
                PROVE  Abs!IsPrefix(Covered(r), n) <=> n = hwm[r]
    BY DEF HWMIsContiguousPrefix
  <2>. DEFINE h == hwm[r]
  <2>1. /\ h \in Nat /\ n \in Nat
        /\ pending[r] \in SUBSET Nat /\ h + 1 \notin pending[r]
    BY MaxCounterAssumption DEF IInv, TypeOK, NoShortMark
  <2>2. 1..h \subseteq Covered(r) /\ h + 1 \notin Covered(r)
    BY <2>1 DEF Covered
  <2>. HIDE DEF h
  <2>3. ASSUME 1..n \subseteq Covered(r), n + 1 \notin Covered(r) PROVE n = h
    <3>1. ~(n < h)
      BY <2>1, <2>2, <2>3
    <3>2. ~(h < n)
      BY <2>1, <2>2, <2>3
    <3>. QED BY <2>1, <3>1, <3>2
  <2>. QED BY <2>2, <2>3 DEF Abs!IsPrefix, h
<1>. QED BY InductiveInvariant, <1>1, PTL

\* Record covers its counter and nothing else, for every bound and every
\* state that Record and SetHWM can lead to (received.go:26-52).
THEOREM RecordExact == Spec => RecordAddsItsCounter
<1>. DEFINE Exact == \A r \in Replicas, c \in 0..MaxCounter : Record(r, c) =>
                       \A s \in Replicas : Covered(s)' =
                         Covered(s) \cup (IF s = r /\ c # 0 THEN {c} ELSE {})
<1>1. ASSUME IInv, NEW r \in Replicas, NEW c \in 0..MaxCounter, Record(r, c),
             NEW s \in Replicas
      PROVE  Covered(s)' = Covered(s) \cup (IF s = r /\ c # 0 THEN {c} ELSE {})
  <2>1. Covered(s)' = IF s = r THEN Covered(r) \cup (IF c = 0 THEN {} ELSE {c})
                      ELSE Covered(s)
    <3>. DEFINE F == [t \in Replicas |-> Covered(t)]
    <3>1. F' = [F EXCEPT ![r] = @ \cup (IF c = 0 THEN {} ELSE {c})]
      BY <1>1, RecordEntry
    <3>2. F'[s] = IF s = r THEN F[r] \cup (IF c = 0 THEN {} ELSE {c}) ELSE F[s]
      <4>. HIDE DEF F
      <4>1. DOMAIN F = Replicas
        BY DEF F
      <4>. QED BY <1>1, <3>1, <4>1
    <3>3. F'[s] = Covered(s)' /\ F[s] = Covered(s) /\ F[r] = Covered(r)
      BY <1>1
    <3>. QED BY <3>2, <3>3
  <2>2. CASE s = r /\ c # 0
    BY <2>1, <2>2
  <2>3. CASE ~(s = r /\ c # 0)
    BY <2>1, <2>3
  <2>. QED BY <2>2, <2>3
<1>2. IInv => Exact
  BY <1>1
<1>3. IInv => [Exact]_vars
  BY <1>2
<1>. QED BY InductiveInvariant, <1>3, PTL DEF RecordAddsItsCounter

\* The mark and the pending map together implement the abstract set of
\* received counters: Record forgets nothing, SetHWM at most what was received
\* without a gap, and nothing appears but what is recorded or below a snapshot.
THEOREM Refinement == Spec => ImplementsReceivedSet
<1>. DEFINE bar == [r \in Replicas |-> Covered(r)]
<1>1. Init => Abs!Init
  <2>. SUFFICES ASSUME Init PROVE Abs!Init
    OBVIOUS
  <2>1. \A r \in Replicas : Covered(r) = {}
    BY DEF Init, Covered
  <2>. QED BY <2>1 DEF Abs!Init
<1>2. IInv /\ [Next]_vars => [Abs!Next]_bar
  <2>. SUFFICES ASSUME IInv, [Next]_vars PROVE [Abs!Next]_bar
    OBVIOUS
  <2>1. ASSUME NEW r \in Replicas, NEW c \in 0..MaxCounter, Record(r, c)
        PROVE  [Abs!Next]_bar
    <3>1. bar' = [bar EXCEPT ![r] = @ \cup (IF c = 0 THEN {} ELSE {c})]
      BY <2>1, RecordEntry
    <3>2. CASE c = 0
      BY <3>1, <3>2
    <3>3. CASE c # 0
      <4>1. c \in 1..MaxCounter
        BY <3>3, MaxCounterAssumption
      <4>2. Abs!Receive(r, c)
        BY <3>1, <3>3 DEF Abs!Receive
      <4>. QED BY <4>1, <4>2 DEF Abs!Next
    <3>. QED BY <3>2, <3>3
  <2>2. ASSUME NEW r \in Replicas, NEW c \in 0..MaxCounter, SetHWM(r, c)
        PROVE  [Abs!Next]_bar
    <3>1. bar' = [bar EXCEPT ![r] = pending[r] \cup 1..c]
      BY <2>2, SetHWMEntry
    <3>2. pending[r] \subseteq bar[r]
      BY DEF Covered
    <3>3. Abs!BeyondGap(r) \subseteq pending[r]
      <4>. SUFFICES ASSUME NEW k \in Covered(r), NEW g \in 1..k, g \notin Covered(r)
                    PROVE  k \in pending[r]
        BY DEF Abs!BeyondGap
      <4>1. hwm[r] \in Nat /\ pending[r] \in SUBSET Nat
        BY MaxCounterAssumption DEF IInv, TypeOK
      <4>. QED BY <4>1 DEF Covered
    <3>4. Abs!Snapshot(r, c)
      BY <3>1, <3>2, <3>3 DEF Abs!Snapshot
    <3>. QED BY <3>4 DEF Abs!Next
  <2>3. CASE UNCHANGED vars
    <3>1. \A r \in Replicas : Covered(r)' = Covered(r)
      BY <2>3 DEF vars, Covered
    <3>. QED BY <3>1
  <2>. QED BY <2>1, <2>2, <2>3 DEF Next
<1>. QED BY InductiveInvariant, <1>1, <1>2, PTL
      DEF Spec, ImplementsReceivedSet, Abs!Spec
=============================================================================
