---------------------------- MODULE ClocksProofs ----------------------------
(***************************************************************************)
(* Lemmas about the operators of Clocks, for every set of replicas and     *)
(* every counter.                                                          *)
(***************************************************************************)
EXTENDS Clocks, WellFoundedInduction, TLAPS

\* Every non-empty set of naturals has a least element.
LEMMA LeastNatural ==
  ASSUME NEW G \in SUBSET Nat, G # {}
  PROVE  \E g \in G : \A k \in G : g <= k
<1>1. PICK g \in G : \A k \in G : <<k, g>> \notin OpToRel(<, Nat)
  <2>1. IsWellFoundedOn(OpToRel(<, Nat), Nat)
    BY NatLessThanWellFounded
  <2>. QED BY <2>1, WFMin
<1>2. ASSUME NEW k \in G PROVE ~(k < g)
  BY <1>1 DEF OpToRel
<1>. QED BY <1>2

\* The loop of advanceHWM (received.go:55-72) ends, for every bounded set of
\* pending counters, at the first mark whose successor is missing.
LEMMA AdvanceHWMResult ==
  ASSUME NEW h \in Nat, NEW B \in Nat, NEW p \in SUBSET (0..B)
  PROVE  /\ AdvanceHWM(h, p) \in p \cup {h}
         /\ AdvanceHWM(h, p) \in Nat
         /\ AdvanceHWM(h, p) >= h
         /\ (h+1)..AdvanceHWM(h, p) \subseteq p
         /\ AdvanceHWM(h, p) + 1 \notin p
<1>. DEFINE G == {k \in Nat : k >= h /\ k+1 \notin p}
<1>1. G \in SUBSET Nat /\ h + B \in G
  OBVIOUS
<1>2. PICK g \in G : \A k \in G : g <= k
  BY <1>1, LeastNatural
<1>3. ASSUME NEW i \in (h+1)..g PROVE i \in p
  <2>1. i - 1 \in Nat /\ i - 1 >= h /\ i - 1 < g /\ (i - 1) + 1 = i
    BY <1>2
  <2>2. i - 1 \notin G
    BY <1>2, <2>1
  <2>. QED BY <2>1, <2>2
<1>4. g \in p \cup {h} /\ g >= h /\ (h+1)..g \subseteq p /\ g + 1 \notin p
  <2>1. g \in Nat /\ g >= h /\ g + 1 \notin p
    BY <1>2
  <2>2. CASE g = h
    BY <2>1, <2>2, <1>3
  <2>3. CASE g > h
    <3>1. g \in (h+1)..g
      BY <2>1, <2>3
    <3>. QED BY <2>1, <3>1, <1>3
  <2>. QED BY <2>1, <2>2, <2>3
<1>5. /\ AdvanceHWM(h, p) \in p \cup {h}
      /\ AdvanceHWM(h, p) >= h
      /\ (h+1)..AdvanceHWM(h, p) \subseteq p
      /\ AdvanceHWM(h, p) + 1 \notin p
  BY <1>4 DEF AdvanceHWM
<1>6. \A n \in p \cup {h} : n \in Nat
  OBVIOUS
<1>7. AdvanceHWM(h, p) \in Nat
  BY <1>5, <1>6
<1>. QED BY <1>5, <1>7

\* Recording counter c (received.go:29-52) adds exactly c to what is covered,
\* moves the mark up or leaves it, and leaves the counter after it missing.
LEMMA RecordResult ==
  ASSUME NEW h \in Nat, NEW B \in Nat, NEW p \in SUBSET (1..B), NEW c \in 0..B,
         h <= B, h + 1 \notin p
  PROVE  /\ RecordHWM(h, p, c) \in h..B
         /\ RecordPending(h, p, c) \in SUBSET (1..B)
         /\ RecordHWM(h, p, c) + 1 \notin RecordPending(h, p, c)
         /\ 1..RecordHWM(h, p, c) \cup RecordPending(h, p, c)
              = (1..h) \cup p \cup (IF c = 0 THEN {} ELSE {c})
<1>1. CASE c <= h
  <2>1. RecordHWM(h, p, c) = h /\ RecordPending(h, p, c) = p
    BY <1>1 DEF RecordHWM, RecordPending
  <2>2. c = 0 \/ c \in 1..h
    BY <1>1
  <2>. QED BY <2>1, <2>2
<1>2. CASE c = h + 1
  <2>. DEFINE n == AdvanceHWM(c, p)
  <2>1. c \in Nat /\ p \in SUBSET (0..B)
    OBVIOUS
  <2>2. /\ n \in p \cup {c} /\ n \in Nat /\ n >= c
        /\ (c+1)..n \subseteq p /\ n + 1 \notin p
    BY <2>1, AdvanceHWMResult
  <2>3. RecordHWM(h, p, c) = n /\ RecordPending(h, p, c) = p \ ((c+1)..n)
    BY <1>2 DEF RecordHWM, RecordPending
  <2>4. n \in h..B
    BY <2>2, <1>2
  <2>5. 1..n = (1..h) \cup {c} \cup (c+1)..n
    BY <2>2, <1>2
  <2>6. 1..n \cup (p \ ((c+1)..n)) = (1..h) \cup p \cup {c}
    BY <2>2, <2>5
  <2>7. c # 0
    BY <1>2
  <2>8. n + 1 \notin p \ ((c+1)..n) /\ p \ ((c+1)..n) \in SUBSET (1..B)
    BY <2>2
  <2>. QED BY <2>3, <2>4, <2>6, <2>7, <2>8
<1>3. CASE c > h + 1
  <2>1. RecordHWM(h, p, c) = h /\ RecordPending(h, p, c) = p \cup {c}
    BY <1>3 DEF RecordHWM, RecordPending
  <2>2. c # 0 /\ c # h + 1 /\ c \in 1..B
    BY <1>3
  <2>. QED BY <2>1, <2>2
<1>. QED BY <1>1, <1>2, <1>3

\* The dots of an element that survive a context, as orset.go:283-289 and 335-340
\* compute them.
LEMMA SurvivingDots ==
  ASSUME NEW dots \in VClock, NEW ctx \in VClock
  PROVE  /\ Surviving(dots, ctx) \in VClock
         /\ \A s \in Replicas :
              /\ dots[s] \in Nat /\ ctx[s] \in Nat
              /\ Surviving(dots, ctx)[s] = dots[s] \/ Surviving(dots, ctx)[s] = 0
              /\ dots[s] > ctx[s] => Surviving(dots, ctx)[s] = dots[s]
BY DEF Surviving, VClock

\* Combining dot maps takes the larger counter of each replica.
LEMMA CombinedDots ==
  ASSUME NEW v \in VClock, NEW u \in VClock
  PROVE  /\ CombineDots(v, u) \in VClock
         /\ \A s \in Replicas :
              /\ v[s] \in Nat /\ u[s] \in Nat
              /\ CombineDots(v, u)[s] = v[s] \/ CombineDots(v, u)[s] = u[s]
              /\ CombineDots(v, u)[s] >= v[s] /\ CombineDots(v, u)[s] >= u[s]
BY DEF CombineDots, Larger, VClock
=============================================================================
