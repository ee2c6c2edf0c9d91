------------------------------- MODULE Clocks -------------------------------
(***************************************************************************)
(* The causality values of the library: dots (dot.go), vector clocks and   *)
(* dot maps (vclock.go, dot.go), and the arithmetic of one entry of a      *)
(* receivedClock (received.go).  Pure definitions, no state.               *)
(*                                                                         *)
(* A Go map from replica to counter is a function on Replicas in which 0   *)
(* stands for an absent key.  No code path stores an explicit 0 in a clock *)
(* that is compared with LTE or Equal, so the size checks of those methods *)
(* never change their answer.                                              *)
(***************************************************************************)
EXTENDS Integers, FiniteSets

CONSTANT Replicas   \* the replica ids; ordered, because ties are broken by id

ASSUME ReplicasAssumption == Replicas \subseteq Nat

-----------------------------------------------------------------------------
(* Dots.                                                                   *)

Dot == [rep : Replicas, cnt : Nat]

DotOf(r, n) == [rep |-> r, cnt |-> n]

\* The zero Dot of Go, which the model also uses for "no dot stored".
NoDot == [rep |-> 0, cnt |-> 0]

\* Higher counter wins; on equal counters the lower replica id wins.
DotGT(a, b) == IF a.cnt # b.cnt THEN a.cnt > b.cnt ELSE a.rep < b.rep

-----------------------------------------------------------------------------
(* Vector clocks and dot maps.                                             *)

VClock == [Replicas -> Nat]

EmptyClock == [r \in Replicas |-> 0]

\* DotMap{d.Replica: d.Counter}
Singleton(d) == [r \in Replicas |-> IF r = d.rep THEN d.cnt ELSE 0]

Larger(m, n) == IF m > n THEN m ELSE n

CombineDots(v, w) == [r \in Replicas |-> Larger(v[r], w[r])]

\* VClock.LTE, DotMapLTE
LTE(v, w) == \A r \in Replicas : v[r] <= w[r]

\* The entries of a dot map that a causal context does not dominate.
Surviving(dots, ctx) ==
    [r \in Replicas |-> IF dots[r] > ctx[r] THEN dots[r] ELSE 0]

-----------------------------------------------------------------------------
(* One replica's entry of a receivedClock: the high-water mark h and the   *)
(* set p of counters received out of order.                                *)

\* Seeded fault: one step instead of a loop.
AdvanceHWMOnce(h, p) == IF h + 1 \in p THEN h + 1 ELSE h

\* receivedClock.advanceHWM: walk up from h while the next counter is
\* pending.  The loop ends at the first n >= h whose successor is missing.
AdvanceHWM(h, p) ==
    CHOOSE n \in p \cup {h} :
        n >= h /\ (h+1)..n \subseteq p /\ n+1 \notin p

\* Seeded fault: the mark jumps to the counter, over any gap.
RecordHWMJumps(h, p, c) == IF c > h THEN c ELSE h

\* receivedClock.Record: the new high-water mark ...
RecordHWM(h, p, c) == IF c = h + 1 THEN AdvanceHWM(c, p) ELSE h

\* Seeded fault: counters up to the mark are not ignored.
RecordPendingAll(h, p, c) ==
    IF c = h + 1 THEN p \ ((c+1) .. AdvanceHWM(c, p)) ELSE p \cup {c}

\* Seeded fault: filling one gap clears everything that is pending.
RecordPendingCleared(h, p, c) ==
    IF c <= h THEN p ELSE IF c = h + 1 THEN {} ELSE p \cup {c}

\* ... and the new pending set.  Counters up to the mark (0 included) are
\* ignored, the loop deletes the counters it walks over, and a counter
\* beyond the next one is kept aside.
RecordPending(h, p, c) ==
    IF c <= h THEN p
    ELSE IF c = h + 1 THEN p \ ((c+1) .. AdvanceHWM(c, p))
    ELSE p \cup {c}
=============================================================================
