---------------------------- MODULE ReceivedClock ----------------------------
(***************************************************************************)
(* receivedClock (received.go) as a component of its own: per remote       *)
(* replica a high-water mark and the counters received beyond a gap.       *)
(* Deltas reach a replica in any order and more than once, so Record is    *)
(* called with any counter at any time, 0 included.                        *)
(***************************************************************************)
EXTENDS Clocks

CONSTANT MaxCounter   \* bound: the largest counter that is ever recorded

ASSUME MaxCounterAssumption == MaxCounter \in Nat

VARIABLES hwm,        \* hwm[r]: the high-water mark of r
          pending     \* pending[r]: counters of r received above a gap

vars == <<hwm, pending>>

-----------------------------------------------------------------------------
\* newReceivedClock
Init == /\ hwm = [r \in Replicas |-> 0]
        /\ pending = [r \in Replicas |-> {}]

\* receivedClock.Record
Record(r, c) ==
    /\ hwm' = [hwm EXCEPT ![r] = RecordHWM(@, pending[r], c)]
    /\ pending' = [pending EXCEPT ![r] = RecordPending(hwm[r], @, c)]

\* receivedClock.SetHWM.  The mark is set whatever it was, so that a smaller n
\* takes it down; pending counters at or below n are not cleaned up.
SetHWM(r, n) ==
    /\ hwm' = [hwm EXCEPT ![r] = AdvanceHWM(n, pending[r])]
    /\ pending' = [pending EXCEPT ![r] = @ \ ((n+1)..AdvanceHWM(n, @))]

Next == \E r \in Replicas, c \in 0..MaxCounter : Record(r, c) \/ SetHWM(r, c)

Spec == Init /\ [][Next]_vars

-----------------------------------------------------------------------------
\* receivedClock.Covers, as the set of counters it answers true for.
Covered(r) == 1..hwm[r] \cup pending[r]

\* The marks are counters and pending counters are positive and bounded by
\* the largest counter ever recorded.
TypeOK == /\ hwm \in [Replicas -> 0..MaxCounter]
          /\ pending \in [Replicas -> SUBSET (1..MaxCounter)]

\* The mark never stops short: the counter after it has not been received.
NoShortMark == \A r \in Replicas : hwm[r] + 1 \notin pending[r]

Abs == INSTANCE ReceivedSet WITH seen <- [r \in Replicas |-> Covered(r)]

\* received.go:7-9: the mark that is sent to peers is the largest N such that
\* all of 1..N have been received, in whatever order the counters arrived.
HWMIsContiguousPrefix ==
    \A r \in Replicas :
        \A n \in 0..MaxCounter + 1 : Abs!IsPrefix(Covered(r), n) <=> n = hwm[r]

\* Record (received.go:26-52) adds exactly its counter to what Covers answers
\* for, whether the mark moves, catches up over pending counters or stays:
\* nothing is covered that did not arrive, and nothing of another replica.
RecordAddsItsCounter ==
    [][\A r \in Replicas, c \in 0..MaxCounter : Record(r, c) =>
          \A s \in Replicas : Covered(s)' =
              Covered(s) \cup (IF s = r /\ c # 0 THEN {c} ELSE {})]_vars

\* The two maps implement the abstract set of received counters: no Record
\* forgets anything (deleting pending counters included, received.go:54-72), and
\* SetHWM at most what the mark stood for, never a counter beyond a gap.
ImplementsReceivedSet == Abs!Spec
=============================================================================
