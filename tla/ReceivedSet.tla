----------------------------- MODULE ReceivedSet -----------------------------
(***************************************************************************)
(* What a receivedClock promises: it is a set of received counters for     *)
(* each replica, and its high-water mark is the largest N such that all    *)
(* of 1..N are in that set (received.go:3-9).                              *)
(***************************************************************************)
EXTENDS Clocks

CONSTANT MaxCounter   \* bound: counters above it are not enumerated

VARIABLE seen         \* seen[r]: the counters of r received so far

\* N is the contiguous prefix of S.
IsPrefix(S, N) == 1..N \subseteq S /\ N + 1 \notin S

Init == seen = [r \in Replicas |-> {}]

Receive(r, c) == seen' = [seen EXCEPT ![r] = @ \cup {c}]

\* The counters of r that were received beyond a gap.
BeyondGap(r) == {c \in seen[r] : \E g \in 1..c : g \notin seen[r]}

\* A snapshot holds every counter up to n.  It stands in for what was received
\* without a gap; nothing else is forgotten.
Snapshot(r, n) ==
    \E kept \in SUBSET seen[r] :
        /\ BeyondGap(r) \subseteq kept
        /\ seen' = [seen EXCEPT ![r] = kept \cup 1..n]

Next == \E r \in Replicas : \/ \E c \in 1..MaxCounter : Receive(r, c)
                            \/ \E n \in 0..MaxCounter : Snapshot(r, n)

Spec == Init /\ [][Next]_seen
=============================================================================
