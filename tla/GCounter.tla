------------------------------ MODULE GCounter ------------------------------
(***************************************************************************)
(* GCounter: a replicated grow-only counter (gcounter.go, clock_maxwins.go *)
(* and the wrapper in node.go).  A replica's count is also the counter of  *)
(* its dots: Increment by n moves the counter by n.                        *)
(***************************************************************************)
EXTENDS Replica

CONSTANTS Amounts,    \* the amounts passed to Increment, 0 included
          MaxTotal,   \* bound: MaxTotal[r] is what r may be asked to add
          Modulus     \* counts are unsigned integers modulo this (2^64)

ASSUME GCounterAssumption ==
    /\ Amounts \subseteq Nat
    /\ MaxTotal \in [Replicas -> Nat]
    /\ Modulus \in Nat \ {0}

VARIABLES counts,     \* counts[r][s]: r's count for s; 0 when absent
          asked       \* history: what r has been asked to add so far

vars == <<shell, counts, asked>>

Delta == [rep : Replicas, count : Nat]

-----------------------------------------------------------------------------
Init == /\ ShellInit
        /\ counts = [r \in Replicas |-> EmptyClock]
        /\ asked = [r \in Replicas |-> 0]

\* gCounterState.Increment
NewCount(r, amount) == (counts[r][r] + amount) % Modulus

\* GCounter.Increment: the local clock follows the count.
Increment(r, amount) ==
    LET new == NewCount(r, amount) IN
    /\ asked[r] + amount <= MaxTotal[r]
    /\ asked' = [asked EXCEPT ![r] = @ + amount]
    /\ counts' = [counts EXCEPT ![r][r] = new]
    /\ local' = [local EXCEPT ![r] = new]
    /\ RecordDots(r, Singleton(DotOf(r, new)))
    /\ TrackKey(r, r, TRUE)
    /\ Propagate(r, [rep |-> r, count |-> new])
    /\ UNCHANGED <<known, peerHWMs>>

\* Seeded fault: only the first count of a replica is taken.
AllowsFirst(r, d) == d.rep \notin tracked[r]

\* Seeded fault: a count that arrives late overwrites a newer one.
AllowsAll(r, d) == TRUE

\* maxWinsClock.Allows: nothing stored for the key yet (every stored key is
\* tracked), or the remote count is larger.
Allows(r, d) == d.rep \notin tracked[r] \/ d.count > counts[r][d.rep]

\* Seeded fault: the count is added as if it were an amount.
AppliedAdding(r, d) == counts[r][d.rep] + d.count

\* gCounterState.Apply, when the clock allows it
Applied(r, d) == IF Allows(r, d) THEN d.count ELSE counts[r][d.rep]

\* applyDelta: the dot is recorded whether or not the delta is applied, and
\* afterwards the key has an entry in any case.
ReceiveDelta(r, m) ==
    LET d == m.delta IN
    /\ m.to = r
    /\ wire' \in Remaining(wire, m)
    /\ counts' = [counts EXCEPT ![r][d.rep] = Applied(r, d)]
    /\ RecordDots(r, Singleton(DotOf(d.rep, d.count)))
    /\ TrackKey(r, d.rep, TRUE)
    /\ UNCHANGED <<local, known, peerHWMs, digests, asked>>

\* Seeded fault: off by one at the mark.
DeltasSinceNext(r, peerHWM) ==
    {[rep |-> s, count |-> counts[r][s]] :
        s \in {s \in Replicas : counts[r][s] > peerHWM[s] + 1}}

\* gCounterState.DeltasSince
DeltasSince(r, peerHWM) ==
    {[rep |-> s, count |-> counts[r][s]] :
        s \in {s \in Replicas : counts[r][s] > peerHWM[s]}}

\* sendDigests; the counter has no tombstones to collect.
SendDigests(r) ==
    /\ BroadcastDigest(r)
    /\ UNCHANGED <<local, hwm, pending, tracked, known, peerHWMs, wire, counts, asked>>

ReceiveDigest(r, m) ==
    /\ AnswerDigest(r, m, DeltasSince(r, m.hwm))
    /\ UNCHANGED <<counts, asked>>

Lose == (LoseDelta \/ LoseDigest) /\ UNCHANGED <<counts, asked>>

Next == \/ \E r \in Replicas, a \in Amounts : Increment(r, a)
        \/ \E r \in Replicas, m \in wire : ReceiveDelta(r, m)
        \/ \E r \in Replicas : SendDigests(r)
        \/ \E r \in Replicas, m \in digests : ReceiveDigest(r, m)
        \/ Lose

Spec == Init /\ [][Next]_vars

\* The ticker fires again and again; a transport may lose messages but not
\* every one of those that it is given over and over: the counts of s sent
\* to r, and the digests of s sent to r.
Fairness ==
    \A r \in Replicas :
        /\ WF_vars(SendDigests(r))
        /\ \A s \in Peers(r) :
            /\ SF_vars(\E m \in wire :
                 m.delta.rep = s /\ ReceiveDelta(r, m) /\ wire' # wire)
            /\ SF_vars(\E m \in digests :
                 m.from = s /\ ReceiveDigest(r, m) /\ digests' # digests)

FairSpec == Spec /\ Fairness

-----------------------------------------------------------------------------
\* The replica core and the data keep their types; pending counters are positive
\* (Record ignores counter 0, received.go:30-32).
TypeOK ==
    /\ local \in [Replicas -> Nat]
    /\ hwm \in [Replicas -> VClock]
    /\ pending \in [Replicas -> [Replicas -> SUBSET (Nat \ {0})]]
    /\ tracked \in [Replicas -> SUBSET Replicas]
    /\ known \in [Replicas -> SUBSET Replicas]
    /\ peerHWMs \in [Replicas -> [Replicas -> VClock]]
    /\ wire \subseteq [to : Replicas, via : {"push", "sync"}, delta : Delta]
    /\ digests \subseteq [to : Replicas, from : Replicas, hwm : VClock, empty : BOOLEAN]
    /\ counts \in [Replicas -> VClock]
    /\ asked \in [Replicas -> Nat]

\* Every count that some replica or some message holds for s.
CountsFor(s) ==
    {counts[r][s] : r \in Replicas} \cup {m.delta.count : m \in {m \in wire : m.delta.rep = s}}

\* No replica and no delta in flight ever counts more for s than s has been
\* asked to add, and s itself counts exactly that: increments are neither
\* lost by their own replica nor counted twice by another, whatever is lost,
\* repeated or reordered.  Holds until a count wraps around.
NoOverCount ==
    \A s \in Replicas : /\ counts[s][s] = asked[s]
                        /\ \A n \in CountsFor(s) : n <= asked[s]

\* A replica never reports as received, nor keeps as pending, a counter
\* beyond the count that it holds: a mark in a digest is backed by the data.
MarkBackedByCount ==
    \A r, s \in Replicas : \A n \in Covered(r, s) : n <= counts[r][s]

\* Answering any digest, however stale, sends its sender every count in
\* which it is still behind: the comparison of hashes and the comparison
\* of marks never hide a difference.
DigestAnswerComplete ==
    \A m \in digests : \A s \in Replicas :
        counts[m.to][s] > counts[m.from][s] =>
            /\ ~SameHash(m.to, m)
            /\ [rep |-> s, count |-> counts[m.to][s]] \in DeltasSince(m.to, m.hwm)

\* A count never goes down (gcounter.go:5-6, "monotonically increasing").
CountsNeverDecrease ==
    [][\A r, s \in Replicas : counts'[r][s] >= counts[r][s]]_vars

Converged == \A r, s \in Replicas : counts[r][s] = asked[s]

\* README.md:213: anti-entropy handles lost messages; once the increments
\* stop, every replica comes to count everything and stays so.
EventuallyConverged == <>[]Converged
=============================================================================
