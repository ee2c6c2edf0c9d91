------------------------------ MODULE PNCounter ------------------------------
(***************************************************************************)
(* PNCounter: a replicated counter that goes up and down (pncounter.go,    *)
(* the alwaysMergeClock and the wrapper in node.go).  Two sides, each a    *)
(* count per replica with the dot of the operation that brought it there.  *)
(* A delta carries the new count of one side; the larger count wins.       *)
(***************************************************************************)
EXTENDS Replica

CONSTANTS Amounts,    \* the amounts passed to Increment and Decrement
          MaxOps,     \* bound: MaxOps[r] operations of r
          Modulus     \* counts are unsigned integers modulo this (2^64)

VARIABLES sides,      \* sides[r][i][s]: r's entry for s on side i
          asked,      \* history: asked[i][r], what r was asked to add on side i
          ops         \* history: every delta written so far

vars == <<shell, sides, asked, ops>>

Side == {"inc", "dec"}

NoEntry == [count |-> 0, dot |-> NoDot]

Delta == [side : Side, rep : Replicas, count : Nat, dot : Dot]

\* encodePNDelta
PNDelta(i, s, e) == [side |-> i, rep |-> s, count |-> e.count, dot |-> e.dot]

-----------------------------------------------------------------------------
Init == /\ ShellInit
        /\ sides = [r \in Replicas |-> [i \in Side |-> [s \in Replicas |-> NoEntry]]]
        /\ asked = [i \in Side |-> [r \in Replicas |-> 0]]
        /\ ops = {}

\* pnCounterState.Increment and Decrement: the entry of r's side afterwards.
Added(r, i, amount) ==
    [count |-> (sides[r][i][r].count + amount) % Modulus, dot |-> NextDot(r)]

\* EntryMeta and TombstoneMeta answer false, so trackKey never finds anything.
Present(r) == FALSE

\* PNCounter.Increment (side "inc") and PNCounter.Decrement (side "dec")
Update(r, i, amount) ==
    /\ local[r] < MaxOps[r]
    /\ StampDot(r)
    /\ sides' = [sides EXCEPT ![r][i][r] = Added(r, i, amount)]
    /\ TrackKey(r, "", Present(r))
    /\ Propagate(r, PNDelta(i, r, Added(r, i, amount)))
    /\ asked' = [asked EXCEPT ![i][r] = @ + amount]
    /\ ops' = ops \cup {PNDelta(i, r, Added(r, i, amount))}
    /\ UNCHANGED <<known, peerHWMs>>

\* Seeded fault: what is known for the other side is lost.
ApplyOneSide(r, d) ==
    IF d.count > sides[r][d.side][d.rep].count
    THEN [i \in Side |-> [sides[r][i] EXCEPT ![d.rep] =
             IF i = d.side THEN [count |-> d.count, dot |-> d.dot] ELSE NoEntry]]
    ELSE sides[r]

\* Seeded fault: the count is added as if it were an amount.
ApplyAdding(r, d) ==
    [sides[r] EXCEPT ![d.side][d.rep] = [count |-> @.count + d.count, dot |-> d.dot]]

\* pnCounterState.Apply
Apply(r, d) ==
    IF d.count > sides[r][d.side][d.rep].count
    THEN [sides[r] EXCEPT ![d.side][d.rep] = [count |-> d.count, dot |-> d.dot]]
    ELSE sides[r]

\* applyDelta; alwaysMergeClock allows every delta.
ReceiveDelta(r, m) ==
    LET d == m.delta IN
    /\ m.to = r
    /\ wire' \in Remaining(wire, m)
    /\ sides' = [sides EXCEPT ![r] = Apply(r, d)]
    /\ RecordDots(r, Singleton(d.dot))
    /\ TrackKey(r, "", Present(r))
    /\ UNCHANGED <<local, known, peerHWMs, digests, asked, ops>>

\* pnCounterState.DeltasSince
DeltasSince(r, peerHWM) ==
    {PNDelta(p[1], p[2], sides[r][p[1]][p[2]]) : p \in
        {p \in Side \X Replicas :
            LET d == sides[r][p[1]][p[2]].dot IN d # NoDot /\ d.cnt > peerHWM[d.rep]}}

\* sendDigests; the counter has no tombstones to collect.
SendDigests(r) ==
    /\ BroadcastDigest(r)
    /\ UNCHANGED <<local, hwm, pending, tracked, known, peerHWMs, wire>>
    /\ UNCHANGED <<sides, asked, ops>>

ReceiveDigest(r, m) ==
    /\ AnswerDigest(r, m, DeltasSince(r, m.hwm))
    /\ UNCHANGED <<sides, asked, ops>>

Lose == (LoseDelta \/ LoseDigest) /\ UNCHANGED <<sides, asked, ops>>

Next == \/ \E r \in Replicas, i \in Side, a \in Amounts : Update(r, i, a)
        \/ \E r \in Replicas, m \in wire : ReceiveDelta(r, m)
        \/ \E r \in Replicas : SendDigests(r)
        \/ \E r \in Replicas, m \in digests : ReceiveDigest(r, m)
        \/ Lose

Spec == Init /\ [][Next]_vars

\* The ticker fires again and again; a transport may lose messages but not
\* every one of those that it is given over and over.
Fairness ==
    \A r \in Replicas :
        /\ WF_vars(SendDigests(r))
        /\ \A s \in Peers(r) :
            /\ SF_vars(\E m \in wire :
                 m.delta.rep = s /\ ReceiveDelta(r, m) /\ wire' # wire)
            /\ SF_vars(\E m \in digests :
                 m.from = s /\ ReceiveDigest(r, m) /\ digests' # digests)

FairSpec == Spec /\ Fairness

-----------------------------------------------------------------------------
\* The replica core and the data keep their types; pending counters are positive
\* (Record ignores counter 0, received.go:30-32).
TypeOK ==
    /\ local \in [Replicas -> Nat]
    /\ hwm \in [Replicas -> VClock]
    /\ pending \in [Replicas -> [Replicas -> SUBSET (Nat \ {0})]]
    /\ tracked \in [Replicas -> SUBSET {""}]
    /\ known \in [Replicas -> SUBSET Replicas]
    /\ peerHWMs \in [Replicas -> [Replicas -> VClock]]
    /\ wire \subseteq [to : Replicas, via : {"push", "sync"}, delta : Delta]
    /\ digests \subseteq [to : Replicas, from : Replicas, hwm : VClock, empty : BOOLEAN]
    /\ sides \in [Replicas -> [Side -> [Replicas -> [count : Nat, dot : Dot \cup {NoDot}]]]]
    /\ asked \in [Side -> [Replicas -> Nat]]
    /\ ops \subseteq Delta

\* Neither side of any replica ever counts more than its owner was asked to
\* add to it, and the owner counts exactly that, whatever is repeated or
\* reordered.  Holds until a count wraps around.
NoOverCount ==
    \A i \in Side, s \in Replicas :
        /\ sides[s][i][s].count = asked[i][s]
        /\ \A r \in Replicas : sides[r][i][s].count <= asked[i][s]

\* A replica that has recorded the dot of an operation counts at least what
\* that operation brought its side to: a delta that overtakes others is never
\* undone by them, and an operation of one side never hides one of the other.
RecordedIsCounted ==
    \A r \in Replicas : \A o \in ops :
        o.dot.cnt \in Covered(r, o.dot.rep) => sides[r][o.side][o.rep].count >= o.count

Converged ==
    \A i \in Side, r, s \in Replicas : sides[r][i][s].count = asked[i][s]

\* README.md:213: anti-entropy "handles lost messages"; once the operations
\* stop, every replica comes to count everything and stays so.
EventuallyConverged == <>[]Converged
=============================================================================
