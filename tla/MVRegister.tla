----------------------------- MODULE MVRegister ------------------------------
(***************************************************************************)
(* MVRegister: a replicated register that keeps concurrent values          *)
(* (mvreg.go, the alwaysMergeClock and the wrapper in node.go).  A value   *)
(* is named by the dot of its write.  A write replaces every value and     *)
(* tells peers, with its context, which ones it replaces.                  *)
(***************************************************************************)
EXTENDS Replica

CONSTANT MaxOps       \* bound: MaxOps[r] writes of r

VARIABLES current,    \* current[r]: the values that r holds
          writes      \* history: every write, its context and what its issuer
                      \* had received

vars == <<shell, current, writes>>

Delta == [dot : Dot, ctx : VClock]

WriteDelta(d, ctx) == [dot |-> d, ctx |-> ctx]

-----------------------------------------------------------------------------
Init == /\ ShellInit
        /\ current = [r \in Replicas |-> {}]
        /\ writes = {}

\* EntryMeta and TombstoneMeta answer false, so trackKey never finds anything.
Present(r) == FALSE

\* MVRegister.Write: the context is the marks, the write's own dot included.
Write(r) ==
    /\ local[r] < MaxOps[r]
    /\ StampDot(r)
    /\ current' = [current EXCEPT ![r] = {NextDot(r)}]
    /\ TrackKey(r, "", Present(r))
    /\ Propagate(r, WriteDelta(NextDot(r), hwm'[r]))
    /\ writes' = writes \cup {[dot |-> NextDot(r), ctx |-> hwm'[r],
                               seen |-> [s \in Replicas |-> Covered(r, s)]]}
    /\ UNCHANGED <<known, peerHWMs>>

\* MVRegister.Write when the codec fails: the dot is used up, nothing is sent.
WriteFails(r) ==
    /\ local[r] < MaxOps[r]
    /\ StampDot(r)
    /\ UNCHANGED <<tracked, known, peerHWMs, wire, digests, current, writes>>

\* Seeded fault: the value that arrives replaces what is there.
ApplyLast(r, d) == {d.dot}

\* Seeded fault: nothing is pruned.
ApplyAll(r, d) == current[r] \cup {d.dot}

\* mvRegisterState.Apply: values that the context covers go; the delta's own
\* comes unless a later one of its writer is left.
Apply(r, d) ==
    LET surviving == {e \in current[r] : e.cnt > d.ctx[e.rep]} IN
    IF \E e \in surviving : e.rep = d.dot.rep /\ e.cnt >= d.dot.cnt
    THEN surviving ELSE surviving \cup {d.dot}

\* applyDelta; alwaysMergeClock allows every delta.
ReceiveDelta(r, m) ==
    /\ m.to = r
    /\ wire' \in Remaining(wire, m)
    /\ current' = [current EXCEPT ![r] = Apply(r, m.delta)]
    /\ RecordDots(r, Singleton(m.delta.dot))
    /\ TrackKey(r, "", Present(r))
    /\ UNCHANGED <<local, known, peerHWMs, digests, writes>>

\* The context of the deltas of DeltasSince: the values at hand.
CurrentContext(r) ==
    [s \in Replicas |-> CHOOSE n \in {0} \cup {e.cnt : e \in {e \in current[r] : e.rep = s}} :
        \A e \in current[r] : e.rep = s => n >= e.cnt]

\* mvRegisterState.DeltasSince
DeltasSince(r, peerHWM) ==
    {WriteDelta(e, CurrentContext(r)) : e \in {e \in current[r] : e.cnt > peerHWM[e.rep]}}

\* sendDigests; the register has no tombstones to collect.
SendDigests(r) ==
    /\ BroadcastDigest(r)
    /\ UNCHANGED <<local, hwm, pending, tracked, known, peerHWMs, wire, current, writes>>

ReceiveDigest(r, m) ==
    /\ AnswerDigest(r, m, DeltasSince(r, m.hwm))
    /\ UNCHANGED <<current, writes>>

Lose == (LoseDelta \/ LoseDigest) /\ UNCHANGED <<current, writes>>

Next == \/ \E r \in Replicas : Write(r)
        \/ \E r \in Replicas : WriteFails(r)
        \/ \E r \in Replicas, m \in wire : ReceiveDelta(r, m)
        \/ \E r \in Replicas : SendDigests(r)
        \/ \E r \in Replicas, m \in digests : ReceiveDigest(r, m)
        \/ Lose

Spec == Init /\ [][Next]_vars

-----------------------------------------------------------------------------
\* The replica core and the data keep their types; pending counters are positive.
TypeOK ==
    /\ local \in [Replicas -> Nat]
    /\ hwm \in [Replicas -> VClock]
    /\ pending \in [Replicas -> [Replicas -> SUBSET (Nat \ {0})]]
    /\ tracked \in [Replicas -> SUBSET {""}]
    /\ known \in [Replicas -> SUBSET Replicas]
    /\ peerHWMs \in [Replicas -> [Replicas -> VClock]]
    /\ wire \subseteq [to : Replicas, via : {"push", "sync"}, delta : Delta]
    /\ digests \subseteq [to : Replicas, from : Replicas, hwm : VClock, empty : BOOLEAN]
    /\ current \in [Replicas -> SUBSET Dot]
    /\ writes \subseteq [dot : Dot, ctx : VClock, seen : [Replicas -> SUBSET Nat]]

Received(r, d) == d.cnt \in Covered(r, d.rep)

\* w was written by a replica that had received v before.
Supersedes(w, v) == w.dot # v.dot /\ v.dot.cnt \in w.seen[v.dot.rep]

\* README.md:155: the register "preserves all concurrent writes until a
\* subsequent write resolves the conflict".  A write that a replica has
\* received is among its values unless the replica has also received a write
\* that supersedes it, in whatever order they came.
ConcurrentWritesKept ==
    \A r \in Replicas : \A v \in writes :
        Received(r, v.dot) =>
            \/ v.dot \in current[r]
            \/ \E w \in writes : Received(r, w.dot) /\ Supersedes(w, v)

\* A replica never holds two values of one writer, although the marks in a
\* context stop at the first gap: the values number at most the replicas.
OneValuePerWriter ==
    \A r \in Replicas : \A d, e \in current[r] : d.rep = e.rep => d = e
=============================================================================
