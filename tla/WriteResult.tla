----------------------------- MODULE WriteResult -----------------------------
(***************************************************************************)
(* One write and those who wait for it (replica.go: propagate, quorumSize, *)
(* WriteResult.Wait).  propagate starts a goroutine per peer, which passes *)
(* the ack channel that Send returned on through ackCh; Wait takes the ack *)
(* channels out one at a time, in the order in which the Sends returned,   *)
(* and waits on each before it takes the next.  Several calls of Wait, at  *)
(* once or one after another, share ackCh.                                 *)
(***************************************************************************)
EXTENDS Integers, FiniteSets, Sequences

CONSTANTS Cluster,    \* the peers that a topology may consist of
          Concerns,   \* the write concerns to consider
          Calls       \* the calls of Wait

ASSUME WriteResultAssumption ==
    /\ IsFiniteSet(Cluster)
    /\ Concerns \subseteq {"WLocal", "WMajority", "WAll"}

VARIABLES concern,    \* the configured write concern
          peers,      \* the topology when the delta was propagated
          stage,      \* stage[p]: how far the goroutine that sends to p is
          acked,      \* the peers whose ack channel is closed
          needed,     \* WriteResult.needed
          ackCh,      \* WriteResult.ackCh: the peers whose channels it holds
          expired,    \* the calls whose context is done
          wait,       \* wait[c]: where call c is
          got,        \* got[c], received[c]: the counters of call c
          received,
          on,         \* on[c]: the peer whose ack channel c took last
          counted     \* history: the acks that call c has counted

calling == <<wait, got, received, on, counted>>
vars == <<concern, peers, stage, acked, needed, ackCh, expired, calling>>

-----------------------------------------------------------------------------
\* Seeded fault: the local replica's own ack is expected from a peer.
QuorumSizeOfPeers(w, peerCount) ==
    IF w = "WMajority" THEN (peerCount + 1) \div 2 + 1
    ELSE IF w = "WAll" THEN peerCount ELSE 0

\* quorumSize
QuorumSize(w, peerCount) ==
    LET majority == (peerCount + 1) \div 2 + 1
        fromPeers == IF majority - 1 > peerCount THEN peerCount ELSE majority - 1
    IN  IF w = "WMajority" THEN fromPeers
        ELSE IF w = "WAll" THEN peerCount ELSE 0

\* propagate has started its goroutines and returned the WriteResult.  The
\* messages of a write without a quorum have no ack and are not followed.
Init ==
    /\ concern \in Concerns
    /\ peers \in SUBSET Cluster
    /\ needed = QuorumSize(concern, Cardinality(peers))
    /\ stage = [p \in peers |-> IF needed = 0 THEN "plain" ELSE "sending"]
    /\ acked = {}
    /\ ackCh = << >>
    /\ expired = {}
    /\ wait = [c \in Calls |-> "idle"]
    /\ got = [c \in Calls |-> 0]
    /\ received = [c \in Calls |-> 0]
    /\ on = [c \in Calls |-> {}]
    /\ counted = [c \in Calls |-> {}]

Enter(p, from, to) == stage[p] = from /\ stage' = [stage EXCEPT ![p] = to]

\* Transport.Send returns an ack channel, or nil when it fails.
SendReturns(p) == /\ Enter(p, "sending", "returned") \/ Enter(p, "sending", "failed")
                  /\ UNCHANGED <<concern, peers, acked, needed, ackCh, expired, calling>>

\* The channel has room for every peer, so this never blocks.
PassOn(p) == /\ Enter(p, "returned", "queued")
             /\ ackCh' = Append(ackCh, p)
             /\ UNCHANGED <<concern, peers, acked, needed, expired, calling>>

\* The transport closes the ack channel, at any time from Send on, or never.
Ack(p) == /\ stage[p] \in {"returned", "queued", "taken"}
          /\ acked' = acked \cup {p}
          /\ UNCHANGED <<concern, peers, stage, needed, ackCh, expired, calling>>

\* The context of a call is cancelled or its deadline passes.
Expire(c) == /\ expired' = expired \cup {c}
             /\ UNCHANGED <<concern, peers, stage, acked, needed, ackCh, calling>>

-----------------------------------------------------------------------------
\* Wait: return at once if no acks are needed.
Call(c) == /\ wait[c] = "idle"
           /\ wait' = [wait EXCEPT ![c] = IF needed = 0 THEN "nil" ELSE "polling"]
           /\ UNCHANGED <<concern, peers, stage, acked, needed, ackCh, expired>>
           /\ UNCHANGED <<got, received, on, counted>>

\* The outer select takes the next ack channel.
Take(c) == /\ wait[c] = "polling"
           /\ ackCh # << >>
           /\ Enter(Head(ackCh), "queued", "taken")
           /\ ackCh' = Tail(ackCh)
           /\ received' = [received EXCEPT ![c] = @ + 1]
           /\ on' = [on EXCEPT ![c] = {Head(ackCh)}]
           /\ wait' = [wait EXCEPT ![c] = "acking"]
           /\ UNCHANGED <<concern, peers, acked, needed, expired, got, counted>>

\* Seeded fault: a channel counts as an ack.
CanCountAlways(c) == TRUE

\* The inner select finds the channel it waits on closed.
CanCount(c) == on[c] \subseteq acked

\* Seeded fault: one ack more than needed is waited for.
CountBeyond(c) ==
    /\ wait[c] = "acking"
    /\ CanCount(c)
    /\ got' = [got EXCEPT ![c] = @ + 1]
    /\ counted' = [counted EXCEPT ![c] = @ \cup on[c]]
    /\ wait' = [wait EXCEPT ![c] = IF got[c] + 1 > needed THEN "nil" ELSE "polling"]
    /\ UNCHANGED <<concern, peers, stage, acked, needed, ackCh, expired, received, on>>

Count(c) == /\ wait[c] = "acking"
            /\ CanCount(c)
            /\ got' = [got EXCEPT ![c] = @ + 1]
            /\ counted' = [counted EXCEPT ![c] = @ \cup on[c]]
            /\ wait' = [wait EXCEPT ![c] = IF got[c] + 1 >= needed THEN "nil" ELSE "polling"]
            /\ UNCHANGED <<concern, peers, stage, acked, needed, ackCh, expired, received, on>>

\* Seeded fault: the inner select has no case for the context.
WaitingStatesOuter == {"polling"}

\* Either select finds the context done; it may, even if the other case is
\* ready too.
WaitingStates == {"polling", "acking"}

TimeOut(c) == /\ wait[c] \in WaitingStates
              /\ c \in expired
              /\ wait' = [wait EXCEPT ![c] = "ErrQuorumTimeout"]
              /\ UNCHANGED <<concern, peers, stage, acked, needed, ackCh, expired>>
              /\ UNCHANGED <<got, received, on, counted>>

Next == \/ \E p \in peers : SendReturns(p) \/ PassOn(p) \/ Ack(p)
        \/ \E c \in Calls : Expire(c) \/ Call(c) \/ Take(c) \/ Count(c) \/ TimeOut(c)

Spec == Init /\ [][Next]_vars

\* The goroutines run: a returned channel is passed on, and a call of Wait
\* with a ready case takes one.  Nothing is assumed of Send, of the peers or
\* of the contexts.
Fairness == /\ \A p \in Cluster : WF_vars(p \in peers /\ PassOn(p))
            /\ \A c \in Calls : WF_vars(Take(c) \/ Count(c) \/ TimeOut(c))

FairSpec == Spec /\ Fairness

-----------------------------------------------------------------------------
\* Types; no write asks for more acks than it has peers (quorumSize).
TypeOK ==
    /\ concern \in Concerns
    /\ peers \subseteq Cluster
    /\ stage \in [peers -> {"plain", "sending", "failed", "returned", "queued", "taken"}]
    /\ acked \subseteq peers
    /\ needed \in 0..Cardinality(peers)
    /\ ackCh \in Seq(peers)
    /\ expired \subseteq Calls
    /\ wait \in [Calls -> {"idle", "polling", "acking", "nil", "ErrQuorumTimeout"}]
    /\ got \in [Calls -> Nat]
    /\ received \in [Calls -> Nat]
    /\ on \in [Calls -> SUBSET peers]
    /\ counted \in [Calls -> SUBSET peers]

\* concern.go:16-23: a call that returns nil has the acks of every peer
\* (WAll), or of so many that with the local replica they are more than half
\* of the cluster (WMajority).  One ack is never counted for two channels,
\* although calls share the channel and a peer may ack before it is waited on.
ConcernSatisfied ==
    \A c \in Calls : wait[c] = "nil" =>
        /\ concern = "WAll" => acked = peers
        /\ (concern = "WMajority" /\ peers # {}) =>
             2 * (Cardinality(acked) + 1) > Cardinality(peers) + 1

\* A call that is still looping has channels left to receive: the loop never
\* runs out with too few acks, so its exit (replica.go:363-366) is not taken.
LoopNeverExhausted ==
    \A c \in Calls : wait[c] = "polling" => received[c] < Cardinality(peers)

Returned(c) == wait[c] \in {"nil", "ErrQuorumTimeout"}

\* A call whose context expires returns, whatever the transport and the
\* peers do: no caller is left waiting on an ack channel that never closes.
ExpiryEndsWait ==
    \A c \in Calls : (wait[c] # "idle" /\ c \in expired) ~> Returned(c)

\* If every peer acks, a call returns before its context expires, unless
\* another call has taken some of the ack channels away from it.
AllAckedEndsWait ==
    \A c \in Calls : (wait[c] # "idle" /\ acked = peers) ~>
        (Returned(c) \/ c \in expired \/ \E d \in Calls \ {c} : on[d] # {})

\* replica.go:335: "Wait blocks until the write concern quorum is reached or
\* ctx expires."
QuorumEndsWait ==
    \A c \in Calls : (wait[c] # "idle" /\ Cardinality(acked) >= needed)
                        ~> (Returned(c) \/ c \in expired)
=============================================================================
