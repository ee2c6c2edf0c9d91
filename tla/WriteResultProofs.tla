-------------------------- MODULE WriteResultProofs --------------------------
(***************************************************************************)
(* Proofs about WriteResult for every cluster and every number of calls of *)
(* Wait.  A call counts acks of distinct peers because each ack channel    *)
(* passes through ackCh once: what is in ackCh is marked "queued" and is   *)
(* there once, what a call took is marked "taken" and is there no more.    *)
(***************************************************************************)
EXTENDS WriteResult, FiniteSetTheorems, TLAPS

\* ackCh holds every queued ack channel at most once.
ChannelOnce ==
    /\ \A i \in 1..Len(ackCh) : stage[ackCh[i]] = "queued"
    /\ \A i, j \in 1..Len(ackCh) : ackCh[i] = ackCh[j] => i = j

\* What call c has taken and counted.
CallOK(c) ==
    /\ counted[c] \subseteq acked
    /\ \A p \in counted[c] \cup on[c] : stage[p] = "taken"
    /\ IsFiniteSet(counted[c]) /\ Cardinality(counted[c]) = got[c]
    /\ wait[c] = "idle" => got[c] = 0 /\ received[c] = 0
    /\ wait[c] = "polling" => got[c] < needed /\ received[c] = got[c]
    /\ wait[c] = "acking" =>
         /\ got[c] < needed
         /\ received[c] = got[c] + 1
         /\ \E p \in peers : on[c] = {p} /\ p \notin counted[c]
    /\ wait[c] = "nil" => got[c] >= needed

\* needed is set once, from the topology of the write.
NeededOK == needed = QuorumSize(concern, Cardinality(peers))

IInv == TypeOK /\ NeededOK /\ ChannelOnce /\ \A c \in Calls : CallOK(c)

-----------------------------------------------------------------------------
\* The acks that quorumSize asks for: never more than there are peers, all of
\* them for WAll, and with the local replica more than half of the cluster for
\* WMajority, however many peers there are.
THEOREM QuorumSizeResult ==
    ASSUME NEW n \in Nat, NEW w \in {"WLocal", "WMajority", "WAll"}
    PROVE  /\ QuorumSize(w, n) \in 0..n
           /\ QuorumSize("WAll", n) = n
           /\ 2 * (QuorumSize("WMajority", n) + 1) > n + 1
<1>1. (n + 1) \div 2 \in Nat /\ 2 * ((n + 1) \div 2) <= n + 1 /\ 2 * ((n + 1) \div 2) + 1 >= n + 1
  OBVIOUS
<1>2. CASE w = "WMajority"  BY <1>1, <1>2 DEF QuorumSize
<1>3. CASE w = "WAll"  BY <1>1, <1>3 DEF QuorumSize
<1>4. CASE w = "WLocal"  BY <1>1, <1>4 DEF QuorumSize
<1> QED  BY <1>1, <1>2, <1>3, <1>4 DEF QuorumSize

\* Any two majorities of a cluster meet: two writes whose Wait returned nil
\* under WMajority, wherever they were issued in a cluster of n replicas, have
\* a replica in common that holds both.
THEOREM MajoritiesMeet ==
    ASSUME NEW S, IsFiniteSet(S), S # {},
           NEW A \in SUBSET S, NEW B \in SUBSET S,
           Cardinality(A) >= QuorumSize("WMajority", Cardinality(S) - 1) + 1,
           Cardinality(B) >= QuorumSize("WMajority", Cardinality(S) - 1) + 1
    PROVE  A \cap B # {}
<1>1. /\ IsFiniteSet(A) /\ IsFiniteSet(B) /\ IsFiniteSet(A \cup B)
      /\ Cardinality(A \cup B) <= Cardinality(S)
  <2>1. IsFiniteSet(A) /\ IsFiniteSet(B)  BY FS_Subset
  <2>2. A \cup B \subseteq S  OBVIOUS
  <2> QED  BY <2>1, <2>2, FS_Subset
<1>2. /\ Cardinality(S) \in Nat /\ Cardinality(A) \in Nat /\ Cardinality(B) \in Nat
      /\ Cardinality(A \cup B) \in Nat
  BY <1>1, FS_CardinalityType
<1>3. Cardinality(S) # 0  BY FS_EmptySet
<1>4. Cardinality(S) - 1 \in Nat  BY <1>2, <1>3
<1>5. /\ QuorumSize("WMajority", Cardinality(S) - 1) \in Int
      /\ 2 * (QuorumSize("WMajority", Cardinality(S) - 1) + 1) > Cardinality(S)
  <2>1. /\ QuorumSize("WMajority", Cardinality(S) - 1) \in 0..(Cardinality(S) - 1)
        /\ 2 * (QuorumSize("WMajority", Cardinality(S) - 1) + 1) > Cardinality(S) - 1 + 1
    BY <1>4, QuorumSizeResult
  <2> QED  BY <2>1, <1>2
<1>6. Cardinality(A) + Cardinality(B) > Cardinality(S)  BY <1>2, <1>5
<1>7. Cardinality(A \cup B) = Cardinality(A) + Cardinality(B) - Cardinality(A \cap B)
  BY <1>1, FS_Union
<1>8. SUFFICES ASSUME A \cap B = {} PROVE FALSE  OBVIOUS
<1>9. Cardinality(A \cap B) = 0  BY <1>8, FS_EmptySet
<1> QED  BY <1>1, <1>2, <1>6, <1>7, <1>9

-----------------------------------------------------------------------------
\* The peers are finitely many, and the acks needed are at most as many.
LEMMA NeededBound ==
    ASSUME TypeOK
    PROVE  /\ IsFiniteSet(peers) /\ Cardinality(peers) \in Nat
           /\ needed \in Nat /\ needed <= Cardinality(peers)
<1>1. IsFiniteSet(peers)  BY FS_Subset, WriteResultAssumption DEF TypeOK
<1>2. Cardinality(peers) \in Nat  BY <1>1, FS_CardinalityType
<1> QED  BY <1>1, <1>2 DEF TypeOK

\* The WriteResult that propagate returns satisfies IInv.
LEMMA InitIInv == Init => IInv
<1> SUFFICES ASSUME Init PROVE IInv  OBVIOUS
<1>1. TypeOK
  <2>1. IsFiniteSet(peers)  BY FS_Subset, WriteResultAssumption DEF Init
  <2>2. Cardinality(peers) \in Nat  BY <2>1, FS_CardinalityType
  <2>3. concern \in {"WLocal", "WMajority", "WAll"}  BY WriteResultAssumption DEF Init
  <2>4. needed \in 0..Cardinality(peers)  BY <2>2, <2>3, QuorumSizeResult DEF Init
  <2> QED  BY <2>4 DEF Init, TypeOK
<1>2. NeededOK /\ ChannelOnce  BY DEF Init, NeededOK, ChannelOnce
<1>3. ASSUME NEW c \in Calls PROVE CallOK(c)
  <2>1. IsFiniteSet({}) /\ Cardinality({}) = 0  BY FS_EmptySet
  <2> QED  BY <2>1 DEF Init, CallOK
<1> QED  BY <1>1, <1>2, <1>3 DEF IInv

\* A step of a sending goroutine.
LEMMA SendReturnsIInv ==
    ASSUME IInv, NEW p \in peers, SendReturns(p)
    PROVE  IInv'
<1> USE DEF SendReturns, Enter, calling
<1>1. TypeOK'  BY DEF IInv, TypeOK
<1>2. ChannelOnce'
  <2>1. \A i \in 1..Len(ackCh) : ackCh[i] # p  BY DEF IInv, ChannelOnce
  <2>2. \A i \in 1..Len(ackCh) : ackCh[i] \in peers  BY DEF IInv, TypeOK
  <2> QED  BY <2>1, <2>2 DEF IInv, ChannelOnce, TypeOK
<1>3. ASSUME NEW c \in Calls PROVE CallOK(c)'
  BY DEF IInv, CallOK, TypeOK
<1> QED  BY <1>1, <1>2, <1>3 DEF IInv, NeededOK

\* Passing an ack channel on keeps IInv: it is not yet in ackCh.
LEMMA PassOnIInv ==
    ASSUME IInv, NEW p \in peers, PassOn(p)
    PROVE  IInv'
<1> USE DEF PassOn, Enter, calling
<1>1. TypeOK'
  <2>1. ackCh' \in Seq(peers)  BY DEF IInv, TypeOK
  <2> QED  BY <2>1 DEF IInv, TypeOK
<1>2. ChannelOnce'
  <2>1. ackCh \in Seq(peers)  BY DEF IInv, TypeOK
  <2>2. \A i \in 1..Len(ackCh) : ackCh[i] \in peers /\ ackCh[i] # p
    BY <2>1 DEF IInv, ChannelOnce
  <2>3. /\ Len(ackCh') = Len(ackCh) + 1 /\ ackCh'[Len(ackCh) + 1] = p
        /\ \A i \in 1..Len(ackCh) : ackCh'[i] = ackCh[i]
    BY <2>1
  <2>4. \A i \in 1..Len(ackCh) : stage'[ackCh'[i]] = "queued"
    BY <2>2, <2>3 DEF IInv, ChannelOnce, TypeOK
  <2>5. stage'[p] = "queued"  BY DEF IInv, TypeOK
  <2>6. Len(ackCh) \in Nat  BY <2>1
  <2>7. \A i \in 1..Len(ackCh') : i \in 1..Len(ackCh) \/ i = Len(ackCh) + 1  BY <2>3, <2>6
  <2>8. \A i, j \in 1..Len(ackCh') : ackCh'[i] = ackCh'[j] => i = j
    BY <2>2, <2>3, <2>7 DEF IInv, ChannelOnce
  <2> QED  BY <2>3, <2>4, <2>5, <2>7, <2>8 DEF ChannelOnce
<1>3. ASSUME NEW c \in Calls PROVE CallOK(c)'
  BY DEF IInv, CallOK, TypeOK
<1> QED  BY <1>1, <1>2, <1>3 DEF IInv, NeededOK

\* An ack of a peer keeps IInv, whenever it comes.
LEMMA AckIInv ==
    ASSUME IInv, NEW p \in peers, Ack(p)
    PROVE  IInv'
<1> USE DEF Ack, calling
<1>1. TypeOK'  BY DEF IInv, TypeOK
<1>2. ChannelOnce'  BY DEF IInv, ChannelOnce
<1>3. ASSUME NEW c \in Calls PROVE CallOK(c)'  BY DEF IInv, CallOK
<1> QED  BY <1>1, <1>2, <1>3 DEF IInv, NeededOK

\* The end of a context keeps IInv.
LEMMA ExpireIInv ==
    ASSUME IInv, NEW c \in Calls, Expire(c)
    PROVE  IInv'
<1> USE DEF Expire, calling
<1>1. TypeOK'  BY DEF IInv, TypeOK
<1>2. ChannelOnce'  BY DEF IInv, ChannelOnce
<1>3. ASSUME NEW d \in Calls PROVE CallOK(d)'  BY DEF IInv, CallOK
<1> QED  BY <1>1, <1>2, <1>3 DEF IInv, NeededOK

\* Entering Wait keeps IInv.
LEMMA CallIInv ==
    ASSUME IInv, NEW c \in Calls, Call(c)
    PROVE  IInv'
<1> USE DEF Call
<1>1. TypeOK'  BY DEF IInv, TypeOK
<1>2. ChannelOnce'  BY DEF IInv, ChannelOnce
<1>3. ASSUME NEW d \in Calls PROVE CallOK(d)'
  <2>1. needed \in Nat  BY NeededBound DEF IInv
  <2> QED  BY <2>1 DEF IInv, CallOK, TypeOK
<1> QED  BY <1>1, <1>2, <1>3 DEF IInv, NeededOK

\* Taking a channel out of ackCh keeps IInv: no other call has it, and this
\* call has not counted it.
LEMMA TakeIInv ==
    ASSUME IInv, NEW c \in Calls, Take(c)
    PROVE  IInv'
<1> DEFINE p == Head(ackCh)
<1>1. ackCh \in Seq(peers) /\ ackCh # << >>  BY DEF IInv, TypeOK, Take
<1>2. Len(ackCh) \in Nat \ {0} /\ p = ackCh[1] /\ p \in peers  BY <1>1
<1>3. /\ Tail(ackCh) \in Seq(peers) /\ Len(Tail(ackCh)) = Len(ackCh) - 1
      /\ \A i \in 1..Len(Tail(ackCh)) : Tail(ackCh)[i] = ackCh[i + 1]
  BY <1>1
<1> HIDE DEF p
<1>4. /\ stage[p] = "queued" /\ stage' = [stage EXCEPT ![p] = "taken"]
      /\ ackCh' = Tail(ackCh) /\ wait[c] = "polling"
      /\ received' = [received EXCEPT ![c] = @ + 1]
      /\ on' = [on EXCEPT ![c] = {p}]
      /\ wait' = [wait EXCEPT ![c] = "acking"]
      /\ UNCHANGED <<concern, peers, acked, needed, expired, got, counted>>
  BY DEF Take, Enter, p
<1>5. TypeOK'  BY <1>2, <1>3, <1>4 DEF IInv, TypeOK
<1>6. ChannelOnce'
  <2>1. \A i \in 1..Len(ackCh') : i + 1 \in 1..Len(ackCh) /\ i + 1 # 1 /\ ackCh'[i] = ackCh[i + 1]
    BY <1>2, <1>3, <1>4
  <2>2. \A i \in 1..Len(ackCh) : ackCh[i] \in peers  BY <1>1
  <2>3. ASSUME NEW i \in 1..Len(ackCh') PROVE stage'[ackCh'[i]] = "queued"
    <3>1. i + 1 \in 1..Len(ackCh) /\ 1 \in 1..Len(ackCh) /\ i + 1 # 1
      BY <1>2, <2>1
    <3>2. ackCh[i + 1] # p /\ stage[ackCh[i + 1]] = "queued"
      BY <1>2, <3>1 DEF IInv, ChannelOnce
    <3>3. stage'[ackCh[i + 1]] = stage[ackCh[i + 1]]
      <4>1. ackCh[i + 1] \in peers /\ DOMAIN stage = peers
        BY <2>2, <3>1 DEF IInv, TypeOK
      <4> QED  BY <1>4, <3>2, <4>1
    <3> QED  BY <2>1, <3>2, <3>3
  <2>4. \A i, j \in 1..Len(ackCh') : ackCh'[i] = ackCh'[j] => i = j
    BY <2>1 DEF IInv, ChannelOnce
  <2> QED  BY <2>3, <2>4 DEF ChannelOnce
<1>7. ASSUME NEW d \in Calls PROVE CallOK(d)'
  <2>1. CallOK(d)  BY DEF IInv
  <2>2. p \notin counted[d]  BY <1>4, <2>1 DEF CallOK
  <2>3. \A q \in peers : stage[q] = "taken" => stage'[q] = "taken"
    BY <1>4 DEF IInv, TypeOK
  <2>4. stage'[p] = "taken"  BY <1>2, <1>4 DEF IInv, TypeOK
  <2>5. counted[d] \subseteq peers /\ on[d] \subseteq peers /\ received[d] \in Nat
    BY DEF IInv, TypeOK
  <2>6. CASE d = c
    <3>1. on'[d] = {p} /\ wait'[d] = "acking" /\ received'[d] = received[d] + 1
      BY <1>4, <2>6 DEF IInv, TypeOK
    <3> QED  BY <1>2, <1>4, <2>1, <2>2, <2>3, <2>4, <2>5, <2>6, <3>1 DEF CallOK
  <2>7. CASE d # c
    <3>1. on'[d] = on[d] /\ wait'[d] = wait[d] /\ received'[d] = received[d]
      BY <1>4, <2>7 DEF IInv, TypeOK
    <3> QED  BY <1>4, <2>1, <2>3, <2>5, <3>1 DEF CallOK
  <2> QED  BY <2>6, <2>7
<1> QED  BY <1>4, <1>5, <1>6, <1>7 DEF IInv, NeededOK

\* Counting an ack keeps IInv: it is one that the call had not counted yet.
LEMMA CountIInv ==
    ASSUME IInv, NEW c \in Calls, Count(c)
    PROVE  IInv'
<1>1. TypeOK'  BY DEF IInv, TypeOK, Count
<1>2. ChannelOnce'  BY DEF IInv, ChannelOnce, Count
<1>3. ASSUME NEW d \in Calls PROVE CallOK(d)'
  <2>1. CallOK(d)  BY DEF IInv
  <2>2. CASE d = c
    <3>1. PICK p \in peers : on[c] = {p} /\ p \notin counted[c]
      BY <2>1, <2>2 DEF CallOK, Count
    <3>2. /\ counted'[c] = counted[c] \cup {p} /\ got'[c] = got[c] + 1 /\ p \in acked
          /\ wait'[c] = IF got[c] + 1 >= needed THEN "nil" ELSE "polling"
          /\ UNCHANGED <<stage, acked, needed, received, on, peers>>
      BY <3>1 DEF IInv, TypeOK, Count, CanCount
    <3>3. IsFiniteSet(counted'[c]) /\ Cardinality(counted'[c]) = Cardinality(counted[c]) + 1
      BY <2>1, <2>2, <3>1, <3>2, FS_AddElement DEF CallOK
    <3>4. got[c] \in Nat /\ needed \in Nat  BY NeededBound DEF IInv, TypeOK
    <3>5. received[c] = got[c] + 1  BY <2>1, <2>2 DEF CallOK, Count
    <3>6. \A q \in counted'[c] \cup on'[c] : stage'[q] = "taken"
      BY <2>1, <2>2, <3>1, <3>2 DEF CallOK
    <3>7. counted'[c] \subseteq acked'  BY <2>1, <2>2, <3>2 DEF CallOK
    <3>8. Cardinality(counted'[c]) = got'[c]  BY <2>1, <2>2, <3>2, <3>3 DEF CallOK
    <3> QED  BY <2>2, <3>2, <3>3, <3>4, <3>5, <3>6, <3>7, <3>8 DEF CallOK
  <2>3. CASE d # c
    <3>1. counted'[d] = counted[d] /\ got'[d] = got[d] /\ wait'[d] = wait[d]
      BY <2>3 DEF IInv, TypeOK, Count
    <3> QED  BY <2>1, <3>1 DEF CallOK, Count
  <2> QED  BY <2>2, <2>3
<1> QED  BY <1>1, <1>2, <1>3 DEF IInv, NeededOK, Count

\* Giving up keeps IInv.
LEMMA TimeOutIInv ==
    ASSUME IInv, NEW c \in Calls, TimeOut(c)
    PROVE  IInv'
<1> USE DEF TimeOut
<1>1. TypeOK'  BY DEF IInv, TypeOK
<1>2. ChannelOnce'  BY DEF IInv, ChannelOnce
<1>3. ASSUME NEW d \in Calls PROVE CallOK(d)'  BY DEF IInv, CallOK, TypeOK
<1> QED  BY <1>1, <1>2, <1>3 DEF IInv, NeededOK

\* The bookkeeping of ack channels and counters is right in every reachable
\* state, for any cluster, write concern and number of calls of Wait.
THEOREM InductiveInvariant == Spec => []IInv
<1>1. Init => IInv  BY InitIInv
<1>2. IInv /\ [Next]_vars => IInv'
  <2> SUFFICES ASSUME IInv, [Next]_vars PROVE IInv'  OBVIOUS
  <2>1. ASSUME NEW p \in peers, SendReturns(p) \/ PassOn(p) \/ Ack(p) PROVE IInv'
    BY <2>1, SendReturnsIInv, PassOnIInv, AckIInv
  <2>2. ASSUME NEW c \in Calls,
               Expire(c) \/ Call(c) \/ Take(c) \/ Count(c) \/ TimeOut(c)
        PROVE  IInv'
    BY <2>2, ExpireIInv, CallIInv, TakeIInv, CountIInv, TimeOutIInv
  <2>3. CASE UNCHANGED vars
    BY <2>3 DEF vars, calling, IInv, NeededOK, TypeOK, ChannelOnce, CallOK
  <2> QED  BY <2>1, <2>2, <2>3 DEF Next
<1> QED  BY <1>1, <1>2, PTL DEF Spec

\* Channels and counters keep their types, and no write asks for more acks
\* than it has peers (replica.go:170-198, 310-325).
THEOREM TypeCorrect == Spec => []TypeOK
<1>1. IInv => TypeOK  BY DEF IInv
<1> QED  BY InductiveInvariant, <1>1, PTL

\* Wait returns nil only when the documented write concern is met: all peers
\* have acked for WAll, and for WMajority more than half of the cluster holds
\* the write.
THEOREM WaitHonoursConcern == Spec => []ConcernSatisfied
<1>1. IInv => ConcernSatisfied
  <2> SUFFICES ASSUME IInv, NEW c \in Calls, wait[c] = "nil"
               PROVE  /\ concern = "WAll" => acked = peers
                      /\ (concern = "WMajority" /\ peers # {}) =>
                            2 * (Cardinality(acked) + 1) > Cardinality(peers) + 1
    BY DEF ConcernSatisfied
  <2>1. /\ IsFiniteSet(peers) /\ Cardinality(peers) \in Nat
        /\ needed \in Nat /\ needed <= Cardinality(peers)
    BY NeededBound DEF IInv
  <2>2. acked \subseteq peers /\ IsFiniteSet(acked) /\ Cardinality(acked) \in Nat
        /\ Cardinality(acked) <= Cardinality(peers)
    BY <2>1, FS_Subset, FS_CardinalityType DEF IInv, TypeOK
  <2>3. CallOK(c)  BY DEF IInv
  <2>4. Cardinality(counted[c]) <= Cardinality(acked)
    BY <2>2, <2>3, FS_Subset DEF CallOK
  <2>5. needed <= Cardinality(acked)
    BY <2>1, <2>2, <2>3, <2>4 DEF CallOK, IInv, TypeOK
  <2>6. needed = QuorumSize(concern, Cardinality(peers))  BY DEF IInv, NeededOK
  <2>7. ASSUME concern = "WAll" PROVE acked = peers
    <3>1. Cardinality(acked) = Cardinality(peers)
      BY <2>1, <2>2, <2>5, <2>6, <2>7, QuorumSizeResult
    <3> QED  BY <3>1, <2>1, <2>2, FS_Subset
  <2>8. ASSUME concern = "WMajority"
        PROVE  2 * (Cardinality(acked) + 1) > Cardinality(peers) + 1
    <3>1. 2 * (needed + 1) > Cardinality(peers) + 1
      BY <2>1, <2>6, <2>8, QuorumSizeResult
    <3> QED  BY <3>1, <2>1, <2>2, <2>5
  <2> QED  BY <2>7, <2>8
<1> QED  BY <1>1, InductiveInvariant, PTL

\* The loop of Wait never runs out of channels while acks are missing.
THEOREM WaitLoopBounded == Spec => []LoopNeverExhausted
<1>1. IInv => LoopNeverExhausted
  <2> SUFFICES ASSUME IInv, NEW c \in Calls, wait[c] = "polling"
               PROVE  received[c] < Cardinality(peers)
    BY DEF LoopNeverExhausted
  <2>1. Cardinality(peers) \in Nat /\ needed \in Nat /\ needed <= Cardinality(peers)
    BY NeededBound DEF IInv
  <2>2. got[c] \in Nat /\ got[c] < needed /\ received[c] = got[c]
    BY DEF IInv, TypeOK, CallOK
  <2> QED  BY <2>1, <2>2
<1> QED  BY <1>1, InductiveInvariant, PTL
=============================================================================
