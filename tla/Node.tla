-------------------------------- MODULE Node ---------------------------------
(***************************************************************************)
(* A group of replicas of one PNCounter, GList, MVRegister, AWLWWMap or    *)
(* DeltaMap (node.go, deltamap.go).  All share the replica core, which the *)
(* constructor instantiates with the state of the type; the type is chosen *)
(* when the nodes are made and never changes.                              *)
(***************************************************************************)
EXTENDS Replica

CONSTANTS Amounts,    \* PNCounter: the amounts added and subtracted
          Modulus,    \* PNCounter: counts are integers modulo this
          Values,     \* GList: the values appended
          Keys,       \* AWLWWMap and DeltaMap: the keys
          Members,    \* DeltaMap: the pairs <<key, member>>
          PushFaults, \* PNCounter and MVRegister, which never answer a digest:
                      \* what the transport may do
          MaxOps,     \* bound: MaxOps[r] local operations of r
          MapWire,    \* AWLWWMap: bound MaxWire
          MapOps,     \* DeltaMap: bound MaxOps
          MaxTotal    \* DeltaMap: bound on the operations of all replicas

ASSUME NodeAssumption ==
    /\ Amounts \subseteq Nat
    /\ Modulus \in Nat \ {0}
    /\ PushFaults \subseteq {"lose", "duplicate"}
    /\ \A e \in Members : e[1] \in Keys
    /\ MaxOps \in [Replicas -> Nat]
    /\ MapWire \in Nat
    /\ MapOps \in [Replicas -> Nat]
    /\ MaxTotal \in Nat

VARIABLES kind,                          \* the type of the nodes
          sides, asked, ops,             \* PNCounter
          items, appended,               \* GList
          current, writes,               \* MVRegister
          entries, tombs, puts, removes, \* AWLWWMap
          created, keyTombs, memberEntries, memberTombs,
          memberAdds, memberRemoves      \* DeltaMap

counterVars == <<sides, asked, ops>>
listVars == <<items, appended>>
registerVars == <<current, writes>>
mapVars == <<entries, tombs, puts, removes>>
deltaMapVars == <<created, keyTombs, memberEntries, memberTombs, memberAdds, memberRemoves>>

vars == <<shell, kind, counterVars, listVars, registerVars, mapVars, deltaMapVars>>

PN == INSTANCE PNCounter WITH Faults <- PushFaults
GL == INSTANCE GList
MV == INSTANCE MVRegister WITH Faults <- PushFaults
AW == INSTANCE AWLWWMap WITH MaxWire <- MapWire
DM == INSTANCE DeltaMap WITH
          Elems <- Members, MaxOps <- MapOps, entries <- memberEntries,
          tombs <- memberTombs, adds <- memberAdds, removes <- memberRemoves

-----------------------------------------------------------------------------
\* NewPNCounter, NewGList, NewMVRegister, NewAWLWWMap and NewDeltaMap
Init == /\ kind \in {"PNCounter", "GList", "MVRegister", "AWLWWMap", "DeltaMap"}
        /\ PN!Init
        /\ GL!Init
        /\ MV!Init
        /\ AW!Init
        /\ DM!MapInit

\* The operations and handlers of the type of the nodes.
Next == /\ \/ /\ kind = "PNCounter"
              /\ PN!Next
              /\ UNCHANGED <<listVars, registerVars, mapVars, deltaMapVars>>
           \/ /\ kind = "GList"
              /\ GL!Next
              /\ UNCHANGED <<counterVars, registerVars, mapVars, deltaMapVars>>
           \/ /\ kind = "MVRegister"
              /\ MV!Next
              /\ UNCHANGED <<counterVars, listVars, mapVars, deltaMapVars>>
           \/ /\ kind = "AWLWWMap"
              /\ AW!Next
              /\ UNCHANGED <<counterVars, listVars, registerVars, deltaMapVars>>
           \/ /\ kind = "DeltaMap"
              /\ DM!MapNext
              /\ UNCHANGED <<counterVars, listVars, registerVars, mapVars>>
        /\ UNCHANGED kind

Spec == Init /\ [][Next]_vars

-----------------------------------------------------------------------------
\* The replica core and the data of each type keep their types.
TypeOK == /\ kind = "PNCounter" => PN!TypeOK
          /\ kind = "GList" => GL!TypeOK
          /\ kind = "MVRegister" => MV!TypeOK
          /\ kind = "AWLWWMap" => AW!TypeOK
          /\ kind = "DeltaMap" => DM!MapTypeOK

\* PNCounter: no replica counts more than was asked for, whatever is repeated
\* or reordered.
NoOverCount == kind = "PNCounter" => PN!NoOverCount

\* PNCounter: an operation that a replica has recorded is counted, whatever
\* overtook it and whichever side it belongs to.
RecordedIsCounted == kind = "PNCounter" => PN!RecordedIsCounted

\* GList: a replica holds exactly the items whose dots it has recorded.
HoldsWhatItRecorded == kind = "GList" => GL!HoldsWhatItRecorded

\* GList: the answer to any digest, however stale, has every item that its
\* sender still lacks.
DigestAnswerComplete == kind = "GList" => GL!DigestAnswerComplete

\* MVRegister: a write stays until a write that superseded it is received.
ConcurrentWritesKept == kind = "MVRegister" => MV!ConcurrentWritesKept

\* MVRegister: never two values of one writer.
OneValuePerWriter == kind = "MVRegister" => MV!OneValuePerWriter

\* AWLWWMap: a put is received in vain, and an entry taken out, only because of
\* a remove that had observed it.
AddWins == [][kind = "AWLWWMap" => AW!AddWinsStep]_vars

\* AWLWWMap: the answer to any digest has the entries and the tombstones that
\* its sender lacks.
MapAnswerComplete == kind = "AWLWWMap" => AW!DigestAnswerComplete

\* DeltaMap: a member that a replica has received is still there unless a
\* remove of the member or of its key had observed it.
OnlyObservedMembersRemoved == kind = "DeltaMap" => DM!OnlyObservedAddsRemoved

\* DeltaMap: a digest that is answered gets the members, the inner tombstones
\* and the tombstones of keys that its sender lacks.
DeltaMapAnswerComplete == kind = "DeltaMap" => DM!MapAnswerComplete

\* DeltaMap: the tombstone of a key is dropped only once every peer that has
\* reported its marks has received the remove.
KeyCollectedOnlyIfReceived == [][kind = "DeltaMap" => DM!KeyCollectedStep]_vars
=============================================================================
