# A TLA+ model of crdt-go

crdt-go is a Go library of delta-state CRDTs. This directory holds TLA+ modules
of its replication core and of its data types, TLC configurations that check
them on small instances, and proofs that TLAPS checks for every instance.
`PROJECT.json` lists components, runs, theorems, findings, the hazards of the
code, and for each definition the source lines it stands for.

## The system

| component | state | operations | what makes it correct |
|---|---|---|---|
| Dots, vector clocks (`dot.go`, `vclock.go`) | none | comparison, merge, lower bound | an order that all replicas agree on |
| Local clock (`clock.go`) | counter | `Next`, `SetCounter` | no dot is used twice |
| Received clock (`received.go`) | high-water mark and pending counters per replica | `Record`, `SetHWM`, `Covers` | the mark is exactly the contiguous prefix of what was received |
| Replica core (`replica.go`) | the above, Merkle map, marks last reported by peers | `nextDot`, `trackKey`, `applyDelta`, `propagate`, `sendDigests`, `handleSyncDigest` | marks never claim what the data lacks; every difference is found by some digest |
| Write concern (`replica.go`, `concern.go`) | ack channels of one write | `quorumSize`, `Wait` | nil means that the concern is met; the caller is not left waiting |
| GCounter, PNCounter | counts per replica | `Increment`, `Decrement` | nothing counted twice, nothing lost |
| GList | items by dot | `Append`, `Items` | every replica holds what it recorded, in causal order |
| LWWMap, LWWRegister | entry or tombstone per key | `Put`, `Remove`, `Set` | one winner per key everywhere |
| ORSet, ORMap | dots per element, tombstones, values | `Add`/`Put`, `Remove`, collection of tombstones | a remove takes out what its issuer had observed and nothing else; a value is that of a put of its key that the dots account for |
| AWLWWMap | entry or tombstone with a context per key | `Put`, `Remove` | a put beats a remove that had not seen it |
| MVRegister | values by dot | `Write` | concurrent values stay until a write that knew them |
| DeltaMap (`deltamap.go`, `mutations.go`) | an ORSet per key, tombstones of keys | `Mutate`, `RemoveKey`, collection of tombstones | as ORSet, for members and for keys |
| Merkle map (`merkle.go`) | hash per key | `Put`, `Delete`, `Hash` | equal hashes only for equal content |
| Backends (`memory.go`, `crdtbolt`) | two maps | get, put, delete, range | durable and atomic per key |
| Wire formats (`wire.go`, `encodable.go`) | none | encode, decode | round trip |

Interaction. A local operation takes the replica's mutex, stamps a dot, changes
the data, updates the Merkle map, releases the mutex and starts one goroutine
per peer that sends the delta. A received delta is parsed, offered to the type's
clock strategy, applied if allowed, and its dots are recorded *in either case*.
A ticker sends each peer a digest: the root hash and the high-water marks. The
receiver stores the marks and, unless the hashes agree, sends what the marks do
not cover. Types with tombstones drop those that lie below the marks of all
peers heard from.

What is hard here: one goroutine per message means that messages overtake one
another even over a transport that keeps order, and the transport may lose or
repeat them; digests are stale when they are used; a push and an answer to a
digest may both carry the same delta; the codec may fail after a dot was used
up; a process may stop between the two transactions of one write and start
again with its data and without its clocks; `Wait` races with sends, acks and
the caller's context.

## Modules

`Clocks` has the pure operators. `ReceivedClock` is the received clock as a
component, `ReceivedSet` its abstract specification. `Replica` has the state and
the building blocks of the replication core; each data type extends it with its
own data and one action per operation: `GCounter`, `PNCounter`, `GList`,
`LWWMap`, `ORSet`, `MVRegister`, `AWLWWMap`. Four modules extend a data type:

* `LWWRegister` is `LWWMap` with one key and no removes;
* `DurableLWWMap` adds to `LWWMap` processes that stop and start again over a
  Bolt file: memory is lost, the two buckets are kept, and a crash may fall
  between the two transactions of applying one delta;
* `ORMap` keeps its dots and tombstones in the variables of `ORSet` and adds the
  values. `ormap.go` does not call `orset.go`, it has handlers of its own, and so
  has the module: the merge with its value, the pruning, the remove, the answer to
  a digest and the collection are written from `ormap.go`, and `ImplementsORSet`
  compares them with those written from `orset.go`;
* `DeltaMap` has an ORSet per key; the members of all of them are the elements
  `<<key, member>>` of one `ORSet`, and the tombstones of keys are new.

`Node` composes the core with one of five types, chosen at the start, by
instantiating their modules over shared core variables. `WriteResult` models
one write and those who wait for it. `MC...` modules instantiate these for TLC
and `...Proofs` modules hold the proofs.

    Clocks <- ReceivedSet <- (instance) ReceivedClock
    Clocks <- Replica <- GCounter, PNCounter, GList, MVRegister, AWLWWMap
                      <- LWWMap <- DurableLWWMap, LWWRegister
                      <- ORSet  <- ORMap (implements ORSet), DeltaMap
    Replica <- Node (instances of PNCounter, GList, MVRegister, AWLWWMap, DeltaMap)
    WriteResult

How the state corresponds:

* `local`, `hwm`, `pending`, `peerHWMs` are the fields of `replica` and
  `receivedClock`; `known` is the key set of the Go map `peerHWMs`. A Go map
  from replica to counter is a function in which 0 stands for an absent key.
* `tracked` is the key set of the Merkle map. Every instance hashes with a seed
  of its own (`merkle.go:22-27`), so the root hashes of two replicas agree when
  both maps are empty and otherwise, up to 64-bit collisions, do not. A digest
  therefore carries whether the map is empty.
* `wire` and `digests` are sets of messages in flight. A message is delivered,
  lost (`"lose" \in Faults`) or delivered and kept (`"duplicate" \in Faults`);
  the order is arbitrary.
* `entries` and `tombs` are the two maps of a backend. Keys and elements are
  model values; byte layouts are left out. A value is a model value in `LWWMap`
  and `GList`; in `ORMap` and `MVRegister` the dot of the write names it (`vals`,
  `current`), in `AWLWWMap` it never parts from its dot and is left out.
* In `DeltaMap`, `created` is the key set of the Go map `entries`, `keyTombs` is
  its `tombstones`. `trackKey` asks `EntryMeta`, which looks the *key* up among
  the members of the key's own set (`deltamap.go:63`): the model has that, and the
  instances have a member called like the key and one that is not.
* `asked`, `written`, `appended`, `adds`, `puts`, `removes`, `writes`, `ops` and
  `counted` are history variables that only properties read.

Every handler runs under the mutex and is one action, including the trailing
`trackKey`. In `WriteResult` there is no mutex: the sending goroutine and both
selects of `Wait` are separate steps, and a select with two ready cases may take
either. A topology is fixed: every replica has all others as peers.

Definitions with the comment "Seeded fault" are mutated forms of the definition
below them. `PROJECT.json` pairs every checked property with one that it catches.

## Runs

Passing runs.

| run | checks |
|---|---|
| `received_clock` | marks are exact; `Record` covers its counter and nothing else; the received clock refines `ReceivedSet`, for every order and repetition of 5 counters of 2 replicas and every value given to `SetHWM` |
| `gcounter` | no over-count, marks backed by counts, reported marks sound, answers to digests complete, counts never go down; with lost and repeated messages the replicas come to count everything and stay so |
| `lwwmap` | one writer per key and a reader that restarts: a recorded write is reflected, agreement once all is received, reached in the end |
| `orset` | held dots are received adds, only observed adds are removed, answers complete, tombstones collected only if received |
| `ormap` | a key shows a value exactly while it has a dot, the value of a put of that key which the dots held cover or which a remover had observed; without values the handlers of `ormap.go` do what those of `orset.go` do |
| `node` | per type. PNCounter: no over-count on either side, a recorded operation is counted. GList: a replica holds exactly the items it recorded, answers complete. MVRegister: a write stays until one that superseded it is received, one value per writer. AWLWWMap: a put loses only to a remove that had observed it, answers complete. DeltaMap: members go only by a remove, of the member or of its key, that had observed them; answers complete; tombstones of keys collected only if received |
| `write_result` | nil from `Wait` means that the documented concern is met; the loop never runs out; `Wait` returns when its context expires and when all peers have acked |

Runs that find a disagreement between the code and what it says of itself (the
findings in `PROJECT.json` have the lines):

| run | what it shows |
|---|---|
| `lwwregister_conflict` | two writers of one register (or of one key of a map) end with different values, both having received both writes: the local clock is not advanced past received dots, and a local write is not compared with what it replaces |
| `orset_reorder` | the merge of two tombstones' contexts is computed and discarded, so an older remove that arrives late undoes a newer one |
| `deltamap_late_add` | an add that the remover of a key had seen, but that arrives after the remove, is taken up: the key's tombstone is stored and never consulted |
| `pncounter_repair` | anti-entropy never sends a PNCounter's deltas |
| `write_result_quorum` | `Wait` is stuck behind one slow peer although a quorum has acked |

Bounds, all named in the modules: `MaxWire` (deltas in flight when more are
sent), `MaxDigests` (digests of one replica in flight), `MaxOps` or `MaxTotal`
(local operations). Two replicas with two operations at one of them and one at
the other are enough for gaps, stale digests, late copies and concurrent
operations; `orset`, `ormap` and `node` have these. `orset` and, but for the
AWLWWMap, `node` have `MaxWire = 1`, so that pushes overtake one another and meet
answers in flight. In `ormap` and for the AWLWWMap of `node` (`MapWire`) it is 0:
a push waits until nothing is in flight, and gaps and late copies come from loss
and from the answers to stale digests alone. In `node` the transport also repeats
messages of the two types whose deltas are never sent a second time in answer to
a digest (`PushFaults`; PNCounter and MVRegister), and a DeltaMap has two
operations in all, by one replica or by two, on two members of one key. Runs with
liveness need a `MaxWire` so large that it never blocks a step for good, and pay
for it with operations: `gcounter` increments by 1 or 2 up to 2 at one replica and
by 0 at both (a gap that is never filled, a repeated delta of count 0), and
`lwwmap` has two writes of one key by one replica and one restart of the other.
The safety properties of the passing runs do not depend on these bounds: they are
proved. With two replicas the minimum over the marks of several peers is trivial in
TLC's runs, and no peer stays unheard of at the moment of a collection; the proofs
have any number of replicas. `write_result` has all topologies of up to three peers (odd and even
clusters) and two calls.

Deadlock is checked, but not in `WriteResult`, which ends when the calls have
returned, nor in `orset_reorder`, where anti-entropy is off (`MaxDigests = 0`) and
the system stops once its operations are used up.

Fairness. `runAntiEntropy` is a ticker loop, hence weak fairness of
`SendDigests`. The library leaves delivery to the user's transport; the liveness
properties assume that it does not lose every one of the messages of a kind that
are sent again and again (strong fairness of receiving a delta of one origin or
key, and a digest of one sender). Local operations are not fair: they stop. In
`WriteResult` only the library's own goroutines are fair; sends may hang, peers
may never ack and contexts may never expire.

`lwwmap` gives every key one writer: with several writers the replicas do not
agree (`lwwregister_conflict`), so that is the condition under which the map's
other properties hold. Only the reader restarts: a writer that does starts again
with counter 0 and uses its dots a second time. The agreement of replicas of an
`ORSet`, `ORMap`, `MVRegister` or `DeltaMap` is likewise not a passing property:
`orset_reorder`, `deltamap_late_add` and the list below say how it fails. The
properties of removes are stated in the direction that holds (nothing goes that
was not observed).

Also seen in the code, without a run of its own (see the hazards):

* a second copy of an add that arrives after the element was removed and its
  tombstone collected brings the element back, for good (`orset.go:293`);
* the value of an ORMap's key goes by the greatest dots of both sides before the
  tombstone prunes them, so that two replicas with the same dots may show
  different values (`ormap.go:251`); the value of a pruned dot is passed on beside
  another dot, so that among three replicas one may show the value of a put that
  it never received. `ValueBacked` allows this, since a remove had observed that
  put, and no run shows it;
* a superseded value of an MVRegister that arrives late, or a second time, is
  taken up beside the one that superseded it (`mvreg.go:171`), and like a
  PNCounter's its deltas are never sent again (`mvreg.go:96`);
* members of a DeltaMap are normally not in the Merkle map, so that lost adds are
  sent again only if the map also has the tombstone of a key (`deltamap.go:63`);
  `DeltaMapAnswerComplete` is about digests whose hashes differ, and does not speak
  of those that are not answered;
* inner tombstones of a DeltaMap are never collected and keep a removed key's
  entry, and `HasKey`, alive (`deltamap.go:156`, against `README.md:92`);
* two concurrent calls of `Close` may close the channel twice (`replica.go:89`);
* a remove's context is the contiguous mark, which leaves out adds that its
  issuer received beyond a gap (`node.go:113`, `orset.go:57-59`);
* tombstones are collected without regard to peers not heard from
  (`replica.go:242`, `interfaces.go:61-63`);
* a GCounter's count wraps around at 2^64 and then goes down (`gcounter.go:25`);
* `Items` of a GList sorts by counters that do not follow causality
  (`glist.go:89`, `glist.go:9-10`);
* a call of `Wait` that times out has consumed ack channels, so that a second
  call may never reach its quorum (`replica.go:349`).

## Proofs

Every invariant and every safety action property that a passing run checks is also
a theorem, for every set of replicas, keys and values, every set of faults and
every bound; so are the two refinements.

`ClocksProofs` has the lemmas on clocks: the loop of `advanceHWM` ends at the first
mark whose successor is missing (a least-element argument over bounded pending
sets), what `Record` does to a mark and its pending set, which dots `Surviving`
keeps and `CombineDots` joins.

`ReceivedClockProofs`: `TypeCorrect`, `HWMExact`, `RecordExact`, `Refinement`. The
inductive invariant adds to the types that the counter after a mark is never
pending; without it `Record` could leave a mark short. `SetHWM` is unconditional
(`received.go:105-108`): with a smaller counter it takes the mark down and forgets
what the mark stood for. `ReceivedSet!Snapshot` says just that much: a snapshot may
replace what was received without a gap, and nothing beyond a gap is lost. In the
use its comment describes, initializing from a known state, there is nothing to
forget; nothing in the program calls it.

`ReplicaProofs` has what all types share. `CoreInv`: nothing is recorded beyond what
its replica has stamped, the counter after a mark is not pending, and what a peer
reported (in a digest in flight or stored) it still covers, because marks never go
down. One lemma per building block shows that it preserves this; `OldDots` that a
new dot is new to everybody; `UnreportedIfLacking` that a dot a peer has not
received is above the marks it ever reported, which makes answers to stale digests
complete; `MinHWMReceived` that what lies below the minimum over the known peers
each of them has received, which makes collection of tombstones safe. `ClockInv`
leaves reported marks out: a restarted process has forgotten what it had received.

`GCounterProofs`: `TypeCorrect`, `NeverOverCounts`, `MarksBacked`, `MarksSound`,
`AnswersComplete`, `CountsMonotone`, under the hypothesis `NoWrap` (no replica is
asked to add the modulus or more; without it a count goes down when it wraps).
`IInv` joins: a replica's own count is what it was asked to add and bounds all
others and all deltas; marks and pending counters are bounded by counts (a refused
delta is never larger than the count at hand); stored counts are tracked.

`ORSetProofs`, for `ORSet`: `HeldAreReceived`, `UnobservedAddsStay`,
`AnswersComplete`, `CollectionSafe`. The core of the argument is what a tombstone's
context is: the marks of some remove of the element, which cover what the remover
had received and the remove's own dot, and that dot is no add's. So what a context
prunes was observed. Since the code stores the context of the tombstone that
arrived and the greater dot, the two fields of one tombstone may belong to two
removes; `SetInv` says of each of them alone that it belongs to a remove.

`ORSetProofs`, for `ORMap`: `ValuesBacked`, `MapKeysObserved`, `Refinement`. `SetInv`
holds of the map's dots as it stands. Values travel beside the dots of other puts,
and `MapInv` says of each, stored or in flight, that its put is covered by the dots
beside it or was observed by a remove of the key. That the value is that of a
*received* put holds for two replicas and fails with three: one that receives the
merged dots of two puts with the value of the pruned one has never recorded that
put. The refinement compares two translations: `MergedDots` shows that merging
with an absent entry or a present one leaves `orset.go`'s dots, `MapReceived` that
`applyPut` and `applyRemove` store what `applyAdd` and `applyRemove` of the set do,
`MapCollects` that the same tombstones go. It maps the deltas in flight to
deltas without values; two deltas that differ in their values only become one, so
that receiving one of them leaves the other: hence the abstract transport may also
repeat deltas. `MaxWire` compares cardinalities of `wire` and of its image, which
is why `ORMapAssumption` asks for finite sets of replicas and elements.

`NodeProofs`, per type. Each type is an instance over shared variables, and a lemma
per type (`GLCore`, `PNCore`, ...) shows that its copy of the core is `Replica`'s.

* GList: dots name one item each, and an item is taken up in the step that records
  its dot. `ListHoldsWhatItRecorded`, `ListAnswersComplete`.
* PNCounter: the larger count wins although the count carries the dot of an
  operation; that loses nothing, because the operations of one replica on one side
  have increasing counts. `CounterNeverOverCounts` and `CounterCountsRecorded` have
  the hypothesis `NoWrap`: amounts times operations stay below the modulus. The types
  need no such hypothesis (`CounterTyped`).
* MVRegister: a context covers what its writer had received and the write's own dot,
  a write had seen the earlier ones of its writer, and the Merkle map is always
  empty, so that no delta comes from `DeltasSince`, whose contexts are of another
  kind. `RegisterKeepsConcurrent`, `RegisterOnePerWriter`.
* AWLWWMap: a tombstone's context covers only puts its remover had observed, and
  entries are received puts. `MapAddsWin`, `MapAnswersComplete`.
* DeltaMap: every context (of an inner tombstone, of a key's tombstone, of a delta)
  is that of a remove of the member, or of removes of all members of the key; the
  dots of removes are stamped and no add's; a step of one replica leaves the others
  sound. `MembersObserved`, `DeltaMapAnswersComplete`, `KeyCollectionSafe`.

`LWWMapProofs`: `RecordedReflected` and `Agreement` for `DurableLWWMap`, under
`SteadyWriters`: each key has one writer, and its process does not stop. Neither part
can be left out: `lwwregister_conflict` shows two writers apart, and a writer that
starts again uses its dots a second time. The invariant says that where a crash left
a key with an entry and a tombstone the entry is the newer one, and that a process
which may stop has stamped nothing.

`WriteResultProofs`: `QuorumSizeResult`, `MajoritiesMeet`, `TypeCorrect`,
`WaitHonoursConcern`, `WaitLoopBounded`, for every finite cluster, every write
concern and any number of concurrent calls of `Wait`. The invariant says that an
ack channel is in `ackCh` at most once and never again after it was taken, so that
the number of counted acks is the number of distinct peers.

Assumptions are the named `ASSUME`s of the modules: replica ids are naturals, bounds
are naturals, faults are loss and duplication, those that restart are replicas, the
cluster of a `WriteResult` is finite, and `ORMapAssumption`. `NoWrap` and
`SteadyWriters` are hypotheses of the theorems that need them; the instances that TLC
checks satisfy them.

Only model-checked: liveness under fairness (`EventuallyConverged`,
`EventuallyAgree`, `ExpiryEndsWait`, `AllAckedEndsWait`), which is out of the
prover's reach, and the violations.

## Not modelled

* Bytes: wire formats, codecs (only their failure is), malformed messages. They
  are layout; a delta is a record.
* Reads (`Get`, `Range`, `Items`, `Query`): they change nothing. What they would
  return is what the properties speak of.
* Failing Bolt transactions (their errors are dropped) and `Snapshot`; restarts of
  a replica that writes, and of types other than `LWWMap`.
* `Close` and the start of the ticker. `WithAntiEntropyInterval(0)` is documented
  to disable anti-entropy (`store.go:94-98`), but `newReplica` takes 0 for the
  default (`replica.go:59-61`).
* Topology changes: every replica has all others as peers throughout.
* A third replica for the collection of tombstones: out of TLC's reach with the
  messages of anti-entropy in flight.

## Plan

1. Done: every data type, the replica core, write results, restarts over a
   durable backend; every safety property of the passing runs and both refinements
   proved.
2. Next, in this order: `LWWRegister` as an instance of the argument of
   `LWWMapProofs`; what `MaxDot` and `DotGT` promise (a strict total order on dots, so
   that the winner does not depend on the order of arrival); that received marks and
   reported marks never go down, for every type, as action properties; shorter proofs
   of the steps that the types of `Node` share.
