# TLA+ models of the ipfs-embed address book

This directory holds the formal models of `src/src/net/peers.rs`: the
`AddressBook` libp2p `NetworkBehaviour`, the event bus it owns, and the `Rtt`
estimator. It contains TLA+ modules, TLC configurations that model-check
them on small instances, and TLAPS proofs for every value of the constants.

## The system

`AddressBook` is a single-threaded state machine. The libp2p `Swarm` owns it
and drives it from one task, so no two of its methods run at once. Its
parts are:

| part | code (peers.rs) | role |
|---|---|---|
| Peer registry and address store | `peers: FnvHashMap<PeerId, PeerInfo>`, `add_address` 282–300, `remove_address` 302–308, `set_rtt` 326–339, `set_info` 341–347, `addresses_of_peer` 393–399 | per-peer addresses, each tagged with its `AddressSource`; identify and RTT snapshots |
| Connection tracker | `connections` 231; `inject_connection_established` 427–443, `inject_address_change` 445–463, `inject_connection_closed` 465–480, `is_connected` 318–320 | one remote address per connected peer |
| Event bus | `event_stream` 233, `swarm_events` 349–353, `notify` 355–359, `SwarmEvents` 375–383 | unbounded channels; dropped receivers are pruned on the next notify |
| Dial and retry policy | `dial` 270–280, `inject_addr_reach_failure` 482–510, `inject_dial_failure` 512–533 | queue `DialPeer{Disconnected}`; prune failing addresses; redial while addresses remain; otherwise `Unreachable` and forget the peer |
| Action queue | `actions` 234, `poll` 403–413 | FIFO queue handed to the Swarm |
| Rtt estimator | `Rtt` 105–132 | decaying averages with α = 3/10 and 1/10 in integer nanoseconds |
| Listener and external-address callbacks | 535–580 | one gauge move plus one event each; the book is untouched |
| Metrics | 163–175, 361–372 | prometheus gauges and counters, process-wide statics |

They interact as follows:
- The application and the discovery behaviours (mDNS, Kademlia) call `add_address` and `dial`.
- The Swarm polls the action queue, dials the addresses `addresses_of_peer` returns, and reports the outcome through the `inject_*` callbacks.
- Those callbacks update the registry and the tracker, and notify events to every live subscriber.

## Modules

- **`Rtt`** models the three `Rtt` functions as operators over natural-number nanoseconds.
  - `Duration * 7 / 10` is exact multiplication then a floor division. The division is exact to the nanosecond because 10 divides 10^9.
  - The `u32` failure counter is a natural number. Wrapping would need 2^32 consecutive ping failures.
- **`AddressBook`** models the struct as one record variable, `book`, plus the event bus:
  - `chan[s]` is the channel behind subscriber `s`'s sender.
  - `rxLive` is the set of receivers not yet dropped.
  - `view[s]` is the set of known peers that the application holding `s` derives from `Discovered`/`Unreachable`.

  Each `&mut self` method is an operator `XxxOp(b, ...)` that returns the new book and the events it notifies (`Out`). `Commit` is `notify`: it appends the events to every live channel and retains only the live senders. Each method and callback is one action with any arguments, because the spec promises every entry point is total.

  Data is abstracted as follows:
  - A `Multiaddr` is its first segment plus its trailing `/p2p` peer. Segments are split into the sets `Ip4Public`, `Ip4Loopback` and `NonIp4`, which is exactly what `is_loopback` and `normalize_addr` distinguish.
  - Identify info is an opaque value.
  - An event is its kind and its peer.
- **`Swarm`** extends `AddressBook` with the runtime that drives it. That runtime is libp2p code outside this repository, modelled from spec §4.4 and §6:
  - `attempt[p]` is the set of addresses an ongoing dial still has to try. `PollDial` creates it from `addresses_of_peer`, unless `p` is connected or already being dialed; in that case the addresses are merged in, as `DialPeerCondition::Disconnected` does. An empty list calls `inject_dial_failure` at once.
  - `conns[p]` is the set of raw remote addresses of open connections. Inbound connections have no `/p2p` suffix.
  - Callbacks the Swarm makes back to back are one step:
    - the last `addr_reach_failure`, then `dial_failure`;
    - `connection_established`, then `connected` on the first connection;
    - `connection_closed`, then `disconnected` on the last connection.
  - Listeners and external addresses: `lstate[id]` (idle, open, closed), `laddrs[id]` and `external`. A listener is created once, reports and expires addresses, may report errors, and on close the runtime first expires each of its addresses, then reports the close (one step, `ListenerClosed`).
  - `gauge` holds the six `IntGauge` statics. Every callback result is notified through `MCommit`, which also moves the gauges.
- **`Metrics`** models where the code moves each gauge. Every `inc`/`dec` sits next to the `notify` of one event kind in the same branch, so `IncOf[g]`/`DecOf[g]` list those kinds and `Moved` moves each gauge by the number of its events a step notifies. `CountKinds(es, K)` is that number: the count of positions of `es` whose event has a kind in `K`, the same as the length of the `SelectSeq` of those events, and stated as a cardinality so that the provers can reason about it. Nothing is in `IncOf["discovered"]`, and nothing moves `"connections"`: that is the code. The counters are left out (see below).
- **`Registry`** is the abstract specification of the peer registry: `reg[p]` is the address store of a known peer. It changes in three ways only: `Learn` (a new address, with its source), `Unlearn` (one address; the record stays) and `Forget` (a peer whose store is empty, only when pruning). `AddressBook` instantiates it with `reg <- Registered`, the `addresses` field of every `PeerInfo`, and `RegistryRefined == Abs!RSpec` states that the book implements it.
- **`AddressBook_proofs`** holds the TLAPS proofs about the book; **`Observer_proofs`** those about the subscribers of `swarm_events`; **`Swarm_proofs`** those about the book driven by the runtime; **`Gauges_proofs`** the type of the runtime's state and the accuracy of the gauges; **`Rtt_proofs`** the arithmetic of `Rtt::register`.
- **`MC_*`** modules give model values to the constants for TLC.

## Runs

| run | cfg | expect | what it shows |
|---|---|---|---|
| book_observer | MC_AddressBook.cfg | pass | `TypeOK`; `ObserverConsistent`: every live subscriber, once it has read the events already sent, believes a peer known exactly when the registry holds it |
| | | | `NotifyExact` (action property, same run): a step sends `Discovered(p)` only when it creates `p`'s record, and `Unreachable(p)` only for a held peer, which it removes exactly when pruning |
| book_registry | MC_AddressBook_registry.cfg | pass | `RegistryRefined`: every behaviour of the book is one of `Registry` (first writer wins, one address at a time, forget only once emptied by pruning) |
| swarm_dial | MC_Swarm_dial.cfg | pass | `TrackerSound`: the tracked address is the normalized address of an open connection |
| swarm_dial_outcome | MC_Swarm_outcome.cfg | pass | `DialOutcome`: every dial ends with the peer connected or forgotten |
| swarm_gauges | MC_Swarm_gauges.cfg | pass | `GaugesAccurate`: CONNECTED, LISTENERS, LISTEN_ADDRS and EXTERNAL_ADDRS equal what they count |
| swarm_discovered_gauge | MC_Swarm_discovered.cfg | violation | `DiscoveredGauge` fails: DISCOVERED stays 0 when add_address registers a peer (no `inc` anywhere). That it then goes below 0 on `Unreachable` (line 527) follows from the code but is not in the trace |
| swarm_connections_gauge | MC_Swarm_connections.cfg | violation | `ConnectionsGauge` fails: CONNECTIONS is registered but never moved |
| swarm_ipv6_connection | MC_Swarm_known.cfg | violation | `ConnectedPeerKnown` fails: with loopback disabled, a connection from an IPv6 address is tracked, but the peer has no record |
| swarm_forget_connected | MC_Swarm_forget.cfg | violation | `ConnectedPeerKnown` fails: `inject_dial_failure` deletes a peer that is connected |
| swarm_two_connections | MC_Swarm_multi.cfg | violation | `TrackerComplete` fails: closing one of two connections clears `is_connected` |
| rtt_drift | MC_Rtt.cfg | pass | `NoDrift`: the integer averages stay below the exact ones, by less than 6 ns for decay_3 and less than 18 ns for decay_10 |
| rtt_converge | MC_Rtt_converge.cfg | violation | `ConvergesToSample` fails: a constant 5 ns stream leaves decay_3 at 3 and decay_10 at 0 |

The violation runs are recorded as findings in `PROJECT.json`.

**Bounds.**
- MC_AddressBook has three peers (the local one and two remote), one public and one non-IPv4 location, one subscriber, and channels and the action queue of length at most 1 (`StateBound`). The seven listener callbacks are represented by one of them (`MC_LocalEventKinds`): they forward an event no observer reads. Every guard of every method is reached:
  - the local peer is rejected;
  - loopback addresses are rejected;
  - existing addresses are kept;
  - known and unknown peers are handled;
  - `prune_addresses` is on;
  - receivers are dropped between notifications.
- book_observer is reduced by the symmetry of the two remote peers (`MC_PeerSymmetry`). Nothing in the code orders or names `PeerId`s, and every property quantifies over all peers, so the reduction is sound.
- book_observer also checks `NotifyExact`, which is about what a step appends to a live channel and so needs a subscriber. A mutant of `add_address` that sends `Discovered` whenever the *address* is new passes `ObserverConsistent`, because the belief does not change, but breaks `NotifyExact`.
- book_registry uses the same instance with no subscriber (events change nothing the refinement reads), all seven listener callbacks, and two address sources, so that a second report of an address with another source happens.
- MC_Swarm_dial has two remote peers and two public locations. At most 4 environment steps bring an address (`MaxEnvAdds`), which allows an address added during a dial followed by a redial. At most one dial is queued. The liveness run swarm_dial_outcome uses 2 such steps, because fairness checking costs far more per state than safety checking (3 steps take close to 4 minutes). Two still allow the case that matters: one address is known when the dial starts, a second arrives during the attempt, and `inject_dial_failure` redials for it. The mutant that redials every known peer loops forever at this bound.
- MC_Swarm_gauges has one remote peer reachable at two locations (so two connections at once), 3 environment steps, two listeners with two listen addresses each and one external address.
- MC_Rtt feeds five samples from {0, 1, 5, 9, 19, 99} and compares them with the exact rational averages, scaled by 10^n.

**Fairness.** `SSpec` assumes weak fairness on `PollDial` and on the end of each peer's dial attempt:
- The Swarm's task polls the behaviour whenever it is woken.
- The transport's timeouts end every address's attempt.

The application and the network (adds, inbound connections, closes) get no fairness.

## Proofs

`AddressBook_proofs` proves, for every value of the constants satisfying the module's `ASSUME`s:
- **`TypeCorrect`**: `Spec => []TypeOK`.
  - There is one lemma per method (`AddAddressOK`, `ConnectOK`, `DialFailureOK`, ...). Each shows that the method maps a well-formed book to a well-formed `Out`.
  - `CommitOK` shows that `notify` keeps the state well typed.
  - `TypeOK` is inductive on its own because the method lemmas carry the needed facts.
- **`RegistryRefinement`**: `Spec => RegistryRefined`, i.e. `AddressBook` implements `Registry` under the refinement mapping `reg <- Registered`.
  - `InitRefines`: `AddressBook::new` starts with the empty registry.
  - `RStep(r, r2)` restates a step of `Registry` between two registries, so that a method can be related to the book it leaves without primes. `StepIsAbstract` shows that `RStep` between `Registered` and `Registered'` is `[Abs!RNext]_Registered`.
  - One lemma per method: `AddAddressStep` (a `Learn` exactly when `contains_key` fails, else nothing), `RemoveAddressStep` (`Unlearn`), `ConnectStep` (through `add_address`), `AddrReachFailureStep` (`Unlearn` or nothing), `DialFailureStep` (a redial changes nothing; otherwise, pruning, the peer's store is empty because the redial branch was not taken, so the removal is a `Forget`). `CommitPeers` shows that `notify` does not touch the peers map.
  - `NextRefines` combines them over every disjunct of `Next`. The invariant needed is `TypeOK` (a well-formed book): its maps are functions over their key sets, which the `Learn` case needs. The refinement implies that no source is ever overwritten (first writer wins): `Learn` adds only an address the peer does not have.

`Swarm_proofs` proves, for every value of the constants:
- **`TrackerSoundThm`**: `SSpec => []TrackerSound`. Whenever `is_connected` names a peer, the Swarm holds a connection to it at the tracked address (normalized). This holds whatever order connections open, change address and close in.
  - `TrackerSound` alone is not inductive. The strengthening `SInv` adds three things:
    - `TypeOK`;
    - the runtime's `attempt` and `conns` are sets of addresses per remote peer;
    - `LInv`: each listener's address set is finite. `ListenerClosed` expires `Cardinality(laddrs[id])` addresses, and that is a number only for a finite set.
  - `SInitInv` and `SNextInv` show that `SInv` is inductive. `SNextInv` uses one lemma per kind of runtime step:
    - `PollDialInv`;
    - `AttemptFailInv`;
    - `EstablishedInv`, for a successful dial and for an inbound connection;
    - `CloseInv`;
    - `AddressChangeInv`;
    - `ListenerInv`.
  - The application's calls are steps of `AddressBook`'s `Next`. `NextTypeOK` covers them, and the lemmas `OpsKeepConnections` and `CommitConnections` show that they leave the tracker alone.
  - The argument turns on three callbacks. `connection_established` and `address_change` `Put` the normalized address of a connection that the runtime has just added to `conns[p]`. `connection_closed` removes `p` from the tracker, so a peer with other connections still open is no longer tracked at all. That is why the converse, `TrackerComplete`, fails: run `swarm_two_connections`.

`Observer_proofs` proves, for every value of the constants:
- **`ObserverConsistentThm`**: `Spec => []ObserverConsistent`.
  - The inductive invariant is `IInv == TypeOK /\ ObserverInv /\ ObserverConsistent`. `ObserverInv` is the strengthening, defined in `Observer_proofs`. It is not a property of its own: its first conjunct restates what `swarm_events` and `notify` do, and its second holds of every finite sequence. It is what the provers need to carry the argument. The run book_observer checks `TypeOK` and `ObserverConsistent`.
  - `ObserverConsistent` alone is not inductive, for two reasons:
    - A `notify` reaches a subscriber only if its sender is in `event_stream`. `ObserverInv`'s first conjunct says every live receiver's sender is there: `swarm_events` adds both at once, and `notify` retains every sender whose receiver lives.
    - What a subscriber will believe (`Belief`) is decided by the *last* pending event that changes `p`. Without induction over sequences the provers cannot show that a finite set of positions has a maximum, so `HasLast` states it for every channel. It is preserved by every append (`AppendQuiet`, `AppendChange`) and every read (`ReceiveBelief`).
  - `Transfers(es, D, D2)` says: appending `es` to a channel that agrees with the registry domain `D` makes it agree with `D2`. It holds for:
    - the empty result;
    - a quiet event;
    - `Discovered(q)` with `D2 = D \cup {q}`;
    - `Unreachable(q)` with pruning and `D2 = D \ {q}`;
    - and it is closed under concatenation.
  - Each method's result transfers from the book it starts from to the book it leaves (`AddAddressObs`, `ConnectObs`, `DialFailureObs`, ...). `CommitObs` carries this through `notify`.
- **`NotifyExactThm`**: `Spec => NotifyExact`. `ExactOut(b, o)` says that result `o` names `Discovered(p)` only if `o` creates `p`'s record, and `Unreachable(p)` only if `p` is held and removed exactly when pruning.
  - One lemma per method: `AddAddressExact`, `ConnectExact`, `DialFailureExact`; every other result has a quiet event or none.
  - `CommitExact`: the events a step appends past the old end of a live channel are exactly the result's (`ConcatPast`).
  - `NoSend`: steps that lengthen no live channel send nothing.
  - The invariant needed is `TypeOK`.

`Gauges_proofs` proves, for every value of the constants:
- **`GaugesAccurateThm`**: `SSpec => []GaugesAccurate`. Whatever order connections and listeners open and close in, each gauge equals the size of the set it counts: peers with an open connection, open listeners, reported listen addresses, and external addresses.
  - The inductive invariant is `GInv`. It is `SInv` plus the following:
    - the address budget lies in `0..MaxEnvAdds`;
    - the gauges are integers;
    - the listener state and the external addresses are typed (the type of the whole runtime state, proved on the way);
    - the four counted sets are finite;
    - `GaugesAccurate` itself.
  - The finiteness conjuncts matter. Nothing assumes that the constant sets are finite, so the invariant must carry it: a gauge equals a `Cardinality`, and a `Cardinality` is a number only for a finite set.
  - Before the proof, TLC checked `GInv` as an invariant on the gauges and dial instances.
  - The argument splits the events a step notifies in two:
    - `Quiet` events move no gauge. These are the book's own results (`BookKindsQuiet`, `AddAddressQuiet`, `ConnectQuiet`, `FailureQuiet`).
    - Each gauge-moving callback appends at most one event of a counted kind after quiet ones. `MovedLast` then gives the move exactly.
  - `ListenerClosed` notifies `Cardinality(laddrs[id])` expiries and then the close. `ClosingEvents`/`CountRun` count these without induction: the positions of a kind form the interval `1..n`. `PairsOfListener` shows that the listener's pairs in `ListenPairs` are exactly that many.
  - One lemma per runtime step: `PollDialG`, `AttemptFailG`, `EstablishedG`, `CloseG`, `AddressChangeG`, `UserAddAddressG`, `NewListenerG`, `ListenAddrG`, `ExternalAddrG` and `ListenerClosedG`. `StillStep` covers steps that move nothing. `SNextG` combines them over `SNext`.

`Rtt_proofs` proves:
- **`RegisterNoDrift`**: for every estimate, every sample `d` and every scale `P`, if the exact averages scaled by `P` lie within `[0, 6P)` and `[0, 18P)` above `decay_3` and `decay_10`, then after `Rtt::register` they lie within `[0, 60P)` and `[0, 180P)` above the new ones scaled by `10P`.
  - The error after a sample is the old error times 7 (resp. 9) plus two truncation remainders times `P`, each remainder being a digit (`DecayStep`). This is `NoDrift`'s inductive step with `10^n` left abstract.
- **`NoDriftThm`**: `PowersOfTen => (Spec => []NoDrift)` for the harness `MC_Rtt`, for every set of samples and every number of them. The inductive invariant `RInv` is the types plus `NoDrift`; TLC checks it on the rtt_drift instance.
  - The hypothesis `PowersOfTen` (`10^(k+1) = 10 * 10^k`) is a fact of arithmetic that the provers have no axioms for. The library's own `2^(n+1)` lemma is left unproved for the same reason.

What stays model-checked only, and why:
- `DialOutcome` is liveness under fairness. TLAPS does not reach liveness or `ENABLED`.

## Not modelled

- The three `IntCounter`s (`LISTENER_ERROR`, `ADDRESS_REACH_FAILURE`, `DIAL_FAILURE`). They only grow, no property reads them, and counting them would make every state space infinite.
- `register_metrics`: setup, with no state of the book.
- That the gauges are process-wide statics shared by every `AddressBook` of the process: the model has one book.
- The addresses and listener ids that listener events carry: no property reads them.
- Tracing and logging.
- The tests.

## Plan for further work

1. Runs with `prune_addresses = false` and with loopback enabled.
2. Theorems about the `"discovered"` and `"connections"` gauges once the code counts them: today they are not accurate (runs swarm_discovered_gauge and swarm_connections_gauge).
3. The Swarm refining a per-peer dial state machine (spec §4.4's implicit states).
