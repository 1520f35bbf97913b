----------------------------- MODULE AddressBook -----------------------------
(***************************************************************************)
(* The peer and address book of src/net/peers.rs (struct AddressBook) and  *)
(* the event bus it owns.                                                  *)
(*                                                                         *)
(* The struct is the record variable book; every &mut self method is an   *)
(* operator from a book to the book it leaves and the events it notifies, *)
(* so that callbacks the runtime makes back to back in one poll compose   *)
(* into one step (module Swarm).  Here the book is driven by an arbitrary  *)
(* caller: every public method and every NetworkBehaviour callback may be *)
(* called at any time with any arguments, as the spec's "all entry points *)
(* are total" promises.                                                    *)
(*                                                                         *)
(* Data abstraction: a Multiaddr is its first network segment (a member of *)
(* Ip4Public, Ip4Loopback or NonIp4) and its trailing /p2p suffix; the     *)
(* identify info is one opaque value; events carry their kind and peer.    *)
(* Metrics and tracing are left out (module Metrics covers the gauges).    *)
(***************************************************************************)
EXTENDS Naturals, Sequences, FiniteSets, Rtt

CONSTANTS
  Peers,          \* peer identities, the local one included
  LocalPeer,      \* local_peer_id
  Ip4Public,      \* first segments /ip4/<not loopback>
  Ip4Loopback,    \* first segments /ip4/127.x.x.x
  NonIp4,         \* first segments that are not /ip4 (/ip6, /dns, ...)
  EnableLoopback, \* enable_loopback
  PruneAddresses, \* prune_addresses
  Samples,        \* rtt samples (ns) a caller may pass to set_rtt
  Identities,     \* IdentifyInfo values a caller may pass to set_info
  Subscribers,    \* handles that swarm_events may hand out
  InputSources,   \* AddressSource values callers of add_address use
  NoPeer, NoInfo, NoRtt, NoSample

ASSUME PeersAssumption == LocalPeer \in Peers /\ NoPeer \notin Peers
ASSUME LocsAssumption ==
  /\ Ip4Public \cap Ip4Loopback = {}
  /\ Ip4Public \cap NonIp4 = {}
  /\ Ip4Loopback \cap NonIp4 = {}
ASSUME FlagsAssumption == EnableLoopback \in BOOLEAN /\ PruneAddresses \in BOOLEAN
ASSUME SamplesAssumption == Samples \subseteq Nat /\ NoSample \notin Nat
ASSUME SentinelAssumption == NoInfo \notin Identities /\ NoRtt \notin RttT

RemotePeers == Peers \ {LocalPeer}
Locs == Ip4Public \cup Ip4Loopback \cup NonIp4

\* enum AddressSource
Sources == {"Mdns", "Kad", "Peer", "User"}
ASSUME SourcesAssumption == InputSources \subseteq Sources

\* A Multiaddr: its first segment and the peer of its trailing /p2p, if any.
Addr == [loc: Locs, p2p: Peers \cup {NoPeer}]

\* The Event variants the book notifies about a peer.
EventKinds == {"Discovered", "DialFailure", "Unreachable", "ConnectionEstablished",
               "ConnectionClosed", "AddressChanged", "Connected", "Disconnected",
               "NewInfo"}
\* The Event variants about the local node's listeners and external
\* addresses; they name no peer.
LocalEventKinds == {"NewListener", "NewListenAddr", "ExpiredListenAddr", "ListenerError",
                    "ListenerClosed", "NewExternalAddr", "ExpiredExternalAddr"}
Event == [kind: EventKinds, peer: Peers] \cup [kind: LocalEventKinds, peer: {NoPeer}]
Ev(k, p) == [kind |-> k, peer |-> p]

-----------------------------------------------------------------------------
(* Maps (FnvHashMap) as functions whose domain is the set of keys.         *)

Put(f, k, v) == [x \in DOMAIN f \cup {k} |-> IF x = k THEN v ELSE f[x]]
MapRemove(f, k) == [x \in DOMAIN f \ {k} |-> f[x]]
EmptyMap == [x \in {} |-> NoPeer]

\* normalize_addr / normalize_addr_ref: append /p2p/<peer> unless the
\* address already ends with a /p2p segment.
Normalize(a, p) == IF a.p2p = NoPeer THEN [a EXCEPT !.p2p = p] ELSE a

\* MultiaddrExt::is_loopback: false only when the first segment is an
\* IPv4 address that is not a loopback address.
IsLoopback(a) == a.loc \notin Ip4Public

\* PeerInfo::default()
DefaultInfo == [addresses |-> EmptyMap, identify |-> NoInfo, rtt |-> NoRtt]

\* The result of a method: the book it leaves and the events it notifies.
Out(b, es) == [b |-> b, ev |-> es]

-----------------------------------------------------------------------------
(* The methods of AddressBook.                                             *)

\* is_connected
IsConnected(b, p) == p \in DOMAIN b.connections \/ p = LocalPeer

\* Mutant of DialOp: the check against dialing the local peer is dropped.
DialOpNoSelfCheck(b, p) == [b EXCEPT !.actions = Append(@, p)]

\* dial: refuse the local peer, else queue a DialPeer{Disconnected}.
DialOp(b, p) ==
  IF p = LocalPeer THEN b ELSE [b EXCEPT !.actions = Append(@, p)]

\* Mutant of AddAddressOp: discovered is read after entry().or_default()
\* has created the record, so Discovered is never notified.
AddAddressOpLateCheck(b, p, a, src) ==
  IF p = LocalPeer \/ (~EnableLoopback /\ IsLoopback(a))
  THEN Out(b, <<>>)
  ELSE LET info == IF p \notin DOMAIN b.peers THEN DefaultInfo ELSE b.peers[p]
           na == Normalize(a, p)
           info2 == IF na \in DOMAIN info.addresses THEN info
                    ELSE [info EXCEPT !.addresses = Put(@, na, src)]
       IN Out([b EXCEPT !.peers = Put(@, p, info2)], <<>>)

\* Mutant of AddAddressOp: Discovered is notified whenever the address is
\* new to the record, not when the record is.
AddAddressOpNewAddr(b, p, a, src) ==
  IF p = LocalPeer \/ (~EnableLoopback /\ IsLoopback(a))
  THEN Out(b, <<>>)
  ELSE LET info == IF p \notin DOMAIN b.peers THEN DefaultInfo ELSE b.peers[p]
           na == Normalize(a, p)
           fresh == na \notin DOMAIN info.addresses
           info2 == IF fresh THEN [info EXCEPT !.addresses = Put(@, na, src)] ELSE info
       IN Out([b EXCEPT !.peers = Put(@, p, info2)],
              IF fresh THEN <<Ev("Discovered", p)>> ELSE <<>>)

\* add_address
AddAddressOp(b, p, a, src) ==
  IF p = LocalPeer \/ (~EnableLoopback /\ IsLoopback(a))
  THEN Out(b, <<>>)
  ELSE LET discovered == p \notin DOMAIN b.peers
           info == IF discovered THEN DefaultInfo ELSE b.peers[p]
           na == Normalize(a, p)
           info2 == IF na \in DOMAIN info.addresses THEN info
                    ELSE [info EXCEPT !.addresses = Put(@, na, src)]
       IN Out([b EXCEPT !.peers = Put(@, p, info2)],
              IF discovered THEN <<Ev("Discovered", p)>> ELSE <<>>)

\* remove_address
RemoveAddressOp(b, p, a) ==
  IF p \in DOMAIN b.peers
  THEN [b EXCEPT !.peers[p].addresses = MapRemove(@, Normalize(a, p))]
  ELSE b

\* set_rtt: a sample registers (or starts) the estimate, NoSample (None)
\* registers a failure if there is an estimate; NewInfo for a known peer.
SetRttOp(b, p, r) ==
  IF p \notin DOMAIN b.peers THEN Out(b, <<>>)
  ELSE LET old == b.peers[p].rtt
           new == CASE r # NoSample /\ old # NoRtt -> RttRegister(old, r)
                    [] r # NoSample /\ old = NoRtt -> RttNew(r)
                    [] r = NoSample /\ old # NoRtt -> RttRegisterFailure(old)
                    [] r = NoSample /\ old = NoRtt -> NoRtt
       IN Out([b EXCEPT !.peers[p].rtt = new], <<Ev("NewInfo", p)>>)

\* set_info: overwrite the identify snapshot of a known peer, silently.
SetInfoOp(b, p, i) ==
  IF p \in DOMAIN b.peers THEN [b EXCEPT !.peers[p].identify = i] ELSE b

\* Mutant of ConnectOp: the tracker keeps the address as the connection
\* reported it, before normalization.
ConnectOpRawAddr(b, p, a, kind) ==
  LET r == AddAddressOp(b, p, Normalize(a, p), "Peer")
  IN Out([r.b EXCEPT !.connections = Put(@, p, a)], r.ev \o <<Ev(kind, p)>>)

\* inject_connection_established / inject_address_change: add the
\* normalized remote address as a Peer address, then make it the tracked
\* address of the peer.
ConnectOp(b, p, a, kind) ==
  LET na == Normalize(a, p)
      r == AddAddressOp(b, p, na, "Peer")
  IN Out([r.b EXCEPT !.connections = Put(@, p, na)], r.ev \o <<Ev(kind, p)>>)

\* inject_connection_closed: forget the tracked address of the peer.
ConnectionClosedOp(b, p) ==
  Out([b EXCEPT !.connections = MapRemove(@, p)], <<Ev("ConnectionClosed", p)>>)

\* inject_addr_reach_failure(Some(peer), addr, _)
AddrReachFailureOp(b, p, a) ==
  Out(IF IsConnected(b, p) \/ ~PruneAddresses THEN b ELSE RemoveAddressOp(b, p, a),
      <<Ev("DialFailure", p)>>)

\* addresses_of_peer
AddressesOfPeer(b, p) ==
  IF p \in DOMAIN b.peers THEN DOMAIN b.peers[p].addresses ELSE {}

\* Mutant of DialFailureOp: redial whenever the peer is known, whether or
\* not pruning has left it any address.
DialFailureOpRedialKnown(b, p) ==
  IF PruneAddresses /\ p \in DOMAIN b.peers
  THEN Out(DialOp(b, p), <<>>)
  ELSE IF p \in DOMAIN b.peers
       THEN Out(IF PruneAddresses THEN [b EXCEPT !.peers = MapRemove(@, p)] ELSE b,
                <<Ev("Unreachable", p)>>)
       ELSE Out(b, <<>>)

\* Mutant of DialFailureOp: no redial check, a known peer is always
\* declared unreachable and, pruning, forgotten with its addresses.
DialFailureOpNoRedial(b, p) ==
  IF p \in DOMAIN b.peers
  THEN Out(IF PruneAddresses THEN [b EXCEPT !.peers = MapRemove(@, p)] ELSE b,
           <<Ev("Unreachable", p)>>)
  ELSE Out(b, <<>>)

\* inject_dial_failure: when pruning and addresses remain (added after the
\* dial started), redial; otherwise a known peer is declared unreachable,
\* and forgotten when pruning.
DialFailureOp(b, p) ==
  IF PruneAddresses /\ AddressesOfPeer(b, p) # {}
  THEN Out(DialOp(b, p), <<>>)
  ELSE IF p \in DOMAIN b.peers
       THEN Out(IF PruneAddresses THEN [b EXCEPT !.peers = MapRemove(@, p)] ELSE b,
                <<Ev("Unreachable", p)>>)
       ELSE Out(b, <<>>)

\* inject_new_listener, inject_new_listen_addr, inject_expired_listen_addr,
\* inject_listener_error, inject_listener_closed, inject_new_external_addr,
\* inject_expired_external_addr: observe and forward, the book untouched
\* (the gauge each one moves is module Swarm's).
ObserveOp(b, kind) == Out(b, <<Ev(kind, NoPeer)>>)

-----------------------------------------------------------------------------
(* State.  book is the struct; chan[s] is the unbounded channel behind the *)
(* s-th sender of event_stream; rxLive the receivers (SwarmEvents) not yet *)
(* dropped; view[s] is what the application holding receiver s believes  *)
(* the set of known peers to be, from the events it has read so far.      *)

VARIABLES book, chan, rxLive, view

vars == <<book, chan, rxLive, view>>

\* The events a subscriber's view follows: Discovered adds the peer, and
\* Unreachable removes it "if prune_addresses == true" (doc of Unreachable).
Apply(v, e) ==
  CASE e.kind = "Discovered" -> v \cup {e.peer}
    [] e.kind = "Unreachable" /\ PruneAddresses -> v \ {e.peer}
    [] OTHER -> v

\* notify, once per event of the method's result: send to every sender
\* and retain only those whose receiver is alive.
Commit(o) ==
  LET live == o.b.event_stream \cap rxLive
  IN /\ book' = IF o.ev = <<>> THEN o.b ELSE [o.b EXCEPT !.event_stream = live]
     /\ chan' = [s \in Subscribers |-> IF s \in live THEN chan[s] \o o.ev ELSE chan[s]]

EmptyBook == [peers |-> EmptyMap, connections |-> EmptyMap,
              event_stream |-> {}, actions |-> <<>>]

\* AddressBook::new
Init ==
  /\ book = EmptyBook
  /\ chan = [s \in Subscribers |-> <<>>]
  /\ rxLive = {}
  /\ view = [s \in Subscribers |-> {}]

-----------------------------------------------------------------------------
(* Actions: one per method, with any arguments.                            *)

\* The addresses a caller may pass for peer p: with or without /p2p/<p>.
InputAddrs(p) == [loc: Locs, p2p: {NoPeer, p}]

Dial(p) == book' = DialOp(book, p) /\ UNCHANGED <<chan, rxLive, view>>

AddAddress(p, a, src) == Commit(AddAddressOp(book, p, a, src)) /\ UNCHANGED <<rxLive, view>>

RemoveAddress(p, a) == book' = RemoveAddressOp(book, p, a) /\ UNCHANGED <<chan, rxLive, view>>

SetRtt(p, r) == Commit(SetRttOp(book, p, r)) /\ UNCHANGED <<rxLive, view>>

SetInfo(p, i) == book' = SetInfoOp(book, p, i) /\ UNCHANGED <<chan, rxLive, view>>

\* swarm_events: a new channel whose sender joins event_stream; the
\* application reads the peer list when it subscribes.
SwarmEvents(s) ==
  /\ s \notin book.event_stream
  /\ s \notin rxLive
  /\ book' = [book EXCEPT !.event_stream = @ \cup {s}]
  /\ chan' = [chan EXCEPT ![s] = <<>>]
  /\ rxLive' = rxLive \cup {s}
  /\ view' = [view EXCEPT ![s] = DOMAIN book.peers]

\* NetworkBehaviour::poll: hand the oldest queued action to the runtime.
Poll ==
  /\ book.actions # <<>>
  /\ book' = [book EXCEPT !.actions = Tail(@)]
  /\ UNCHANGED <<chan, rxLive, view>>

InjectConnected(p) == Commit(Out(book, <<Ev("Connected", p)>>)) /\ UNCHANGED <<rxLive, view>>

InjectDisconnected(p) == Commit(Out(book, <<Ev("Disconnected", p)>>)) /\ UNCHANGED <<rxLive, view>>

InjectConnectionEstablished(p, a) ==
  Commit(ConnectOp(book, p, a, "ConnectionEstablished")) /\ UNCHANGED <<rxLive, view>>

InjectAddressChange(p, a) ==
  Commit(ConnectOp(book, p, a, "AddressChanged")) /\ UNCHANGED <<rxLive, view>>

InjectConnectionClosed(p) == Commit(ConnectionClosedOp(book, p)) /\ UNCHANGED <<rxLive, view>>

InjectAddrReachFailure(p, a) == Commit(AddrReachFailureOp(book, p, a)) /\ UNCHANGED <<rxLive, view>>

InjectDialFailure(p) == Commit(DialFailureOp(book, p)) /\ UNCHANGED <<rxLive, view>>

InjectLocalEvent(kind) == Commit(ObserveOp(book, kind)) /\ UNCHANGED <<rxLive, view>>

\* The application reads the next event of its stream.
Receive(s) ==
  /\ s \in rxLive
  /\ chan[s] # <<>>
  /\ view' = [view EXCEPT ![s] = Apply(@, Head(chan[s]))]
  /\ chan' = [chan EXCEPT ![s] = Tail(@)]
  /\ UNCHANGED <<book, rxLive>>

\* The application drops its SwarmEvents; the buffered events go with it.
DropReceiver(s) ==
  /\ s \in rxLive
  /\ rxLive' = rxLive \ {s}
  /\ chan' = [chan EXCEPT ![s] = <<>>]
  /\ UNCHANGED <<book, view>>

Next ==
  \/ \E p \in Peers : Dial(p)
  \/ \E p \in Peers : \E a \in InputAddrs(p), src \in InputSources : AddAddress(p, a, src)
  \/ \E p \in Peers : \E a \in InputAddrs(p) : RemoveAddress(p, a)
  \/ \E p \in Peers, r \in Samples \cup {NoSample} : SetRtt(p, r)
  \/ \E p \in Peers, i \in Identities : SetInfo(p, i)
  \/ \E s \in Subscribers : SwarmEvents(s) \/ Receive(s) \/ DropReceiver(s)
  \/ Poll
  \/ \E p \in RemotePeers :
       \/ InjectConnected(p)
       \/ InjectDisconnected(p)
       \/ InjectConnectionClosed(p)
       \/ InjectDialFailure(p)
       \/ \E a \in InputAddrs(p) :
            \/ InjectConnectionEstablished(p, a)
            \/ InjectAddressChange(p, a)
            \/ InjectAddrReachFailure(p, a)
  \/ \E kind \in LocalEventKinds : InjectLocalEvent(kind)

Spec == Init /\ [][Next]_vars

-----------------------------------------------------------------------------
(* Properties.                                                             *)

\* f is a map from keys in K to values in V.
IsMapOf(f, K, V) == f \in [DOMAIN f -> V] /\ DOMAIN f \subseteq K

PeerInfoOK(i) ==
  /\ i = [addresses |-> i.addresses, identify |-> i.identify, rtt |-> i.rtt]
  /\ IsMapOf(i.addresses, Addr, Sources)
  /\ i.identify \in Identities \cup {NoInfo}
  /\ i.rtt \in RttT \cup {NoRtt}

BookOK(b) ==
  /\ b = [peers |-> b.peers, connections |-> b.connections,
          event_stream |-> b.event_stream, actions |-> b.actions]
  /\ b.peers = [p \in DOMAIN b.peers |-> b.peers[p]]
  /\ DOMAIN b.peers \subseteq RemotePeers
  /\ \A p \in DOMAIN b.peers : PeerInfoOK(b.peers[p])
  /\ IsMapOf(b.connections, RemotePeers, Addr)
  /\ b.event_stream \subseteq Subscribers
  /\ b.actions \in Seq(RemotePeers)

\* Every variable has the shape of the struct field or channel it models.
TypeOK ==
  /\ BookOK(book)
  /\ chan \in [Subscribers -> Seq(Event)]
  /\ rxLive \subseteq Subscribers
  /\ view \in [Subscribers -> SUBSET Peers]


\* The last of a non-empty set of sequence indices.
LastOf(I) == CHOOSE i \in I : \A j \in I : j <= i

\* e changes what a view says about peer p.
Changes(e, p) ==
  e.peer = p /\ (e.kind = "Discovered" \/ (e.kind = "Unreachable" /\ PruneAddresses))

\* The positions of the events of channel c that change what a view says
\* about p.
ChangesOf(c, p) == {i \in 1 .. Len(c) : Changes(c[i], p)}

\* What a subscriber with view v will believe about p once it has read
\* every event of c: the last event that changes p decides, and if there
\* is none the view does.
Belief(c, v, p) ==
  LET I == ChangesOf(c, p)
  IN IF I = {} THEN p \in v ELSE c[LastOf(I)].kind = "Discovered"

\* What subscriber s will believe about p once it has read every event
\* already in its channel.
Believes(s, p) == Belief(chan[s], view[s], p)

\* Observers that follow Discovered and Unreachable never disagree with the
\* registry: for every live subscriber and every peer, reading the events
\* already sent leaves it believing p known exactly when the book holds a
\* record for p (add_address notifies Discovered iff it creates the record,
\* inject_dial_failure notifies Unreachable before removing it, notify
\* reaches every live subscriber, swarm_events starts with no replay).
ObserverConsistent ==
  \A s \in rxLive, p \in RemotePeers : Believes(s, p) <=> p \in DOMAIN book.peers


\* Event e is among the events a step appends to the channel of s, a
\* subscriber that is live before and after the step.
Sent(s, e) ==
  /\ s \in rxLive \cap rxLive'
  /\ \E i \in 1 .. Len(chan'[s]) : i > Len(chan[s]) /\ chan'[s][i] = e

\* Discovered and Unreachable are never spurious: a subscriber is sent
\* Discovered(p) only by the step that creates p's record (add_address's
\* discovered flag, read before entry().or_default()), and Unreachable(p)
\* only for a peer the registry holds, by the step that removes it when
\* pruning (inject_dial_failure), whatever the other callbacks do.
NotifyExactStep ==
  \A s \in Subscribers, p \in RemotePeers :
    /\ Sent(s, Ev("Discovered", p)) => p \notin DOMAIN book.peers /\ p \in DOMAIN book'.peers
    /\ Sent(s, Ev("Unreachable", p)) =>
         p \in DOMAIN book.peers /\ (p \in DOMAIN book'.peers <=> ~PruneAddresses)

\* The action property over the book's behaviours.
NotifyExact == [][NotifyExactStep]_vars

-----------------------------------------------------------------------------
(* The book implements the abstract registry of module Registry.          *)

\* The registry the book keeps: the address store of every PeerInfo.
Registered == [p \in DOMAIN book.peers |-> book.peers[p].addresses]

Abs == INSTANCE Registry WITH RPeers <- RemotePeers, RAddrs <- Addr,
         RSources <- Sources, Prune <- PruneAddresses, reg <- Registered

\* Every behaviour of the book is a behaviour of the abstract registry:
\* each method or callback learns one address first-writer-wins (add_address,
\* also from inject_connection_established), unlearns one (remove_address,
\* inject_addr_reach_failure), forgets a peer only once pruning has emptied
\* its store (inject_dial_failure redials while addresses remain), or
\* leaves the registry alone.
RegistryRefined == Abs!RSpec

=============================================================================
