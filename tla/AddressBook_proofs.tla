-------------------------- MODULE AddressBook_proofs --------------------------
(***************************************************************************)
(* Proofs about module AddressBook, for every value of its constants.      *)
(* The methods are operators from a book to an Out record, so each one is  *)
(* shown once to map a well-formed book to a well-formed result (lemmas    *)
(* *_OK below), and the invariance of TypeOK then needs only that notify  *)
(* (Commit) turns a well-formed result into a well-formed state.           *)
(***************************************************************************)
EXTENDS AddressBook, TLAPS

USE PeersAssumption, SamplesAssumption, SentinelAssumption, SourcesAssumption

\* A method result is well formed: a well-formed book and a finite
\* sequence of events.
OutOK(o) == o = [b |-> o.b, ev |-> o.ev] /\ BookOK(o.b) /\ o.ev \in Seq(Event)

-----------------------------------------------------------------------------
(* Maps.                                                                   *)

\* Inserting a key of K with a value of V into a map from K to V leaves a
\* map from K to V (FnvHashMap::insert and entry().or_insert).
LEMMA PutIsMap ==
  ASSUME NEW K, NEW V, NEW f, IsMapOf(f, K, V), NEW k \in K, NEW v \in V
  PROVE  IsMapOf(Put(f, k, v), K, V)
BY DEF IsMapOf, Put

\* Removing a key from a map from K to V leaves a map from K to V
\* (FnvHashMap::remove).
LEMMA RemoveIsMap ==
  ASSUME NEW K, NEW V, NEW f, IsMapOf(f, K, V), NEW k
  PROVE  IsMapOf(MapRemove(f, k), K, V)
BY DEF IsMapOf, MapRemove

\* The empty map is a map from any K to any V.
LEMMA EmptyIsMap ==
  ASSUME NEW K, NEW V
  PROVE  IsMapOf(EmptyMap, K, V)
BY DEF IsMapOf, EmptyMap

\* Overwriting the value of a key already in a map is inserting it.
LEMMA ExceptIsPut ==
  ASSUME NEW f, f = [x \in DOMAIN f |-> f[x]], NEW k \in DOMAIN f, NEW v
  PROVE  [f EXCEPT ![k] = v] = Put(f, k, v)
BY DEF Put

-----------------------------------------------------------------------------
(* The Rtt estimator keeps its type.                                       *)

\* Rtt::new, register and register_failure map nanosecond counts to Rtt
\* values.
LEMMA RttOK ==
  ASSUME NEW r \in RttT, NEW d \in Nat
  PROVE  /\ RttNew(d) \in RttT
         /\ RttRegister(r, d) \in RttT
         /\ RttRegisterFailure(r) \in RttT
BY DEF RttT, RttNew, RttRegister, RttRegisterFailure

-----------------------------------------------------------------------------
(* Each method maps a well-formed book to a well-formed result.            *)

\* A normalized address is an address.
LEMMA NormalizeOK ==
  ASSUME NEW a \in Addr, NEW p \in Peers
  PROVE  Normalize(a, p) \in Addr
BY DEF Normalize, Addr

\* PeerInfo::default() is a well-formed record.
LEMMA DefaultInfoOK == PeerInfoOK(DefaultInfo)
BY EmptyIsMap DEF PeerInfoOK, DefaultInfo

\* Replacing the record of a remote peer by a well-formed one keeps the
\* book well formed.
LEMMA PutPeerOK ==
  ASSUME NEW b, BookOK(b), NEW p \in RemotePeers, NEW i, PeerInfoOK(i)
  PROVE  BookOK([b EXCEPT !.peers = Put(@, p, i)])
<1> DEFINE nb == [b EXCEPT !.peers = Put(b.peers, p, i)]
<1>1. nb.peers = Put(b.peers, p, i) /\ nb.connections = b.connections
      /\ nb.event_stream = b.event_stream /\ nb.actions = b.actions
  BY DEF BookOK
<1>2. nb = [peers |-> nb.peers, connections |-> nb.connections,
            event_stream |-> nb.event_stream, actions |-> nb.actions]
  BY DEF BookOK
<1>3. nb.peers = [q \in DOMAIN nb.peers |-> nb.peers[q]] /\ DOMAIN nb.peers \subseteq RemotePeers
  BY <1>1 DEF BookOK, Put
<1>4. \A q \in DOMAIN nb.peers : PeerInfoOK(nb.peers[q])
  BY <1>1 DEF BookOK, Put
<1> QED BY <1>1, <1>2, <1>3, <1>4 DEF BookOK

\* An event of the book, alone, is a sequence of events.
LEMMA EvOK ==
  ASSUME NEW k \in EventKinds, NEW p \in Peers
  PROVE  /\ Ev(k, p) \in Event
         /\ <<Ev(k, p)>> \in Seq(Event)
         /\ <<>> \in Seq(Event)
<1>1. Ev(k, p) \in Event
  BY DEF Ev, Event
<1> QED BY <1>1

\* add_address
LEMMA AddAddressOK ==
  ASSUME NEW b, BookOK(b), NEW p \in Peers, NEW a \in Addr, NEW src \in Sources
  PROVE  OutOK(AddAddressOp(b, p, a, src))
<1>1. CASE p = LocalPeer \/ (~EnableLoopback /\ IsLoopback(a))
  BY <1>1 DEF AddAddressOp, OutOK, Out
<1>2. CASE ~(p = LocalPeer \/ (~EnableLoopback /\ IsLoopback(a)))
  <2> DEFINE info == IF p \notin DOMAIN b.peers THEN DefaultInfo ELSE b.peers[p]
             na == Normalize(a, p)
             info2 == IF na \in DOMAIN info.addresses THEN info
                      ELSE [info EXCEPT !.addresses = Put(@, na, src)]
  <2>1. p \in RemotePeers
    BY <1>2 DEF RemotePeers
  <2>2. PeerInfoOK(info)
    BY DefaultInfoOK DEF BookOK
  <2>3. na \in Addr
    BY NormalizeOK
  <2>4. PeerInfoOK(info2)
    <3>1. CASE na \in DOMAIN info.addresses
      BY <2>2, <3>1
    <3>2. CASE na \notin DOMAIN info.addresses
      <4>1. IsMapOf(Put(info.addresses, na, src), Addr, Sources)
        BY <2>2, <2>3, PutIsMap DEF PeerInfoOK
      <4> QED BY <3>2, <4>1, <2>2 DEF PeerInfoOK
    <3> QED BY <3>1, <3>2
  <2>5. BookOK([b EXCEPT !.peers = Put(@, p, info2)])
    BY <2>1, <2>4, PutPeerOK
  <2>6. (IF p \notin DOMAIN b.peers THEN <<Ev("Discovered", p)>> ELSE <<>>) \in Seq(Event)
    <3>1. "Discovered" \in EventKinds
      BY DEF EventKinds
    <3> QED BY <3>1, EvOK
  <2> QED BY <1>2, <2>5, <2>6 DEF AddAddressOp, OutOK, Out
<1> QED BY <1>1, <1>2

\* dial
LEMMA DialOK ==
  ASSUME NEW b, BookOK(b), NEW p \in Peers
  PROVE  BookOK(DialOp(b, p))
<1>1. CASE p = LocalPeer
  BY <1>1 DEF DialOp
<1>2. CASE p # LocalPeer
  <2>1. Append(b.actions, p) \in Seq(RemotePeers)
    BY <1>2 DEF BookOK, RemotePeers
  <2> QED BY <1>2, <2>1 DEF DialOp, BookOK
<1> QED BY <1>1, <1>2

\* remove_address
LEMMA RemoveAddressOK ==
  ASSUME NEW b, BookOK(b), NEW p, NEW a
  PROVE  BookOK(RemoveAddressOp(b, p, a))
<1>1. CASE p \in DOMAIN b.peers
  <2> DEFINE old == b.peers[p]
             i == [old EXCEPT !.addresses = MapRemove(old.addresses, Normalize(a, p))]
  <2>1. PeerInfoOK(old)
    BY <1>1 DEF BookOK
  <2>2. PeerInfoOK(i)
    BY <2>1, RemoveIsMap DEF PeerInfoOK
  <2>3. RemoveAddressOp(b, p, a) = [b EXCEPT !.peers = Put(@, p, i)]
    <3>1. [b.peers EXCEPT ![p] = i] = Put(b.peers, p, i)
      <4>1. b.peers = [x \in DOMAIN b.peers |-> b.peers[x]]
        BY DEF BookOK
      <4> QED BY <1>1, <4>1, ExceptIsPut
    <3> QED BY <1>1, <3>1 DEF RemoveAddressOp
  <2>4. p \in RemotePeers
    BY <1>1 DEF BookOK
  <2> QED BY <2>2, <2>3, <2>4, PutPeerOK
<1>2. CASE p \notin DOMAIN b.peers
  BY <1>2 DEF RemoveAddressOp
<1> QED BY <1>1, <1>2

\* set_info
LEMMA SetInfoOK ==
  ASSUME NEW b, BookOK(b), NEW p, NEW i \in Identities
  PROVE  BookOK(SetInfoOp(b, p, i))
<1>1. CASE p \in DOMAIN b.peers
  <2> DEFINE old == b.peers[p]
             ni == [old EXCEPT !.identify = i]
  <2>1. PeerInfoOK(old)
    BY <1>1 DEF BookOK
  <2>2. PeerInfoOK(ni)
    BY <2>1 DEF PeerInfoOK
  <2>3. SetInfoOp(b, p, i) = [b EXCEPT !.peers = Put(@, p, ni)]
    <3>1. [b.peers EXCEPT ![p] = ni] = Put(b.peers, p, ni)
      <4>1. b.peers = [x \in DOMAIN b.peers |-> b.peers[x]]
        BY DEF BookOK
      <4> QED BY <1>1, <4>1, ExceptIsPut
    <3> QED BY <1>1, <3>1 DEF SetInfoOp
  <2>4. p \in RemotePeers
    BY <1>1 DEF BookOK
  <2> QED BY <2>2, <2>3, <2>4, PutPeerOK
<1>2. CASE p \notin DOMAIN b.peers
  BY <1>2 DEF SetInfoOp
<1> QED BY <1>1, <1>2

\* set_rtt
LEMMA SetRttOK ==
  ASSUME NEW b, BookOK(b), NEW p \in Peers, NEW r \in Samples \cup {NoSample}
  PROVE  OutOK(SetRttOp(b, p, r))
<1>1. CASE p \notin DOMAIN b.peers
  BY <1>1, EvOK DEF SetRttOp, OutOK, Out
<1>2. CASE p \in DOMAIN b.peers
  <2> DEFINE info == b.peers[p]
             old == info.rtt
             new == CASE r # NoSample /\ old # NoRtt -> RttRegister(old, r)
                      [] r # NoSample /\ old = NoRtt -> RttNew(r)
                      [] r = NoSample /\ old # NoRtt -> RttRegisterFailure(old)
                      [] r = NoSample /\ old = NoRtt -> NoRtt
             ni == [info EXCEPT !.rtt = new]
  <2>1. PeerInfoOK(info)
    BY <1>2 DEF BookOK
  <2>2. new \in RttT \cup {NoRtt}
    <3>1. old \in RttT \cup {NoRtt}
      BY <2>1 DEF PeerInfoOK
    <3>2. CASE r # NoSample /\ old # NoRtt
      <4>1. r \in Nat /\ old \in RttT
        BY <3>1, <3>2
      <4> QED BY <3>2, <4>1, RttOK
    <3>3. CASE r # NoSample /\ old = NoRtt
      <4>1. r \in Nat
        BY <3>3
      <4> QED BY <3>3, <4>1 DEF RttNew, RttT
    <3>4. CASE r = NoSample /\ old # NoRtt
      BY <3>1, <3>4, RttOK
    <3>5. CASE r = NoSample /\ old = NoRtt
      BY <3>5
    <3> QED BY <3>2, <3>3, <3>4, <3>5
  <2>3. PeerInfoOK(ni)
    BY <2>1, <2>2 DEF PeerInfoOK
  <2>4. SetRttOp(b, p, r) = Out([b EXCEPT !.peers = Put(@, p, ni)], <<Ev("NewInfo", p)>>)
    <3>1. [b.peers EXCEPT ![p] = ni] = Put(b.peers, p, ni)
      <4>1. b.peers = [x \in DOMAIN b.peers |-> b.peers[x]]
        BY DEF BookOK
      <4> QED BY <1>2, <4>1, ExceptIsPut
    <3> QED BY <1>2, <3>1 DEF SetRttOp
  <2>5. p \in RemotePeers
    BY <1>2 DEF BookOK
  <2>6. "NewInfo" \in EventKinds
    BY DEF EventKinds
  <2> QED BY <2>3, <2>4, <2>5, <2>6, PutPeerOK, EvOK DEF OutOK, Out
<1> QED BY <1>1, <1>2

\* Replacing the connections map by a map from remote peers to addresses
\* keeps the book well formed.
LEMMA ConnectionsOK ==
  ASSUME NEW b, BookOK(b), NEW c, IsMapOf(c, RemotePeers, Addr)
  PROVE  BookOK([b EXCEPT !.connections = c])
BY DEF BookOK

\* inject_connection_established / inject_address_change
LEMMA ConnectOK ==
  ASSUME NEW b, BookOK(b), NEW p \in RemotePeers, NEW a \in Addr,
         NEW kind \in EventKinds
  PROVE  OutOK(ConnectOp(b, p, a, kind))
<1> DEFINE na == Normalize(a, p)
           r == AddAddressOp(b, p, na, "Peer")
<1>1. na \in Addr
  BY NormalizeOK DEF RemotePeers
<1>2. OutOK(r)
  <2>1. "Peer" \in Sources
    BY DEF Sources
  <2> QED BY <1>1, <2>1, AddAddressOK DEF RemotePeers
<1>3. IsMapOf(Put(r.b.connections, p, na), RemotePeers, Addr)
  BY <1>1, <1>2, PutIsMap DEF OutOK, BookOK
<1>4. BookOK([r.b EXCEPT !.connections = Put(@, p, na)])
  BY <1>2, <1>3, ConnectionsOK DEF OutOK
<1>5. r.ev \o <<Ev(kind, p)>> \in Seq(Event)
  BY <1>2, EvOK DEF OutOK, RemotePeers
<1> QED BY <1>4, <1>5 DEF ConnectOp, OutOK, Out

\* inject_connection_closed
LEMMA ConnectionClosedOK ==
  ASSUME NEW b, BookOK(b), NEW p \in RemotePeers
  PROVE  OutOK(ConnectionClosedOp(b, p))
<1>1. IsMapOf(MapRemove(b.connections, p), RemotePeers, Addr)
  BY RemoveIsMap DEF BookOK
<1>2. "ConnectionClosed" \in EventKinds
  BY DEF EventKinds
<1> QED BY <1>1, <1>2, ConnectionsOK, EvOK DEF ConnectionClosedOp, OutOK, Out, RemotePeers

\* inject_addr_reach_failure
LEMMA AddrReachFailureOK ==
  ASSUME NEW b, BookOK(b), NEW p \in RemotePeers, NEW a
  PROVE  OutOK(AddrReachFailureOp(b, p, a))
<1>1. BookOK(RemoveAddressOp(b, p, a))
  BY RemoveAddressOK
<1>2. "DialFailure" \in EventKinds
  BY DEF EventKinds
<1> QED BY <1>1, <1>2, EvOK DEF AddrReachFailureOp, OutOK, Out, RemotePeers

\* inject_dial_failure
LEMMA DialFailureOK ==
  ASSUME NEW b, BookOK(b), NEW p \in RemotePeers
  PROVE  OutOK(DialFailureOp(b, p))
<1>1. BookOK(DialOp(b, p))
  BY DialOK DEF RemotePeers
<1>2. BookOK([b EXCEPT !.peers = MapRemove(@, p)])
  BY DEF BookOK, MapRemove
<1>3. "Unreachable" \in EventKinds
  BY DEF EventKinds
<1> QED BY <1>1, <1>2, <1>3, EvOK DEF DialFailureOp, OutOK, Out, RemotePeers

-----------------------------------------------------------------------------
(* Type correctness of the book and its event bus.                        *)

\* notify: delivering a well-formed result to the live subscribers, and
\* retaining their senders, leaves every variable well typed.
LEMMA CommitOK ==
  ASSUME TypeOK, NEW o, OutOK(o), Commit(o), UNCHANGED <<rxLive, view>>
  PROVE  TypeOK'
<1> DEFINE live == o.b.event_stream \cap rxLive
<1>1. BookOK(book')
  <2>1. CASE o.ev = <<>>
    BY <2>1 DEF Commit, OutOK
  <2>2. CASE o.ev # <<>>
    <3>1. live \subseteq Subscribers
      BY DEF TypeOK
    <3> QED BY <2>2, <3>1 DEF Commit, OutOK, BookOK
  <2> QED BY <2>1, <2>2
<1>2. chan' \in [Subscribers -> Seq(Event)]
  BY DEF Commit, OutOK, TypeOK
<1> QED BY <1>1, <1>2 DEF TypeOK

\* AddressBook::new is well typed.
LEMMA InitTypeOK == Init => TypeOK
<1>1. BookOK(EmptyBook)
  BY EmptyIsMap DEF BookOK, EmptyBook, EmptyMap
<1> QED BY <1>1 DEF Init, TypeOK

\* Every method and callback, called with any arguments, keeps every
\* variable well typed.
LEMMA NextTypeOK == TypeOK /\ [Next]_vars => TypeOK'
<1> SUFFICES ASSUME TypeOK, [Next]_vars PROVE TypeOK'
  OBVIOUS
<1>1. ASSUME NEW p \in Peers, Dial(p) PROVE TypeOK'
  BY <1>1, DialOK DEF Dial, TypeOK
<1>2. ASSUME NEW p \in Peers, NEW a \in InputAddrs(p), NEW src \in InputSources,
             AddAddress(p, a, src)
      PROVE TypeOK'
  <2>1. a \in Addr
    BY DEF InputAddrs, Addr
  <2> QED BY <1>2, <2>1, AddAddressOK, CommitOK DEF AddAddress, TypeOK
<1>3. ASSUME NEW p \in Peers, NEW a \in InputAddrs(p), RemoveAddress(p, a) PROVE TypeOK'
  BY <1>3, RemoveAddressOK DEF RemoveAddress, TypeOK
<1>4. ASSUME NEW p \in Peers, NEW r \in Samples \cup {NoSample}, SetRtt(p, r) PROVE TypeOK'
  BY <1>4, SetRttOK, CommitOK DEF SetRtt, TypeOK
<1>5. ASSUME NEW p \in Peers, NEW i \in Identities, SetInfo(p, i) PROVE TypeOK'
  BY <1>5, SetInfoOK DEF SetInfo, TypeOK
<1>6. ASSUME NEW s \in Subscribers, SwarmEvents(s) PROVE TypeOK'
  <2>1. DOMAIN book.peers \subseteq Peers
    BY DEF TypeOK, BookOK, RemotePeers
  <2>2. BookOK(book')
    <3>1. BookOK(book) /\ book.event_stream \cup {s} \subseteq Subscribers
      BY DEF TypeOK, BookOK
    <3> QED BY <1>6, <3>1 DEF SwarmEvents, BookOK
  <2>3. view' \in [Subscribers -> SUBSET Peers]
    BY <1>6, <2>1 DEF SwarmEvents, TypeOK
  <2>4. chan' \in [Subscribers -> Seq(Event)] /\ rxLive' \subseteq Subscribers
    BY <1>6 DEF SwarmEvents, TypeOK
  <2> QED BY <2>2, <2>3, <2>4 DEF TypeOK
<1>7. ASSUME NEW s \in Subscribers, Receive(s) PROVE TypeOK'
  <2>1. Head(chan[s]) \in Event
    BY <1>7 DEF Receive, TypeOK
  <2>2. Apply(view[s], Head(chan[s])) \in SUBSET Peers
    <3>1. view[s] \subseteq Peers
      BY DEF TypeOK
    <3>2. CASE Head(chan[s]) \in [kind: EventKinds, peer: Peers]
      BY <3>1, <3>2 DEF Apply
    <3>3. CASE Head(chan[s]) \in [kind: LocalEventKinds, peer: {NoPeer}]
      <4>1. Head(chan[s]).kind \notin {"Discovered", "Unreachable"}
        BY <3>3 DEF LocalEventKinds
      <4> QED BY <3>1, <4>1 DEF Apply
    <3> QED BY <2>1, <3>2, <3>3 DEF Event
  <2>3. Tail(chan[s]) \in Seq(Event)
    BY <1>7 DEF Receive, TypeOK
  <2> QED BY <1>7, <2>2, <2>3 DEF Receive, TypeOK
<1>8. ASSUME NEW s \in Subscribers, DropReceiver(s) PROVE TypeOK'
  BY <1>8 DEF DropReceiver, TypeOK
<1>9. CASE Poll
  <2>1. Tail(book.actions) \in Seq(RemotePeers)
    BY <1>9 DEF Poll, TypeOK, BookOK
  <2>2. BookOK(book)
    BY DEF TypeOK
  <2>3. BookOK(book')
    BY <1>9, <2>1, <2>2 DEF Poll, BookOK
  <2> QED BY <1>9, <2>3 DEF Poll, TypeOK
<1>10. ASSUME NEW p \in RemotePeers, InjectConnected(p) \/ InjectDisconnected(p) PROVE TypeOK'
  <2>1. "Connected" \in EventKinds /\ "Disconnected" \in EventKinds
    BY DEF EventKinds
  <2>2. OutOK(Out(book, <<Ev("Connected", p)>>)) /\ OutOK(Out(book, <<Ev("Disconnected", p)>>))
    BY <2>1, EvOK DEF OutOK, Out, TypeOK, RemotePeers
  <2> QED BY <1>10, <2>2, CommitOK DEF InjectConnected, InjectDisconnected
<1>11. ASSUME NEW p \in RemotePeers, InjectConnectionClosed(p) \/ InjectDialFailure(p)
       PROVE TypeOK'
  BY <1>11, ConnectionClosedOK, DialFailureOK, CommitOK
     DEF InjectConnectionClosed, InjectDialFailure, TypeOK
<1>12. ASSUME NEW p \in RemotePeers, NEW a \in InputAddrs(p),
              \/ InjectConnectionEstablished(p, a)
              \/ InjectAddressChange(p, a)
              \/ InjectAddrReachFailure(p, a)
       PROVE TypeOK'
  <2>1. a \in Addr /\ "ConnectionEstablished" \in EventKinds /\ "AddressChanged" \in EventKinds
    BY DEF InputAddrs, Addr, EventKinds, RemotePeers
  <2> QED BY <1>12, <2>1, ConnectOK, AddrReachFailureOK, CommitOK
          DEF InjectConnectionEstablished, InjectAddressChange, InjectAddrReachFailure, TypeOK
<1>14. ASSUME NEW kind \in LocalEventKinds, InjectLocalEvent(kind) PROVE TypeOK'
  <2>1. <<Ev(kind, NoPeer)>> \in Seq(Event)
    BY DEF Ev, Event
  <2>2. OutOK(ObserveOp(book, kind))
    BY <2>1 DEF ObserveOp, OutOK, Out, TypeOK
  <2> QED BY <1>14, <2>2, CommitOK DEF InjectLocalEvent
<1>13. CASE UNCHANGED vars
  BY <1>13 DEF vars, TypeOK
<1> QED BY <1>1, <1>2, <1>3, <1>4, <1>5, <1>6, <1>7, <1>8, <1>9, <1>10, <1>11,
           <1>12, <1>13, <1>14 DEF Next

\* Type correctness of the address book: in every reachable state the
\* book, the subscribers' channels and their views have the shape of the
\* struct fields and channels of src/net/peers.rs, whatever the callers do.
THEOREM TypeCorrect == Spec => []TypeOK
BY InitTypeOK, NextTypeOK, PTL DEF Spec

-----------------------------------------------------------------------------
(* The book refines the abstract registry (module Registry).              *)
(* The steps of Registry, restated between two registries r and r2 so that *)
(* the method lemmas can speak of a book and the book it leaves.           *)

\* The registry a book keeps (Registered, for any book).
RegOf(b) == [p \in DOMAIN b.peers |-> b.peers[p].addresses]

KnownIn(r, p) == IF p \in DOMAIN r THEN DOMAIN r[p] ELSE {}

LearnStep(r, r2, p, a, s) ==
  /\ a \notin KnownIn(r, p)
  /\ r2 = [q \in DOMAIN r \cup {p} |->
             IF q = p
             THEN [x \in KnownIn(r, p) \cup {a} |-> IF x = a THEN s ELSE r[p][x]]
             ELSE r[q]]

UnlearnStep(r, r2, p, a) ==
  p \in DOMAIN r /\ r2 = [r EXCEPT ![p] = [x \in DOMAIN @ \ {a} |-> @[x]]]

ForgetStep(r, r2, p) ==
  /\ PruneAddresses
  /\ p \in DOMAIN r
  /\ DOMAIN r[p] = {}
  /\ r2 = [q \in DOMAIN r \ {p} |-> r[q]]

\* r2 is r, or one step of the abstract registry from r.
RStep(r, r2) ==
  \/ r2 = r
  \/ \E p \in RemotePeers :
       \/ \E a \in Addr, s \in Sources : LearnStep(r, r2, p, a, s)
       \/ \E a \in Addr : UnlearnStep(r, r2, p, a)
       \/ ForgetStep(r, r2, p)

\* A registry step between the book of this state and the next is a step
\* (or a stutter) of the abstract registry.
LEMMA StepIsAbstract ==
  RStep(RegOf(book), RegOf(book')) => [Abs!RNext]_Registered
<1> SUFFICES ASSUME RStep(RegOf(book), RegOf(book')) PROVE [Abs!RNext]_Registered
  OBVIOUS
<1>1. Registered = RegOf(book) /\ Registered' = RegOf(book')
  BY DEF Registered, RegOf
<1>2. CASE RegOf(book') = RegOf(book)
  BY <1>1, <1>2
<1>3. ASSUME NEW p \in RemotePeers, NEW a \in Addr, NEW s \in Sources,
             LearnStep(RegOf(book), RegOf(book'), p, a, s)
      PROVE  [Abs!RNext]_Registered
  <2>1. Abs!Known(p) = KnownIn(RegOf(book), p)
    BY <1>1 DEF Abs!Known, KnownIn
  <2>2. Abs!Learn(p, a, s)
    BY <1>1, <1>3, <2>1 DEF LearnStep, Abs!Learn
  <2> QED BY <2>2 DEF Abs!RNext
<1>4. ASSUME NEW p \in RemotePeers, NEW a \in Addr,
             UnlearnStep(RegOf(book), RegOf(book'), p, a)
      PROVE  [Abs!RNext]_Registered
  BY <1>1, <1>4 DEF UnlearnStep, Abs!RNext, Abs!Unlearn
<1>5. ASSUME NEW p \in RemotePeers, ForgetStep(RegOf(book), RegOf(book'), p)
      PROVE  [Abs!RNext]_Registered
  BY <1>1, <1>5 DEF ForgetStep, Abs!RNext, Abs!Forget
<1> QED BY <1>2, <1>3, <1>4, <1>5 DEF RStep

\* AddressBook::new starts with the empty registry.
LEMMA InitRefines == Init => Abs!RInit
BY DEF Init, EmptyBook, EmptyMap, Abs!RInit, Registered

\* A step that leaves the peers map alone leaves the registry alone.
LEMMA SamePeersStep ==
  ASSUME NEW b1, NEW b2, b2.peers = b1.peers
  PROVE  RStep(RegOf(b1), RegOf(b2))
BY DEF RStep, RegOf

\* add_address learns the normalized address with the caller's source, or
\* leaves the registry alone (local peer, loopback, address already known).
LEMMA AddAddressStep ==
  ASSUME NEW b, BookOK(b), NEW p \in Peers, NEW a \in Addr, NEW src \in Sources
  PROVE  RStep(RegOf(b), RegOf(AddAddressOp(b, p, a, src).b))
<1>1. CASE p = LocalPeer \/ (~EnableLoopback /\ IsLoopback(a))
  BY <1>1, SamePeersStep DEF AddAddressOp, Out
<1>2. CASE ~(p = LocalPeer \/ (~EnableLoopback /\ IsLoopback(a)))
  <2> DEFINE info == IF p \notin DOMAIN b.peers THEN DefaultInfo ELSE b.peers[p]
             na == Normalize(a, p)
             info2 == IF na \in DOMAIN info.addresses THEN info
                      ELSE [info EXCEPT !.addresses = Put(@, na, src)]
             r == RegOf(b)
             r2 == RegOf(AddAddressOp(b, p, a, src).b)
  <2>1. r2 = [q \in DOMAIN b.peers \cup {p} |->
                IF q = p THEN info2.addresses ELSE b.peers[q].addresses]
    <3>1. AddAddressOp(b, p, a, src).b.peers = Put(b.peers, p, info2)
      BY <1>2 DEF AddAddressOp, Out, BookOK
    <3> QED BY <3>1 DEF RegOf, Put
  <2>2. KnownIn(r, p) = DOMAIN info.addresses
    BY DEF KnownIn, RegOf, DefaultInfo, EmptyMap
  <2>3. info.addresses = [x \in DOMAIN info.addresses |-> info.addresses[x]]
    <3>1. CASE p \in DOMAIN b.peers
      <4>1. PeerInfoOK(b.peers[p])
        BY <3>1 DEF BookOK
      <4> QED BY <3>1, <4>1 DEF PeerInfoOK, IsMapOf
    <3>2. CASE p \notin DOMAIN b.peers
      BY <3>2 DEF DefaultInfo, EmptyMap
    <3> QED BY <3>1, <3>2
  <2>4. CASE na \in DOMAIN info.addresses
    <3>1. p \in DOMAIN b.peers
      BY <2>4 DEF DefaultInfo, EmptyMap
    <3>2. r2 = r
      BY <2>1, <2>4, <3>1 DEF RegOf
    <3> QED BY <3>2 DEF RStep
  <2>5. CASE na \notin DOMAIN info.addresses
    <3>1. p \in RemotePeers /\ na \in Addr
      BY <1>2, NormalizeOK DEF RemotePeers
    <3>2. info2.addresses = [x \in DOMAIN info.addresses \cup {na} |->
                               IF x = na THEN src ELSE info.addresses[x]]
      BY <2>5 DEF Put
    <3>3. \A x \in DOMAIN info.addresses : info.addresses[x] = r[p][x]
      BY DEF RegOf, DefaultInfo, EmptyMap
    <3>4. LearnStep(r, r2, p, na, src)
      BY <2>1, <2>2, <2>5, <3>2, <3>3 DEF LearnStep, RegOf
    <3> QED BY <3>1, <3>4 DEF RStep
  <2> QED BY <2>4, <2>5
<1> QED BY <1>1, <1>2

\* remove_address unlearns the normalized address of a known peer.
LEMMA RemoveAddressStep ==
  ASSUME NEW b, BookOK(b), NEW p \in RemotePeers, NEW a \in Addr
  PROVE  RStep(RegOf(b), RegOf(RemoveAddressOp(b, p, a)))
<1>1. CASE p \in DOMAIN b.peers
  <2>1. Normalize(a, p) \in Addr
    BY NormalizeOK DEF RemotePeers
  <2> DEFINE na == Normalize(a, p)
             old == b.peers[p]
             new == [old EXCEPT !.addresses = MapRemove(@, na)]
  <2>2. RemoveAddressOp(b, p, a).peers = [b.peers EXCEPT ![p] = new]
    BY <1>1 DEF RemoveAddressOp, BookOK
  <2>3. new.addresses = MapRemove(old.addresses, na)
    <3>1. PeerInfoOK(old)
      BY <1>1 DEF BookOK
    <3> QED BY <3>1 DEF PeerInfoOK
  <2>4. RegOf(RemoveAddressOp(b, p, a)) = [RegOf(b) EXCEPT ![p] = MapRemove(old.addresses, na)]
    BY <1>1, <2>2, <2>3 DEF RegOf
  <2>5. UnlearnStep(RegOf(b), RegOf(RemoveAddressOp(b, p, a)), p, na)
    BY <1>1, <2>4 DEF UnlearnStep, RegOf, MapRemove
  <2> QED BY <2>1, <2>5 DEF RStep
<1>2. CASE p \notin DOMAIN b.peers
  BY <1>2, SamePeersStep DEF RemoveAddressOp
<1> QED BY <1>1, <1>2

\* inject_connection_established / inject_address_change learn the
\* normalized remote address as a Peer address (through add_address).
LEMMA ConnectStep ==
  ASSUME NEW b, BookOK(b), NEW p \in Peers, NEW a \in Addr, NEW kind
  PROVE  RStep(RegOf(b), RegOf(ConnectOp(b, p, a, kind).b))
<1> DEFINE r == AddAddressOp(b, p, Normalize(a, p), "Peer")
<1>1. Normalize(a, p) \in Addr /\ "Peer" \in Sources
  BY NormalizeOK DEF Sources
<1>2. RStep(RegOf(b), RegOf(r.b))
  BY <1>1, AddAddressStep
<1>3. BookOK(r.b)
  BY <1>1, AddAddressOK DEF OutOK
<1>4. ConnectOp(b, p, a, kind).b.peers = r.b.peers
  BY <1>3 DEF ConnectOp, Out, BookOK
<1> QED BY <1>2, <1>4 DEF RegOf

\* inject_addr_reach_failure unlearns the failed address of a peer that is
\* not connected, when pruning, and otherwise leaves the registry alone.
LEMMA AddrReachFailureStep ==
  ASSUME NEW b, BookOK(b), NEW p \in RemotePeers, NEW a \in Addr
  PROVE  RStep(RegOf(b), RegOf(AddrReachFailureOp(b, p, a).b))
BY RemoveAddressStep, SamePeersStep DEF AddrReachFailureOp, Out

\* inject_dial_failure redials (registry alone), forgets a known peer only
\* when pruning has left it no address, or leaves it when not pruning.
LEMMA DialFailureStep ==
  ASSUME NEW b, BookOK(b), NEW p \in RemotePeers
  PROVE  RStep(RegOf(b), RegOf(DialFailureOp(b, p).b))
<1>1. CASE PruneAddresses /\ AddressesOfPeer(b, p) # {}
  <2>1. DialOp(b, p).peers = b.peers
    BY DEF DialOp, BookOK
  <2> QED BY <1>1, <2>1, SamePeersStep DEF DialFailureOp, Out
<1>2. CASE ~(PruneAddresses /\ AddressesOfPeer(b, p) # {}) /\ p \in DOMAIN b.peers
          /\ PruneAddresses
  <2>1. DOMAIN RegOf(b)[p] = {}
    BY <1>2 DEF AddressesOfPeer, RegOf
  <2>2. RegOf(DialFailureOp(b, p).b) = [q \in DOMAIN RegOf(b) \ {p} |-> RegOf(b)[q]]
    BY <1>2 DEF DialFailureOp, Out, RegOf, MapRemove
  <2>3. ForgetStep(RegOf(b), RegOf(DialFailureOp(b, p).b), p)
    BY <1>2, <2>1, <2>2 DEF ForgetStep, RegOf
  <2> QED BY <2>3 DEF RStep
<1>3. CASE ~(PruneAddresses /\ AddressesOfPeer(b, p) # {}) /\ p \in DOMAIN b.peers
          /\ ~PruneAddresses
  BY <1>3, SamePeersStep DEF DialFailureOp, Out
<1>4. CASE ~(PruneAddresses /\ AddressesOfPeer(b, p) # {}) /\ p \notin DOMAIN b.peers
  BY <1>4, SamePeersStep DEF DialFailureOp, Out
<1> QED BY <1>1, <1>2, <1>3, <1>4

\* notify leaves the peers map of the method's result as it is.
LEMMA CommitPeers ==
  ASSUME NEW o, OutOK(o), Commit(o)
  PROVE  book'.peers = o.b.peers
BY DEF Commit, OutOK, BookOK

\* Every method and callback is a registry step or leaves the registry.
LEMMA NextRefines == TypeOK /\ [Next]_vars => RStep(RegOf(book), RegOf(book'))
<1> SUFFICES ASSUME TypeOK, [Next]_vars PROVE RStep(RegOf(book), RegOf(book'))
  OBVIOUS
<1>0. BookOK(book)
  BY DEF TypeOK
<1>1. ASSUME NEW p \in Peers, Dial(p) PROVE RStep(RegOf(book), RegOf(book'))
  BY <1>1, <1>0, SamePeersStep DEF Dial, DialOp, BookOK
<1>2. ASSUME NEW p \in Peers, NEW a \in InputAddrs(p), NEW src \in InputSources,
             AddAddress(p, a, src)
      PROVE RStep(RegOf(book), RegOf(book'))
  <2>1. a \in Addr /\ src \in Sources
    BY DEF InputAddrs, Addr
  <2>2. OutOK(AddAddressOp(book, p, a, src))
    BY <1>0, <2>1, AddAddressOK
  <2>3. RStep(RegOf(book), RegOf(AddAddressOp(book, p, a, src).b))
    BY <1>0, <2>1, AddAddressStep
  <2> QED BY <1>2, <2>2, <2>3, CommitPeers DEF AddAddress, RegOf
<1>3. ASSUME NEW p \in Peers, NEW a \in InputAddrs(p), RemoveAddress(p, a)
      PROVE RStep(RegOf(book), RegOf(book'))
  <2>1. CASE p \in RemotePeers
    <3>1. a \in Addr
      BY DEF InputAddrs, Addr
    <3> QED BY <1>3, <1>0, <2>1, <3>1, RemoveAddressStep DEF RemoveAddress
  <2>2. CASE p = LocalPeer
    <3>1. p \notin DOMAIN book.peers
      BY <1>0, <2>2 DEF BookOK, RemotePeers
    <3> QED BY <1>3, <3>1, SamePeersStep DEF RemoveAddress, RemoveAddressOp
  <2> QED BY <2>1, <2>2 DEF RemotePeers
<1>4. ASSUME NEW p \in Peers, NEW r \in Samples \cup {NoSample}, SetRtt(p, r)
      PROVE RStep(RegOf(book), RegOf(book'))
  <2>1. OutOK(SetRttOp(book, p, r))
    BY <1>0, SetRttOK
  <2>2. RegOf(SetRttOp(book, p, r).b) = RegOf(book)
    BY <1>0 DEF SetRttOp, Out, RegOf, BookOK
  <2> QED BY <1>4, <2>1, <2>2, CommitPeers DEF SetRtt, RStep, RegOf
<1>5. ASSUME NEW p \in Peers, NEW i \in Identities, SetInfo(p, i)
      PROVE RStep(RegOf(book), RegOf(book'))
  <2>1. RegOf(SetInfoOp(book, p, i)) = RegOf(book)
    BY <1>0 DEF SetInfoOp, RegOf, BookOK
  <2> QED BY <1>5, <2>1 DEF SetInfo, RStep
<1>6. ASSUME NEW s \in Subscribers, SwarmEvents(s) \/ Receive(s) \/ DropReceiver(s)
      PROVE RStep(RegOf(book), RegOf(book'))
  <2>1. book'.peers = book.peers
    BY <1>6, <1>0 DEF SwarmEvents, Receive, DropReceiver, BookOK
  <2> QED BY <2>1, SamePeersStep
<1>7. CASE Poll
  BY <1>7, <1>0, SamePeersStep DEF Poll, BookOK
<1>8. ASSUME NEW p \in RemotePeers, InjectConnected(p) \/ InjectDisconnected(p)
      PROVE RStep(RegOf(book), RegOf(book'))
  <2>1. "Connected" \in EventKinds /\ "Disconnected" \in EventKinds
    BY DEF EventKinds
  <2>2. OutOK(Out(book, <<Ev("Connected", p)>>)) /\ OutOK(Out(book, <<Ev("Disconnected", p)>>))
    BY <1>0, <2>1, EvOK DEF OutOK, Out, RemotePeers
  <2>3. book'.peers = book.peers
    BY <1>8, <2>2, CommitPeers DEF InjectConnected, InjectDisconnected, Out
  <2> QED BY <2>3, SamePeersStep
<1>9. ASSUME NEW p \in RemotePeers, InjectConnectionClosed(p)
      PROVE RStep(RegOf(book), RegOf(book'))
  <2>1. OutOK(ConnectionClosedOp(book, p))
    BY <1>0, ConnectionClosedOK
  <2>2. ConnectionClosedOp(book, p).b.peers = book.peers
    BY <1>0 DEF ConnectionClosedOp, Out, BookOK
  <2>3. book'.peers = book.peers
    BY <1>9, <2>1, <2>2, CommitPeers DEF InjectConnectionClosed
  <2> QED BY <2>3, SamePeersStep
<1>10. ASSUME NEW p \in RemotePeers, InjectDialFailure(p)
       PROVE RStep(RegOf(book), RegOf(book'))
  <2>1. OutOK(DialFailureOp(book, p))
    BY <1>0, DialFailureOK
  <2>2. RStep(RegOf(book), RegOf(DialFailureOp(book, p).b))
    BY <1>0, DialFailureStep
  <2> QED BY <1>10, <2>1, <2>2, CommitPeers DEF InjectDialFailure, RegOf
<1>11. ASSUME NEW p \in RemotePeers, NEW a \in InputAddrs(p),
              NEW kind \in {"ConnectionEstablished", "AddressChanged"},
              Commit(ConnectOp(book, p, a, kind))
       PROVE RStep(RegOf(book), RegOf(book'))
  <2>1. a \in Addr /\ p \in Peers /\ kind \in EventKinds
    BY DEF InputAddrs, Addr, RemotePeers, EventKinds
  <2>2. OutOK(ConnectOp(book, p, a, kind))
    BY <1>0, <2>1, ConnectOK
  <2>3. RStep(RegOf(book), RegOf(ConnectOp(book, p, a, kind).b))
    BY <1>0, <2>1, ConnectStep
  <2> QED BY <1>11, <2>2, <2>3, CommitPeers DEF RegOf
<1>12. ASSUME NEW p \in RemotePeers, NEW a \in InputAddrs(p), InjectAddrReachFailure(p, a)
       PROVE RStep(RegOf(book), RegOf(book'))
  <2>1. a \in Addr
    BY DEF InputAddrs, Addr, RemotePeers
  <2>2. OutOK(AddrReachFailureOp(book, p, a))
    BY <1>0, AddrReachFailureOK
  <2>3. RStep(RegOf(book), RegOf(AddrReachFailureOp(book, p, a).b))
    BY <1>0, <2>1, AddrReachFailureStep
  <2> QED BY <1>12, <2>2, <2>3, CommitPeers DEF InjectAddrReachFailure, RegOf
<1>13. ASSUME NEW kind \in LocalEventKinds, InjectLocalEvent(kind)
       PROVE RStep(RegOf(book), RegOf(book'))
  <2>1. OutOK(ObserveOp(book, kind))
    BY <1>0 DEF ObserveOp, OutOK, Out, Ev, Event
  <2>2. book'.peers = book.peers
    BY <1>13, <2>1, CommitPeers DEF InjectLocalEvent, ObserveOp, Out
  <2> QED BY <2>2, SamePeersStep
<1>14. CASE UNCHANGED vars
  BY <1>14 DEF vars, RStep
<1> QED BY <1>1, <1>2, <1>3, <1>4, <1>5, <1>6, <1>7, <1>8, <1>9, <1>10, <1>11,
           <1>12, <1>13, <1>14
        DEF Next, InjectConnectionEstablished, InjectAddressChange

\* The address book implements the abstract registry, for every value of
\* the constants: from AddressBook::new, every method and callback either
\* leaves the registry of PeerInfo address stores alone, learns one address
\* a peer did not have with the source of that report (add_address and
\* inject_connection_established never overwrite a source), unlearns one
\* (remove_address, inject_addr_reach_failure), or forgets a peer whose
\* store pruning has emptied (inject_dial_failure).
THEOREM RegistryRefinement == Spec => RegistryRefined
<1>1. TypeOK /\ [Next]_vars => [Abs!RNext]_Registered
  BY NextRefines, StepIsAbstract
<1> QED BY <1>1, InitRefines, TypeCorrect, PTL DEF Spec, RegistryRefined, Abs!RSpec

=============================================================================
