----------------------------- MODULE Swarm_proofs -----------------------------
(***************************************************************************)
(* Proofs about module Swarm, for every value of its constants: the       *)
(* connection tracker of the book only ever names open connections        *)
(* (TrackerSound), whatever the runtime and the application do.  The      *)
(* method lemmas of AddressBook_proofs carry the typing; the lemmas here   *)
(* say which results touch the connections map and how.                   *)
(***************************************************************************)
EXTENDS Swarm, AddressBook_proofs, FiniteSetTheorems

-----------------------------------------------------------------------------
(* Callbacks made in a row, and what the methods do to connections.       *)

\* Two well-formed callback results in a row make a well-formed result.
LEMMA ThenOK ==
  ASSUME NEW o1, NEW o2, OutOK(o1), OutOK(o2)
  PROVE  OutOK(Then(o1, o2))
BY DEF Then, OutOK, Out

\* inject_connected and inject_disconnected (ConnectedOp, DisconnectedOp)
\* are well formed and leave the book alone.
LEMMA ConnectedOpOK ==
  ASSUME NEW b, BookOK(b), NEW p \in RemotePeers
  PROVE  /\ OutOK(ConnectedOp(b, p)) /\ ConnectedOp(b, p).b = b
         /\ OutOK(DisconnectedOp(b, p)) /\ DisconnectedOp(b, p).b = b
<1>1. "Connected" \in EventKinds /\ "Disconnected" \in EventKinds
  BY DEF EventKinds
<1> QED BY <1>1, EvOK DEF ConnectedOp, DisconnectedOp, OutOK, Out, RemotePeers

\* The methods other than the connection callbacks leave the connections
\* map as it is.
LEMMA OpsKeepConnections ==
  ASSUME NEW b, BookOK(b), NEW p, NEW a, NEW src
  PROVE  /\ AddAddressOp(b, p, a, src).b.connections = b.connections
         /\ RemoveAddressOp(b, p, a).connections = b.connections
         /\ DialOp(b, p).connections = b.connections
         /\ AddrReachFailureOp(b, p, a).b.connections = b.connections
         /\ DialFailureOp(b, p).b.connections = b.connections
<1>1. AddAddressOp(b, p, a, src).b.connections = b.connections
  BY DEF AddAddressOp, Out, BookOK
<1>2. RemoveAddressOp(b, p, a).connections = b.connections
  BY DEF RemoveAddressOp, BookOK
<1>3. DialOp(b, p).connections = b.connections
  BY DEF DialOp, BookOK
<1>4. AddrReachFailureOp(b, p, a).b.connections = b.connections
  BY <1>2 DEF AddrReachFailureOp, Out
<1>5. DialFailureOp(b, p).b.connections = b.connections
  BY <1>3 DEF DialFailureOp, Out, BookOK
<1> QED BY <1>1, <1>2, <1>3, <1>4, <1>5

\* inject_connection_established / inject_address_change make the
\* normalized address the tracked address of p, and nothing else.
LEMMA ConnectConnections ==
  ASSUME NEW b, BookOK(b), NEW p \in Peers, NEW a \in Addr, NEW kind
  PROVE  ConnectOp(b, p, a, kind).b.connections = Put(b.connections, p, Normalize(a, p))
<1> DEFINE r == AddAddressOp(b, p, Normalize(a, p), "Peer")
<1>1. r.b.connections = b.connections
  BY OpsKeepConnections
<1>2. BookOK(r.b)
  <2>1. Normalize(a, p) \in Addr /\ "Peer" \in Sources
    BY NormalizeOK DEF Sources
  <2> QED BY <2>1, AddAddressOK DEF OutOK
<1> QED BY <1>1, <1>2 DEF ConnectOp, Out, BookOK

\* inject_connection_closed forgets the tracked address of p.
LEMMA ClosedConnections ==
  ASSUME NEW b, BookOK(b), NEW p
  PROVE  ConnectionClosedOp(b, p).b.connections = MapRemove(b.connections, p)
BY DEF ConnectionClosedOp, Out, BookOK

\* notify leaves the connections map of the method's result as it is.
LEMMA CommitConnections ==
  ASSUME NEW o, OutOK(o), Commit(o)
  PROVE  book'.connections = o.b.connections
BY DEF Commit, OutOK, BookOK

-----------------------------------------------------------------------------
(* The tracker invariant.                                                  *)

\* What the tracker proof needs of the listeners: ListenerClosed expires
\* each address of the listener, so their number must be a number.
LInv ==
  /\ laddrs \in [ListenerIds -> SUBSET ListenAddrs]
  /\ \A id \in ListenerIds : IsFiniteSet(laddrs[id])

\* The inductive invariant: the book is well formed, the runtime's dial
\* attempts and connections are sets of addresses per remote peer, each
\* listener reports finitely many addresses, and the tracker is sound.
SInv ==
  /\ TypeOK
  /\ attempt \in [RemotePeers -> SUBSET Addr]
  /\ conns \in [RemotePeers -> SUBSET Addr]
  /\ LInv
  /\ TrackerSound

\* A step that keeps the book well formed and touches neither the tracker,
\* the dial attempts, the connections nor the listeners keeps the invariant.
LEMMA KeepsTracker ==
  ASSUME SInv, TypeOK', book'.connections = book.connections,
         attempt' = attempt, conns' = conns, laddrs' = laddrs
  PROVE  SInv'
BY DEF SInv, LInv, TrackerSound

\* A callback that leaves the connections map alone keeps the invariant.
LEMMA CommitKeeps ==
  ASSUME SInv, NEW o, OutOK(o), Commit(o), UNCHANGED <<rxLive, view>>,
         o.b.connections = book.connections,
         attempt' \in [RemotePeers -> SUBSET Addr], conns' = conns, LInv'
  PROVE  SInv'
<1>1. TypeOK'
  BY CommitOK DEF SInv
<1>2. book'.connections = book.connections
  BY CommitConnections
<1> QED BY <1>1, <1>2 DEF SInv, TrackerSound

\* The remote address of an inbound connection is an address.
LEMMA RemoteOK ==
  ASSUME NEW loc \in Locs
  PROVE  Remote(loc) \in Addr
BY DEF Remote, Addr

\* AddressBook::new and the runtime's start satisfy the invariant.
LEMMA SInitInv == SInit => SInv
<1> SUFFICES ASSUME SInit PROVE SInv
  OBVIOUS
<1>1. TypeOK
  BY InitTypeOK DEF SInit
<1>2. LInv
  BY FS_EmptySet DEF SInit, LInv
<1> QED BY <1>1, <1>2 DEF SInit, Init, EmptyBook, EmptyMap, SInv, TrackerSound

\* A new connection to p at a (inject_connection_established, then
\* inject_connected on the first one) keeps the invariant.
LEMMA EstablishedInv ==
  ASSUME SInv, NEW p \in RemotePeers, NEW a \in Addr, Established(p, a),
         UNCHANGED <<rxLive, view>>, attempt' \in [RemotePeers -> SUBSET Addr]
  PROVE  SInv'
<1> DEFINE r == ConnectOp(book, p, a, "ConnectionEstablished")
           o == IF conns[p] = {} THEN Then(r, ConnectedOp(r.b, p)) ELSE r
<1>0. BookOK(book)
  BY DEF SInv, TypeOK
<1>1. OutOK(r)
  <2>1. "ConnectionEstablished" \in EventKinds
    BY DEF EventKinds
  <2> QED BY <1>0, <2>1, ConnectOK
<1>2. OutOK(o) /\ o.b = r.b
  <2>1. BookOK(r.b)
    BY <1>1 DEF OutOK
  <2>2. OutOK(ConnectedOp(r.b, p)) /\ ConnectedOp(r.b, p).b = r.b
    BY <2>1, ConnectedOpOK
  <2> QED BY <1>1, <2>2, ThenOK DEF Then, Out
<1>3. Commit(o)
  BY DEF Established, MCommit
<1>4. TypeOK'
  BY <1>2, <1>3, CommitOK DEF SInv
<1>5. book'.connections = Put(book.connections, p, Normalize(a, p))
  <2>1. r.b.connections = Put(book.connections, p, Normalize(a, p))
    BY <1>0, ConnectConnections DEF RemotePeers
  <2> QED BY <1>2, <1>3, <2>1, CommitConnections
<1>6. conns' = [conns EXCEPT ![p] = @ \cup {a}] /\ laddrs' = laddrs
  BY DEF Established, lvars
<1>7. TrackerSound'
  BY <1>5, <1>6 DEF SInv, TrackerSound, Put
<1> QED BY <1>4, <1>6, <1>7 DEF SInv, LInv


\* Handing the oldest queued action to the runtime keeps the book well
\* formed and leaves its registry and tracker alone.
LEMMA PopOK ==
  ASSUME NEW b, BookOK(b), b.actions # <<>>,
         NEW b1, b1 = [b EXCEPT !.actions = Tail(b.actions)]
  PROVE  BookOK(b1) /\ b1.connections = b.connections /\ b1.peers = b.peers
<1>1. Tail(b.actions) \in Seq(RemotePeers)
  BY DEF BookOK
<1> QED BY <1>1 DEF BookOK

\* The Swarm's poll (PollDial) keeps the invariant: the dialed peer comes
\* from the action queue, so it is remote, and the addresses it adds to a
\* dial are addresses of the book.
LEMMA PollDialInv ==
  ASSUME SInv, PollDial
  PROVE  SInv'
<1>0. BookOK(book)
  BY DEF SInv, TypeOK
<1>1. book.actions # <<>>
  BY DEF PollDial
<1>2. Head(book.actions) \in RemotePeers
  BY <1>0, <1>1 DEF BookOK
<1>3. /\ BookOK([book EXCEPT !.actions = Tail(@)])
      /\ [book EXCEPT !.actions = Tail(@)].connections = book.connections
  BY <1>0, <1>1, PopOK
<1>4. AddressesOfPeer([book EXCEPT !.actions = Tail(@)], Head(book.actions)) \subseteq Addr
  BY <1>3 DEF AddressesOfPeer, BookOK, PeerInfoOK, IsMapOf
<1>5. UNCHANGED <<conns, rxLive, view, laddrs>>
  BY DEF PollDial, lvars
<1> DEFINE hp == Head(book.actions)
           b1 == [book EXCEPT !.actions = Tail(@)]
           addrs == AddressesOfPeer(b1, hp)
<1>6. CASE conns[hp] = {} /\ attempt[hp] = {} /\ addrs = {}
  <2>1. OutOK(DialFailureOp(b1, hp))
    BY <1>2, <1>3, DialFailureOK
  <2>2. DialFailureOp(b1, hp).b.connections = book.connections
    BY <1>3, OpsKeepConnections
  <2>3. Commit(DialFailureOp(b1, hp)) /\ attempt' = attempt
    BY <1>6 DEF PollDial, MCommit
  <2> QED BY <1>5, <2>1, <2>2, <2>3, CommitKeeps DEF SInv, LInv
<1>7. CASE ~(conns[hp] = {} /\ attempt[hp] = {} /\ addrs = {})
  <2>1. book' = b1 /\ chan' = chan
    BY <1>7 DEF PollDial
  <2>2. attempt' \in [RemotePeers -> SUBSET Addr]
    BY <1>2, <1>4, <1>7 DEF PollDial, SInv
  <2>3. TypeOK'
    BY <1>3, <1>5, <2>1 DEF SInv, TypeOK
  <2> QED BY <1>3, <1>5, <2>1, <2>2, <2>3 DEF SInv, LInv, TrackerSound
<1> QED BY <1>6, <1>7

\* A failed address of a dial (inject_addr_reach_failure, and
\* inject_dial_failure after the last one) keeps the invariant.
LEMMA AttemptFailInv ==
  ASSUME SInv, NEW p \in RemotePeers, NEW a, AttemptFail(p, a)
  PROVE  SInv'
<1> DEFINE r == AddrReachFailureOp(book, p, a)
           o == IF attempt[p] \ {a} = {} THEN Then(r, DialFailureOp(r.b, p)) ELSE r
<1>0. BookOK(book)
  BY DEF SInv, TypeOK
<1>1. OutOK(r) /\ r.b.connections = book.connections
  <2>1. OutOK(r)
    BY <1>0, AddrReachFailureOK
  <2>2. r.b.connections = book.connections
    BY <1>0, OpsKeepConnections
  <2> QED BY <2>1, <2>2
<1>2. OutOK(o) /\ o.b.connections = book.connections
  <2>1. BookOK(r.b)
    BY <1>1 DEF OutOK
  <2>2. OutOK(DialFailureOp(r.b, p)) /\ DialFailureOp(r.b, p).b.connections = r.b.connections
    BY <2>1, DialFailureOK, OpsKeepConnections
  <2> QED BY <1>1, <2>2, ThenOK DEF Then, Out
<1>3. /\ Commit(o)
      /\ attempt' = [attempt EXCEPT ![p] = attempt[p] \ {a}]
      /\ UNCHANGED <<conns, rxLive, view, laddrs>>
  BY DEF AttemptFail, MCommit, lvars
<1>4. attempt' \in [RemotePeers -> SUBSET Addr] /\ LInv'
  BY <1>3 DEF SInv, LInv
<1> QED BY <1>2, <1>3, <1>4, CommitKeeps

\* A closing connection (inject_connection_closed, and
\* inject_disconnected after the last one) keeps the invariant: the
\* tracker forgets p.
LEMMA CloseInv ==
  ASSUME SInv, NEW p \in RemotePeers, NEW a, Close(p, a)
  PROVE  SInv'
<1> DEFINE r == ConnectionClosedOp(book, p)
           o == IF conns[p] = {a} THEN Then(r, DisconnectedOp(r.b, p)) ELSE r
<1>0. BookOK(book)
  BY DEF SInv, TypeOK
<1>1. OutOK(r)
  BY <1>0, ConnectionClosedOK
<1>2. OutOK(o) /\ o.b = r.b
  <2>1. OutOK(DisconnectedOp(r.b, p)) /\ DisconnectedOp(r.b, p).b = r.b
    BY <1>1, ConnectedOpOK DEF OutOK
  <2> QED BY <1>1, <2>1, ThenOK DEF Then, Out
<1>3. /\ Commit(o)
      /\ conns' = [conns EXCEPT ![p] = @ \ {a}]
      /\ UNCHANGED <<attempt, rxLive, view, laddrs>>
  BY DEF Close, MCommit, lvars
<1>4. TypeOK'
  BY <1>2, <1>3, CommitOK DEF SInv
<1>5. book'.connections = MapRemove(book.connections, p)
  BY <1>0, <1>2, <1>3, ClosedConnections, CommitConnections
<1>6. TrackerSound'
  BY <1>3, <1>5 DEF SInv, TrackerSound, MapRemove
<1> QED BY <1>3, <1>4, <1>6 DEF SInv, LInv

\* A connection that changes its remote address (inject_address_change)
\* keeps the invariant: the tracker follows the new address.
LEMMA AddressChangeInv ==
  ASSUME SInv, NEW p \in RemotePeers, NEW old, NEW loc \in Locs,
         AddressChange(p, old, loc)
  PROVE  SInv'
<1> DEFINE new == Remote(loc)
           r == ConnectOp(book, p, new, "AddressChanged")
<1>0. BookOK(book)
  BY DEF SInv, TypeOK
<1>1. new \in Addr
  BY RemoteOK
<1>2. OutOK(r)
  <2>1. "AddressChanged" \in EventKinds
    BY DEF EventKinds
  <2> QED BY <1>0, <1>1, <2>1, ConnectOK
<1>3. /\ Commit(r)
      /\ conns' = [conns EXCEPT ![p] = (@ \ {old}) \cup {new}]
      /\ UNCHANGED <<attempt, rxLive, view, laddrs>>
  BY DEF AddressChange, MCommit, lvars
<1>4. TypeOK'
  BY <1>2, <1>3, CommitOK DEF SInv
<1>5. book'.connections = Put(book.connections, p, Normalize(new, p))
  <2>1. r.b.connections = Put(book.connections, p, Normalize(new, p))
    BY <1>0, <1>1, ConnectConnections DEF RemotePeers
  <2> QED BY <1>2, <1>3, <2>1, CommitConnections
<1>6. TrackerSound'
  BY <1>3, <1>5 DEF SInv, TrackerSound, Put
<1> QED BY <1>1, <1>3, <1>4, <1>6 DEF SInv, LInv


-----------------------------------------------------------------------------
(* The listener callbacks.                                                 *)

\* An observe-and-forward callback is well formed.
LEMMA ObserveOpOK ==
  ASSUME NEW b, BookOK(b), NEW kind \in LocalEventKinds
  PROVE  OutOK(ObserveOp(b, kind))
<1>1. Ev(kind, NoPeer) \in Event
  BY DEF Ev, Event
<1> QED BY <1>1 DEF ObserveOp, OutOK, Out

\* n of them in a row are too.
LEMMA ObservedOK ==
  ASSUME BookOK(book), NEW kind \in LocalEventKinds, NEW n \in Nat
  PROVE  OutOK(Observed(kind, n))
<1>1. Ev(kind, NoPeer) \in Event
  BY DEF Ev, Event
<1> QED BY <1>1 DEF Observed, OutOK, Out

\* A listener callback leaves the book as it is, so it keeps the invariant
\* when the listeners keep theirs.
LEMMA ListenerStepInv ==
  ASSUME SInv, NEW o, OutOK(o), o.b = book, ListenerStep(o), LInv'
  PROVE  SInv'
BY CommitKeeps DEF ListenerStep, MCommit, SInv

\* Every listener callback keeps the invariant.
LEMMA ListenerInv ==
  ASSUME SInv, ListenerNext
  PROVE  SInv'
<1>0. BookOK(book)
  BY DEF SInv, TypeOK
<1>1. ASSUME NEW kind \in LocalEventKinds, ListenerStep(ObserveOp(book, kind)), LInv'
      PROVE  SInv'
  BY <1>0, <1>1, ObserveOpOK, ListenerStepInv DEF ObserveOp, Out
<1>2. /\ "NewListener" \in LocalEventKinds /\ "NewListenAddr" \in LocalEventKinds
      /\ "ExpiredListenAddr" \in LocalEventKinds /\ "ListenerError" \in LocalEventKinds
      /\ "ListenerClosed" \in LocalEventKinds /\ "NewExternalAddr" \in LocalEventKinds
      /\ "ExpiredExternalAddr" \in LocalEventKinds
  BY DEF LocalEventKinds
<1>3. ASSUME NEW id \in ListenerIds, NewListener(id) \/ ListenerError(id) PROVE SInv'
  <2>1. LInv'
    BY <1>3 DEF NewListener, ListenerError, lvars, SInv, LInv
  <2> QED BY <1>1, <1>2, <1>3, <2>1 DEF NewListener, ListenerError
<1>4. ASSUME NEW id \in ListenerIds, NEW a \in ListenAddrs, NewListenAddr(id, a)
      PROVE  SInv'
  <2>1. IsFiniteSet(laddrs[id] \cup {a})
    BY FS_AddElement DEF SInv, LInv
  <2>2. LInv'
    BY <1>4, <2>1 DEF NewListenAddr, SInv, LInv
  <2> QED BY <1>1, <1>2, <1>4, <2>2 DEF NewListenAddr
<1>5. ASSUME NEW id \in ListenerIds, NEW a \in ListenAddrs, ExpiredListenAddr(id, a)
      PROVE  SInv'
  <2>1. IsFiniteSet(laddrs[id] \ {a})
    BY FS_RemoveElement DEF SInv, LInv
  <2>2. LInv'
    BY <1>5, <2>1 DEF ExpiredListenAddr, SInv, LInv
  <2> QED BY <1>1, <1>2, <1>5, <2>2 DEF ExpiredListenAddr
<1>6. ASSUME NEW id \in ListenerIds, ListenerClosed(id) PROVE SInv'
  <2> DEFINE n == Cardinality(laddrs[id])
             o == Then(Observed("ExpiredListenAddr", n), ObserveOp(book, "ListenerClosed"))
  <2>1. n \in Nat
    BY FS_CardinalityType DEF SInv, LInv
  <2>2. OutOK(o) /\ o.b = book
    BY <1>0, <1>2, <2>1, ObservedOK, ObserveOpOK, ThenOK DEF Then, ObserveOp, Out
  <2>3. LInv'
    BY <1>6, FS_EmptySet DEF ListenerClosed, SInv, LInv
  <2> QED BY <1>6, <2>2, <2>3, ListenerStepInv DEF ListenerClosed
<1>7. ASSUME NEW a \in ExtAddrs, NewExternalAddr(a) \/ ExpiredExternalAddr(a) PROVE SInv'
  <2>1. LInv'
    BY <1>7 DEF NewExternalAddr, ExpiredExternalAddr, SInv, LInv
  <2> QED BY <1>1, <1>2, <1>7, <2>1 DEF NewExternalAddr, ExpiredExternalAddr
<1> QED BY <1>3, <1>4, <1>5, <1>6, <1>7 DEF ListenerNext

-----------------------------------------------------------------------------
(* The application's calls and the whole runtime.                         *)

\* A method of the book that is a step of module AddressBook, and leaves
\* the tracker, the runtime and the listeners alone, keeps the invariant.
LEMMA BookStepInv ==
  ASSUME SInv, Next, book'.connections = book.connections,
         UNCHANGED <<attempt, conns>>, UNCHANGED lvars
  PROVE  SInv'
<1>1. TypeOK'
  BY NextTypeOK DEF SInv
<1> QED BY <1>1, KeepsTracker DEF lvars

\* Every step of the runtime and of the application keeps the invariant.
LEMMA SNextInv == SInv /\ [SNext]_svars => SInv'
<1> SUFFICES ASSUME SInv, [SNext]_svars PROVE SInv'
  OBVIOUS
<1>0. BookOK(book)
  BY DEF SInv, TypeOK
<1>1. CASE PollDial
  BY <1>1, PollDialInv
<1>2. ASSUME NEW p \in RemotePeers, NEW a \in attempt[p], AttemptFail(p, a) PROVE SInv'
  BY <1>2, AttemptFailInv
<1>3. ASSUME NEW p \in RemotePeers, NEW a \in attempt[p], AttemptSucceed(p, a) PROVE SInv'
  <2>1. a \in Addr /\ attempt' \in [RemotePeers -> SUBSET Addr]
    BY <1>3 DEF AttemptSucceed, SInv
  <2> QED BY <1>3, <2>1, EstablishedInv DEF AttemptSucceed
<1>4. ASSUME NEW p \in RemotePeers, NEW loc \in Locs, Inbound(p, loc) PROVE SInv'
  <2>1. Remote(loc) \in Addr /\ attempt' \in [RemotePeers -> SUBSET Addr]
    BY <1>4, RemoteOK DEF Inbound, SInv
  <2> QED BY <1>4, <2>1, EstablishedInv DEF Inbound
<1>5. ASSUME NEW p \in RemotePeers, NEW a, Close(p, a) PROVE SInv'
  BY <1>5, CloseInv
<1>6. ASSUME NEW p \in RemotePeers, NEW a, NEW loc \in Locs, AddressChange(p, a, loc)
      PROVE  SInv'
  BY <1>6, AddressChangeInv
<1>7. ASSUME NEW p \in Peers, UserDial(p) PROVE SInv'
  <2>1. Next
    BY <1>7 DEF UserDial, Next
  <2>2. book'.connections = book.connections
    BY <1>0, <1>7, OpsKeepConnections DEF UserDial, Dial
  <2> QED BY <1>7, <2>1, <2>2, BookStepInv DEF UserDial
<1>8. ASSUME NEW p \in Peers, NEW a \in InputAddrs(p), UserRemoveAddress(p, a) PROVE SInv'
  <2>1. Next
    BY <1>8 DEF UserRemoveAddress, Next
  <2>2. book'.connections = book.connections
    BY <1>0, <1>8, OpsKeepConnections DEF UserRemoveAddress, RemoveAddress
  <2> QED BY <1>8, <2>1, <2>2, BookStepInv DEF UserRemoveAddress
<1>9. ASSUME NEW p \in Peers, NEW a \in InputAddrs(p), NEW src \in InputSources,
             UserAddAddress(p, a, src)
      PROVE  SInv'
  <2>1. a \in Addr /\ src \in Sources
    BY SourcesAssumption DEF InputAddrs, Addr
  <2>2. OutOK(AddAddressOp(book, p, a, src))
    BY <1>0, <2>1, AddAddressOK
  <2>3. AddAddressOp(book, p, a, src).b.connections = book.connections
    BY <1>0, OpsKeepConnections
  <2>4. /\ Commit(AddAddressOp(book, p, a, src))
        /\ UNCHANGED <<attempt, conns, rxLive, view, laddrs>>
    BY <1>9 DEF UserAddAddress, MCommit, lvars
  <2> QED BY <2>2, <2>3, <2>4, CommitKeeps DEF SInv, LInv
<1>10. CASE SubscriberStep
  <2>1. PICK s \in Subscribers :
          /\ SwarmEvents(s) \/ Receive(s) \/ DropReceiver(s)
          /\ UNCHANGED <<attempt, conns>> /\ UNCHANGED lvars
    BY <1>10 DEF SubscriberStep
  <2>2. Next
    BY <2>1 DEF Next
  <2>3. book'.connections = book.connections
    BY <1>0, <2>1 DEF SwarmEvents, Receive, DropReceiver, BookOK
  <2> QED BY <2>1, <2>2, <2>3, BookStepInv
<1>11. CASE ListenerNext
  BY <1>11, ListenerInv
<1>12. CASE UNCHANGED svars
  BY <1>12 DEF svars, SInv, TypeOK, LInv, TrackerSound
<1> QED BY <1>1, <1>2, <1>3, <1>4, <1>5, <1>6, <1>7, <1>8, <1>9, <1>10,
           <1>11, <1>12 DEF SNext

\* Whatever order the Swarm opens connections, changes their addresses
\* and closes them in, and whatever the application and the listeners do
\* meanwhile, is_connected only names a peer at the normalized address of
\* one of its open connections (inject_connection_established,
\* inject_address_change and inject_connection_closed keep the tracker
\* in step with the Swarm).
THEOREM TrackerSoundThm == SSpec => []TrackerSound
<1>1. SInv => TrackerSound
  BY DEF SInv
<1> QED BY <1>1, SInitInv, SNextInv, PTL DEF SSpec

=============================================================================
