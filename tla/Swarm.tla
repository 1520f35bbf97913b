-------------------------------- MODULE Swarm --------------------------------
(***************************************************************************)
(* The address book driven by the runtime that owns it: the libp2p Swarm  *)
(* polls the book for DialPeer actions, dials the addresses the book gives *)
(* it, opens and closes connections, and calls the book's callbacks.  The  *)
(* Swarm is not code of this repository; its behaviour (libp2p-swarm's    *)
(* handling of DialPeer{Disconnected}, of an empty address list and of a  *)
(* dial attempt's successive addresses) is modelled from the spec's §4.4   *)
(* and §6 and the callback order they describe.  Callbacks that the Swarm *)
(* makes one after the other in one poll are one step here:               *)
(*   addr_reach_failure of the last address, then dial_failure;           *)
(*   connection_established, then connected for the first connection;     *)
(*   connection_closed, then disconnected for the last connection.        *)
(* The application adds and removes addresses and dials.  set_rtt and     *)
(* set_info (ping and identify) touch neither addresses, connections nor  *)
(* the action queue and are left to module AddressBook.                   *)
(* The runtime also opens and closes listeners, and reports listen and    *)
(* external addresses; every callback moves the gauges of module Metrics. *)
(***************************************************************************)
EXTENDS AddressBook, Metrics

CONSTANTS
  MaxEnvAdds,   \* how many times the environment may bring a new address
  MaxQueue,     \* how many DialPeer actions the application may queue
  ListenerIds,  \* ListenerId values the runtime hands out
  ListenAddrs,  \* addresses a listener may report
  ExtAddrs      \* addresses the runtime may confirm as external

ASSUME SwarmBoundsAssumption == MaxEnvAdds \in Nat /\ MaxQueue \in Nat

VARIABLES
  attempt,  \* attempt[p]: addresses the ongoing dial of p has still to try
  conns,    \* conns[p]: remote addresses of open connections to p, as the
            \* Swarm reports them (a dialed address carries /p2p, an
            \* inbound one does not)
  budget,   \* address-bringing environment steps left (bound MaxEnvAdds)
  gauge,    \* gauge[g]: the value of the IntGauge static g
  lstate,   \* lstate[id]: "idle" (not yet created), "open" or "closed"
  laddrs,   \* laddrs[id]: the listen addresses listener id reports
  external  \* the confirmed external addresses

lvars == <<lstate, laddrs, external>>
svars == <<book, chan, rxLive, view, attempt, conns, budget, gauge, lstate, laddrs, external>>

\* notify the events of a callback's result, and move the gauges the
\* callback moves next to each notify.
MCommit(o) == Commit(o) /\ gauge' = Moved(gauge, o.ev)

\* Two callbacks made one after the other: the second runs on the book the
\* first leaves, and the events are notified in that order.
Then(o1, o2) == Out(o2.b, o1.ev \o o2.ev)

\* inject_connected / inject_disconnected (the gauge is module Metrics').
ConnectedOp(b, p) == Out(b, <<Ev("Connected", p)>>)
DisconnectedOp(b, p) == Out(b, <<Ev("Disconnected", p)>>)

\* The remote address of an inbound connection: no /p2p suffix.
Remote(loc) == [loc |-> loc, p2p |-> NoPeer]

SInit ==
  /\ Init
  /\ attempt = [p \in RemotePeers |-> {}]
  /\ conns = [p \in RemotePeers |-> {}]
  /\ budget = MaxEnvAdds
  /\ gauge = ZeroGauges
  /\ lstate = [id \in ListenerIds |-> "idle"]
  /\ laddrs = [id \in ListenerIds |-> {}]
  /\ external = {}

-----------------------------------------------------------------------------
(* The runtime.                                                            *)

\* The Swarm polls the book and handles DialPeer{Disconnected}: it dials
\* when p has neither a connection nor a dial in progress (with no address
\* the dial fails at once and the Swarm calls inject_dial_failure);
\* otherwise it only adds the book's addresses to a dial in progress.
PollDial ==
  LET p == Head(book.actions)
      b1 == [book EXCEPT !.actions = Tail(@)]
      addrs == AddressesOfPeer(b1, p)
  IN /\ book.actions # <<>>
     /\ IF conns[p] = {} /\ attempt[p] = {}
        THEN IF addrs = {}
             THEN MCommit(DialFailureOp(b1, p)) /\ UNCHANGED attempt
             ELSE /\ book' = b1
                  /\ attempt' = [attempt EXCEPT ![p] = addrs]
                  /\ UNCHANGED <<chan, gauge>>
        ELSE /\ book' = b1
             /\ attempt' = IF attempt[p] # {} THEN [attempt EXCEPT ![p] = @ \cup addrs]
                           ELSE attempt
             /\ UNCHANGED <<chan, gauge>>
     /\ UNCHANGED <<conns, budget, rxLive, view>> /\ UNCHANGED lvars

\* One address of the dial fails: inject_addr_reach_failure, and when it
\* was the last one, inject_dial_failure.
AttemptFail(p, a) ==
  LET r == AddrReachFailureOp(book, p, a)
      rest == attempt[p] \ {a}
  IN /\ a \in attempt[p]
     /\ MCommit(IF rest = {} THEN Then(r, DialFailureOp(r.b, p)) ELSE r)
     /\ attempt' = [attempt EXCEPT ![p] = rest]
     /\ UNCHANGED <<conns, budget, rxLive, view>> /\ UNCHANGED lvars

\* A new connection to p at a: inject_connection_established, then
\* inject_connected if it is p's first connection.
Established(p, a) ==
  LET r == ConnectOp(book, p, a, "ConnectionEstablished")
  IN /\ a \notin conns[p]
     /\ MCommit(IF conns[p] = {} THEN Then(r, ConnectedOp(r.b, p)) ELSE r)
     /\ conns' = [conns EXCEPT ![p] = @ \cup {a}]
     /\ UNCHANGED lvars

\* One address of the dial succeeds; the dial is over.
AttemptSucceed(p, a) ==
  /\ a \in attempt[p]
  /\ Established(p, a)
  /\ attempt' = [attempt EXCEPT ![p] = {}]
  /\ UNCHANGED <<budget, rxLive, view>>

\* p connects to us from loc.
Inbound(p, loc) ==
  /\ budget > 0
  /\ Established(p, Remote(loc))
  /\ budget' = budget - 1
  /\ UNCHANGED <<attempt, rxLive, view>>

\* The connection at a closes: inject_connection_closed, then
\* inject_disconnected if it was p's last connection.
Close(p, a) ==
  LET r == ConnectionClosedOp(book, p)
  IN /\ a \in conns[p]
     /\ MCommit(IF conns[p] = {a} THEN Then(r, DisconnectedOp(r.b, p)) ELSE r)
     /\ conns' = [conns EXCEPT ![p] = (@ \ {a})]
     /\ UNCHANGED <<attempt, budget, rxLive, view>> /\ UNCHANGED lvars

\* The connection at old now has remote address new: inject_address_change.
AddressChange(p, old, loc) ==
  LET new == Remote(loc)
  IN /\ budget > 0
     /\ old \in conns[p]
     /\ new \notin conns[p]
     /\ MCommit(ConnectOp(book, p, new, "AddressChanged"))
     /\ conns' = [conns EXCEPT ![p] = (@ \ {old}) \cup {new}]
     /\ budget' = budget - 1
     /\ UNCHANGED <<attempt, rxLive, view>> /\ UNCHANGED lvars

-----------------------------------------------------------------------------
(* The application (and the discovery behaviours that call add_address).   *)

UserAddAddress(p, a, src) ==
  /\ budget > 0
  /\ MCommit(AddAddressOp(book, p, a, src))
  /\ budget' = budget - 1
  /\ UNCHANGED <<attempt, conns, rxLive, view>> /\ UNCHANGED lvars

UserRemoveAddress(p, a) ==
  RemoveAddress(p, a) /\ UNCHANGED <<attempt, conns, budget, gauge>> /\ UNCHANGED lvars

UserDial(p) ==
  /\ Len(book.actions) < MaxQueue
  /\ Dial(p)
  /\ UNCHANGED <<attempt, conns, budget, gauge>> /\ UNCHANGED lvars

SubscriberStep ==
  \E s \in Subscribers :
    /\ SwarmEvents(s) \/ Receive(s) \/ DropReceiver(s)
    /\ UNCHANGED <<attempt, conns, budget, gauge>> /\ UNCHANGED lvars

-----------------------------------------------------------------------------
(* Listeners and external addresses, as the runtime reports them: a       *)
(* listener is created once, reports and expires addresses, may report    *)
(* non-fatal errors, and when it closes the runtime first expires each of *)
(* its addresses, then reports the close.  Each report is one of the      *)
(* observe-and-forward callbacks (ObserveOp).                             *)

\* n callbacks of the same kind in a row.
Observed(kind, n) == Out(book, [i \in 1 .. n |-> Ev(kind, NoPeer)])

\* The runtime's steps leave the dialing state alone.
ListenerStep(o) == MCommit(o) /\ UNCHANGED <<attempt, conns, budget, rxLive, view>>

NewListener(id) ==
  /\ lstate[id] = "idle"
  /\ ListenerStep(ObserveOp(book, "NewListener"))
  /\ lstate' = [lstate EXCEPT ![id] = "open"]
  /\ UNCHANGED <<laddrs, external>>

NewListenAddr(id, a) ==
  /\ lstate[id] = "open"
  /\ a \notin laddrs[id]
  /\ ListenerStep(ObserveOp(book, "NewListenAddr"))
  /\ laddrs' = [laddrs EXCEPT ![id] = @ \cup {a}]
  /\ UNCHANGED <<lstate, external>>

ExpiredListenAddr(id, a) ==
  /\ a \in laddrs[id]
  /\ ListenerStep(ObserveOp(book, "ExpiredListenAddr"))
  /\ laddrs' = [laddrs EXCEPT ![id] = @ \ {a}]
  /\ UNCHANGED <<lstate, external>>

ListenerError(id) ==
  /\ lstate[id] = "open"
  /\ ListenerStep(ObserveOp(book, "ListenerError"))
  /\ UNCHANGED lvars

ListenerClosed(id) ==
  /\ lstate[id] = "open"
  /\ ListenerStep(Then(Observed("ExpiredListenAddr", Cardinality(laddrs[id])),
                        ObserveOp(book, "ListenerClosed")))
  /\ lstate' = [lstate EXCEPT ![id] = "closed"]
  /\ laddrs' = [laddrs EXCEPT ![id] = {}]
  /\ UNCHANGED external

NewExternalAddr(a) ==
  /\ a \notin external
  /\ ListenerStep(ObserveOp(book, "NewExternalAddr"))
  /\ external' = external \cup {a}
  /\ UNCHANGED <<lstate, laddrs>>

ExpiredExternalAddr(a) ==
  /\ a \in external
  /\ ListenerStep(ObserveOp(book, "ExpiredExternalAddr"))
  /\ external' = external \ {a}
  /\ UNCHANGED <<lstate, laddrs>>

ListenerNext ==
  \/ \E id \in ListenerIds :
       \/ NewListener(id) \/ ListenerError(id) \/ ListenerClosed(id)
       \/ \E a \in ListenAddrs : NewListenAddr(id, a) \/ ExpiredListenAddr(id, a)
  \/ \E a \in ExtAddrs : NewExternalAddr(a) \/ ExpiredExternalAddr(a)

SNext ==
  \/ PollDial
  \/ \E p \in RemotePeers :
       \/ \E a \in attempt[p] : AttemptFail(p, a) \/ AttemptSucceed(p, a)
       \/ \E loc \in Locs : Inbound(p, loc)
       \/ \E a \in conns[p] : Close(p, a) \/ \E loc \in Locs : AddressChange(p, a, loc)
  \/ \E p \in Peers :
       \/ UserDial(p)
       \/ \E a \in InputAddrs(p) :
            \/ UserRemoveAddress(p, a)
            \/ \E src \in InputSources : UserAddAddress(p, a, src)
  \/ SubscriberStep
  \/ ListenerNext

\* The Swarm polls its behaviour whenever it is woken, and every dial
\* attempt ends (the transport's timeouts bound each address's attempt).
SFairness ==
  /\ WF_svars(PollDial)
  /\ \A p \in RemotePeers :
       WF_svars(\E a \in attempt[p] : AttemptFail(p, a) \/ AttemptSucceed(p, a))

SSpec == SInit /\ [][SNext]_svars /\ SFairness

-----------------------------------------------------------------------------
(* Properties.                                                             *)

\* is_connected never lies in the positive direction: when the book tracks
\* an address for p, the Swarm holds a connection to p at that address,
\* whatever order connections open, change address and close in.
TrackerSound ==
  \A p \in DOMAIN book.connections :
    book.connections[p] \in {Normalize(c, p) : c \in conns[p]}

\* The redial-on-new-address policy ends: once the environment stops
\* bringing addresses, every dial of p ends with p connected or, pruning,
\* with p declared unreachable and forgotten (inject_dial_failure redials
\* only while pruning has left addresses, and each failed address of a
\* disconnected peer is pruned).
DialOutcome ==
  \A p \in RemotePeers :
    attempt[p] # {} ~> (conns[p] # {} \/ p \notin DOMAIN book.peers)

\* Registry completeness (spec §3: callbacks add the address before they
\* record the connection): every peer is_connected reports has a record.
ConnectedPeerKnown ==
  \A p \in DOMAIN book.connections : p \in DOMAIN book.peers

\* is_connected(p) holds while the Swarm has a connection to p (spec §6
\* "is_connected(peer)"; inject_addr_reach_failure relies on it to keep
\* the addresses of a peer that is still connected).
TrackerComplete ==
  \A p \in RemotePeers : conns[p] # {} => p \in DOMAIN book.connections

\* The gauges the code keeps right: whatever order the runtime opens and
\* closes connections and listeners in, CONNECTED is the number of peers
\* with an open connection (inject_connected fires on the first
\* connection, inject_disconnected on the last), LISTENERS the number of
\* open listeners, LISTEN_ADDRS the number of listen addresses reported
\* and not expired (a closing listener's addresses are expired first), and
\* EXTERNAL_ADDRS the number of confirmed external addresses.
GaugesAccurate ==
  /\ gauge["connected"] = Cardinality({p \in RemotePeers : conns[p] # {}})
  /\ gauge["listeners"] = Cardinality({id \in ListenerIds : lstate[id] = "open"})
  /\ gauge["listen_addrs"] = Cardinality(UNION {{<<id, a>> : a \in laddrs[id]} : id \in ListenerIds})
  /\ gauge["external_addrs"] = Cardinality(external)

\* "Number of discovered peers" (DISCOVERED, spec §6 "discovered-peer
\* count"): the gauge equals the number of peers the registry holds.
\* inject_dial_failure decrements it on every Unreachable, and add_address
\* never increments it on Discovered.
DiscoveredGauge == gauge["discovered"] = Cardinality(DOMAIN book.peers)

\* "Number of connections." (CONNECTIONS, spec §6 "connection count"):
\* the gauge equals the number of open connections; no callback moves it.
ConnectionsGauge ==
  gauge["connections"] = Cardinality(UNION {{<<p, c>> : c \in conns[p]} : p \in RemotePeers})

=============================================================================
