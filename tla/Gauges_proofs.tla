---------------------------- MODULE Gauges_proofs ----------------------------
(***************************************************************************)
(* Proof that the CONNECTED, LISTENERS, LISTEN_ADDRS and EXTERNAL_ADDRS   *)
(* gauges count what they are named for (GaugesAccurate), for every value  *)
(* of the constants.                                                       *)
(* A step moves a gauge by the number of the events it notifies that come *)
(* with an inc or a dec of that gauge (Metrics' Moved).  The argument:     *)
(*   - the book's own callbacks notify no event of these four gauges      *)
(*     (Quiet), so their results leave the four gauges alone;             *)
(*   - a step that ends with one gauge event e moves each gauge by e's     *)
(*     inc and dec alone; inject_listener_closed's step moves LISTEN_ADDRS *)
(*     by the number of the listener's addresses and LISTENERS by one;    *)
(*   - each runtime step changes the counted set by the same amount: the  *)
(*     first connection adds a peer, the last one removes it, and so on.  *)
(* The counted sets are finite in every reachable state; that is part of  *)
(* the inductive invariant, so that no constant needs to be finite.       *)
(***************************************************************************)
EXTENDS Swarm_proofs, FiniteSetTheorems

-----------------------------------------------------------------------------
(* Counting events.                                                        *)

\* The event kinds that come with a move of CONNECTED, LISTENERS,
\* LISTEN_ADDRS or EXTERNAL_ADDRS, and those four gauges.
GaugeKinds == {"Connected", "Disconnected", "NewListener", "ListenerClosed",
               "NewListenAddr", "ExpiredListenAddr", "NewExternalAddr",
               "ExpiredExternalAddr"}
Counted == {"connected", "listeners", "listen_addrs", "external_addrs"}

\* No event of es moves one of the four gauges.
Quiet(es) == \A i \in 1 .. Len(es) : es[i].kind \notin GaugeKinds

\* The four gauges move only on their own event kinds.
LEMMA CountedKinds ==
  \A g \in Counted : g \in Gauges /\ IncOf[g] \subseteq GaugeKinds /\ DecOf[g] \subseteq GaugeKinds
BY DEF Counted, Gauges, IncOf, DecOf, GaugeKinds

\* A count of events is a natural number.
LEMMA CountOK ==
  ASSUME NEW es \in Seq(Event), NEW K
  PROVE  CountKinds(es, K) \in Nat
<1>1. IsFiniteSet(1 .. Len(es))
  BY FS_Interval
<1>2. IsFiniteSet({i \in 1 .. Len(es) : es[i].kind \in K})
  BY <1>1, FS_Subset
<1> QED BY <1>2, FS_CardinalityType DEF CountKinds

\* Moving the gauges keeps them integers.
LEMMA MovedOK ==
  ASSUME NEW m \in [Gauges -> Int], NEW es \in Seq(Event)
  PROVE  Moved(m, es) \in [Gauges -> Int]
BY CountOK DEF Moved

\* Quiet events count zero for any kind of the four gauges.
LEMMA CountQuiet ==
  ASSUME NEW es \in Seq(Event), Quiet(es), NEW K \in SUBSET GaugeKinds
  PROVE  CountKinds(es, K) = 0
<1>1. {i \in 1 .. Len(es) : es[i].kind \in K} = {}
  BY DEF Quiet
<1> QED BY <1>1, FS_EmptySet DEF CountKinds

\* Quiet events, then e: e alone counts.
LEMMA CountLast ==
  ASSUME NEW a \in Seq(Event), Quiet(a), NEW e \in Event, NEW K \in SUBSET GaugeKinds
  PROVE  CountKinds(a \o <<e>>, K) = IF e.kind \in K THEN 1 ELSE 0
<1> DEFINE n == Len(a) + 1
<1>1. /\ Len(a \o <<e>>) = n
      /\ (a \o <<e>>)[n] = e
      /\ \A i \in 1 .. Len(a) : (a \o <<e>>)[i] = a[i]
  OBVIOUS
<1>2. {i \in 1 .. n : (a \o <<e>>)[i].kind \in K} = IF e.kind \in K THEN {n} ELSE {}
  BY <1>1 DEF Quiet
<1>3. CountKinds(a \o <<e>>, K) = Cardinality({i \in 1 .. n : (a \o <<e>>)[i].kind \in K})
  BY <1>1 DEF CountKinds
<1>4. CASE e.kind \in K
  BY <1>2, <1>3, <1>4, FS_Singleton
<1>5. CASE e.kind \notin K
  BY <1>2, <1>3, <1>5, FS_EmptySet
<1> QED BY <1>4, <1>5

\* n local events of kind k in a row, then e.
Run(k, n, e) == [i \in 1 .. n |-> Ev(k, NoPeer)] \o <<e>>

\* Such a run counts n for k and one for e's kind, when at most one of the
\* two kinds is in K.
LEMMA CountRun ==
  ASSUME NEW n \in Nat, NEW k, NEW e, NEW K, ~(k \in K /\ e.kind \in K)
  PROVE  CountKinds(Run(k, n, e), K) =
           IF k \in K THEN n ELSE IF e.kind \in K THEN 1 ELSE 0
<1> DEFINE r == [i \in 1 .. n |-> Ev(k, NoPeer)]
           S == {i \in 1 .. n + 1 : (r \o <<e>>)[i].kind \in K}
<1>1. /\ r \in Seq([kind : {k}, peer : {NoPeer}])
      /\ Len(r) = n
  BY DEF Ev
<1>2. /\ Len(r \o <<e>>) = n + 1
      /\ (r \o <<e>>)[n + 1] = e
      /\ \A i \in 1 .. n : (r \o <<e>>)[i].kind = k
  BY <1>1 DEF Ev
<1>3. S = IF k \in K THEN 1 .. n ELSE IF e.kind \in K THEN {n + 1} ELSE {}
  BY <1>2
<1>4. CountKinds(Run(k, n, e), K) = Cardinality(S)
  BY <1>2 DEF CountKinds, Run
<1>5. CASE k \in K
  <2>1. Cardinality(1 .. n) = n
    BY FS_Interval
  <2> QED BY <1>3, <1>4, <1>5, <2>1
<1>6. CASE k \notin K /\ e.kind \in K
  BY <1>3, <1>4, <1>6, FS_Singleton
<1>7. CASE k \notin K /\ e.kind \notin K
  BY <1>3, <1>4, <1>7, FS_EmptySet
<1> QED BY <1>5, <1>6, <1>7

-----------------------------------------------------------------------------
(* What a step's events do to the four gauges.                             *)

\* Quiet events leave the four gauges as they are.
LEMMA MovedQuiet ==
  ASSUME NEW m \in [Gauges -> Int], NEW es \in Seq(Event), Quiet(es)
  PROVE  /\ Moved(m, es) \in [Gauges -> Int]
         /\ \A g \in Counted : Moved(m, es)[g] = m[g]
<1>1. Moved(m, es) \in [Gauges -> Int]
  BY MovedOK
<1>2. ASSUME NEW g \in Counted
      PROVE  Moved(m, es)[g] = m[g]
  <2>1. g \in Gauges /\ CountKinds(es, IncOf[g]) = 0 /\ CountKinds(es, DecOf[g]) = 0
    BY CountQuiet, CountedKinds
  <2> QED BY <2>1 DEF Moved
<1> QED BY <1>1, <1>2

\* Quiet events, then e: the four gauges move by e's inc and dec.
LEMMA MovedLast ==
  ASSUME NEW m \in [Gauges -> Int], NEW a \in Seq(Event), Quiet(a), NEW e \in Event
  PROVE  /\ Moved(m, a \o <<e>>) \in [Gauges -> Int]
         /\ \A g \in Counted :
              Moved(m, a \o <<e>>)[g] =
                m[g] + (IF e.kind \in IncOf[g] THEN 1 ELSE 0)
                     - (IF e.kind \in DecOf[g] THEN 1 ELSE 0)
<1>1. a \o <<e>> \in Seq(Event)
  OBVIOUS
<1>2. ASSUME NEW g \in Counted
      PROVE  Moved(m, a \o <<e>>)[g] =
               m[g] + (IF e.kind \in IncOf[g] THEN 1 ELSE 0)
                    - (IF e.kind \in DecOf[g] THEN 1 ELSE 0)
  <2>1. /\ g \in Gauges
        /\ CountKinds(a \o <<e>>, IncOf[g]) = IF e.kind \in IncOf[g] THEN 1 ELSE 0
        /\ CountKinds(a \o <<e>>, DecOf[g]) = IF e.kind \in DecOf[g] THEN 1 ELSE 0
    BY CountLast, CountedKinds
  <2> QED BY <1>1, <2>1 DEF Moved
<1> QED BY <1>1, <1>2, MovedOK

-----------------------------------------------------------------------------
(* The inductive invariant.                                                *)

\* What the four gauges count: the peers with an open connection, the open
\* listeners, the (listener, address) pairs reported and not expired.
ConnectedPeers == {p \in RemotePeers : conns[p] # {}}
OpenListeners == {id \in ListenerIds : lstate[id] = "open"}
ListenPairs == UNION {{<<id, a>> : a \in laddrs[id]} : id \in ListenerIds}

\* The tracker invariant of Swarm_proofs, the runtime's own state typed,
\* the counted sets finite, and the four gauges equal to their counts.
GInv ==
  /\ SInv
  /\ budget \in 0 .. MaxEnvAdds
  /\ gauge \in [Gauges -> Int]
  /\ lstate \in [ListenerIds -> {"idle", "open", "closed"}]
  /\ external \subseteq ExtAddrs
  /\ IsFiniteSet(ConnectedPeers) /\ IsFiniteSet(OpenListeners)
  /\ IsFiniteSet(ListenPairs) /\ IsFiniteSet(external)
  /\ GaugesAccurate

-----------------------------------------------------------------------------
(* The book's callbacks notify no event of the four gauges.               *)

\* One event of a kind outside the four gauges'.
LEMMA QuietOne ==
  ASSUME NEW k, k \notin GaugeKinds, NEW q
  PROVE  Quiet(<<Ev(k, q)>>) /\ Quiet(<<>>)
BY DEF Quiet, Ev

\* Quiet events in a row are quiet.
LEMMA QuietConcat ==
  ASSUME NEW a \in Seq(Event), NEW b \in Seq(Event), Quiet(a), Quiet(b)
  PROVE  Quiet(a \o b)
<1> SUFFICES ASSUME NEW i \in 1 .. Len(a \o b) PROVE (a \o b)[i].kind \notin GaugeKinds
  BY DEF Quiet
<1>1. CASE i <= Len(a)
  BY <1>1 DEF Quiet
<1>2. CASE i > Len(a)
  <2>1. i - Len(a) \in 1 .. Len(b) /\ (a \o b)[i] = b[i - Len(a)]
    BY <1>2
  <2> QED BY <2>1 DEF Quiet
<1> QED BY <1>1, <1>2

\* The book's kinds are none of the four gauges'.
LEMMA BookKindsQuiet ==
  /\ "Discovered" \notin GaugeKinds /\ "Unreachable" \notin GaugeKinds
  /\ "DialFailure" \notin GaugeKinds /\ "ConnectionClosed" \notin GaugeKinds
  /\ "ConnectionEstablished" \notin GaugeKinds /\ "AddressChanged" \notin GaugeKinds
  /\ "ListenerError" \notin GaugeKinds
BY DEF GaugeKinds

\* add_address notifies at most Discovered.
LEMMA AddAddressQuiet ==
  ASSUME NEW b, NEW p, NEW a, NEW src
  PROVE  Quiet(AddAddressOp(b, p, a, src).ev)
<1>1. AddAddressOp(b, p, a, src).ev \in {<<>>, <<Ev("Discovered", p)>>}
  BY DEF AddAddressOp, Out
<1> QED BY <1>1, QuietOne, BookKindsQuiet

\* inject_connection_established / inject_address_change: add_address's
\* events, then ConnectionEstablished or AddressChanged.
LEMMA ConnectQuiet ==
  ASSUME NEW b, BookOK(b), NEW p \in RemotePeers, NEW a \in Addr,
         NEW kind \in {"ConnectionEstablished", "AddressChanged"}
  PROVE  Quiet(ConnectOp(b, p, a, kind).ev)
<1> DEFINE r == AddAddressOp(b, p, Normalize(a, p), "Peer")
<1>1. r.ev \in Seq(Event) /\ Quiet(r.ev)
  <2>1. Normalize(a, p) \in Addr /\ "Peer" \in Sources /\ p \in Peers
    BY NormalizeOK DEF Sources, RemotePeers
  <2> QED BY <2>1, AddAddressOK, AddAddressQuiet DEF OutOK
<1>2. ConnectOp(b, p, a, kind).ev = r.ev \o <<Ev(kind, p)>>
  BY DEF ConnectOp, Out
<1>3. <<Ev(kind, p)>> \in Seq(Event) /\ Quiet(<<Ev(kind, p)>>)
  BY EvOK, QuietOne, BookKindsQuiet DEF EventKinds, RemotePeers
<1> QED BY <1>1, <1>2, <1>3, QuietConcat

\* inject_connection_closed, inject_addr_reach_failure, inject_dial_failure.
LEMMA FailureQuiet ==
  ASSUME NEW b, NEW p, NEW a
  PROVE  /\ Quiet(ConnectionClosedOp(b, p).ev)
         /\ Quiet(AddrReachFailureOp(b, p, a).ev)
         /\ Quiet(DialFailureOp(b, p).ev)
<1>1. ConnectionClosedOp(b, p).ev = <<Ev("ConnectionClosed", p)>>
  BY DEF ConnectionClosedOp, Out
<1>2. AddrReachFailureOp(b, p, a).ev = <<Ev("DialFailure", p)>>
  BY DEF AddrReachFailureOp, Out
<1>3. DialFailureOp(b, p).ev \in {<<>>, <<Ev("Unreachable", p)>>}
  BY DEF DialFailureOp, Out
<1> QED BY <1>1, <1>2, <1>3, QuietOne, BookKindsQuiet

-----------------------------------------------------------------------------
(* The invariant, step by step.                                            *)

\* The runtime's start: every gauge is zero and every counted set empty.
LEMMA GInitInv == SInit => GInv
<1> SUFFICES ASSUME SInit PROVE GInv
  OBVIOUS
<1>1. SInv
  BY SInitInv
<1>2. ConnectedPeers = {} /\ OpenListeners = {} /\ ListenPairs = {} /\ external = {}
  BY DEF SInit, ConnectedPeers, OpenListeners, ListenPairs
<1>3. gauge = ZeroGauges /\ budget = MaxEnvAdds
  BY DEF SInit
<1>4. GaugesAccurate
  BY <1>2, <1>3, FS_EmptySet DEF GaugesAccurate, ConnectedPeers, OpenListeners,
                                 ListenPairs, ZeroGauges, Gauges
<1> QED BY <1>1, <1>2, <1>3, <1>4, FS_EmptySet, SwarmBoundsAssumption
        DEF GInv, SInit, ZeroGauges

\* A step that moves no gauge and changes no counted set keeps the
\* invariant.
LEMMA StillStep ==
  ASSUME GInv, SInv', UNCHANGED <<gauge, conns, lstate, laddrs, external>>,
         budget' \in 0 .. MaxEnvAdds
  PROVE  GInv'
BY DEF GInv, GaugesAccurate, ConnectedPeers, OpenListeners, ListenPairs

\* A step that notifies quiet events, and leaves the set of connected
\* peers and the listeners alone, keeps the invariant.
LEMMA QuietStep ==
  ASSUME GInv, SInv', NEW es \in Seq(Event), Quiet(es), gauge' = Moved(gauge, es),
         budget' \in 0 .. MaxEnvAdds, UNCHANGED <<lstate, laddrs, external>>,
         ConnectedPeers' = ConnectedPeers
  PROVE  GInv'
<1>1. /\ gauge' \in [Gauges -> Int]
      /\ \A g \in Counted : gauge'[g] = gauge[g]
  BY MovedQuiet DEF GInv
<1>2. OpenListeners' = OpenListeners /\ ListenPairs' = ListenPairs
  BY DEF OpenListeners, ListenPairs
<1>3. GaugesAccurate'
  <2>1. /\ gauge'["connected"] = gauge["connected"]
        /\ gauge'["listeners"] = gauge["listeners"]
        /\ gauge'["listen_addrs"] = gauge["listen_addrs"]
        /\ gauge'["external_addrs"] = gauge["external_addrs"]
    BY <1>1 DEF Counted
  <2> QED BY <1>2, <2>1 DEF GInv, GaugesAccurate, ConnectedPeers, OpenListeners, ListenPairs
<1> QED BY <1>1, <1>2, <1>3 DEF GInv

\* The Swarm's poll: a dial with no address fails at once and notifies
\* at most Unreachable; otherwise nothing is notified.
LEMMA PollDialG ==
  ASSUME GInv, SInv', PollDial
  PROVE  GInv'
<1> DEFINE hp == Head(book.actions)
           b1 == [book EXCEPT !.actions = Tail(@)]
<1>0. /\ UNCHANGED <<conns, budget, lstate, laddrs, external>>
      /\ budget \in 0 .. MaxEnvAdds
  BY DEF PollDial, lvars, GInv
<1>1. CASE conns[hp] = {} /\ attempt[hp] = {} /\ AddressesOfPeer(b1, hp) = {}
  <2>1. BookOK(b1) /\ hp \in RemotePeers
    <3>1. BookOK(book) /\ book.actions # <<>>
      BY DEF GInv, SInv, TypeOK, PollDial
    <3>2. hp \in RemotePeers
      BY <3>1 DEF BookOK
    <3> QED BY <3>1, <3>2, PopOK
  <2>2. DialFailureOp(b1, hp).ev \in Seq(Event) /\ Quiet(DialFailureOp(b1, hp).ev)
    BY <2>1, DialFailureOK, FailureQuiet DEF OutOK
  <2>3. gauge' = Moved(gauge, DialFailureOp(b1, hp).ev)
    BY <1>1 DEF PollDial, MCommit
  <2>4. ConnectedPeers' = ConnectedPeers
    BY <1>0 DEF ConnectedPeers
  <2> QED BY <1>0, <2>2, <2>3, <2>4, QuietStep
<1>2. CASE ~(conns[hp] = {} /\ attempt[hp] = {} /\ AddressesOfPeer(b1, hp) = {})
  <2>1. gauge' = gauge
    BY <1>2 DEF PollDial
  <2> QED BY <1>0, <2>1, StillStep
<1> QED BY <1>1, <1>2

\* A failed address: DialFailure, and after the last one at most
\* Unreachable.
LEMMA AttemptFailG ==
  ASSUME GInv, SInv', NEW p \in RemotePeers, NEW a, AttemptFail(p, a)
  PROVE  GInv'
<1> DEFINE r == AddrReachFailureOp(book, p, a)
           o == IF attempt[p] \ {a} = {} THEN Then(r, DialFailureOp(r.b, p)) ELSE r
<1>0. BookOK(book)
  BY DEF GInv, SInv, TypeOK
<1>1. r.ev \in Seq(Event) /\ Quiet(r.ev) /\ BookOK(r.b)
  BY <1>0, AddrReachFailureOK, FailureQuiet DEF OutOK
<1>2. DialFailureOp(r.b, p).ev \in Seq(Event) /\ Quiet(DialFailureOp(r.b, p).ev)
  BY <1>1, DialFailureOK, FailureQuiet DEF OutOK
<1>3. o.ev \in Seq(Event) /\ Quiet(o.ev)
  BY <1>1, <1>2, QuietConcat DEF Then, Out
<1>4. /\ gauge' = Moved(gauge, o.ev)
      /\ UNCHANGED <<conns, budget, lstate, laddrs, external>>
  BY DEF AttemptFail, MCommit, lvars
<1>5. ConnectedPeers' = ConnectedPeers
  BY <1>4 DEF ConnectedPeers
<1> QED BY <1>3, <1>4, <1>5, QuietStep DEF GInv

\* add_address from the application or a discovery behaviour.
LEMMA UserAddAddressG ==
  ASSUME GInv, SInv', NEW p \in Peers, NEW a \in InputAddrs(p), NEW src \in InputSources,
         UserAddAddress(p, a, src)
  PROVE  GInv'
<1> DEFINE o == AddAddressOp(book, p, a, src)
<1>1. o.ev \in Seq(Event) /\ Quiet(o.ev)
  <2>1. BookOK(book) /\ a \in Addr /\ src \in Sources
    BY SourcesAssumption DEF GInv, SInv, TypeOK, InputAddrs, Addr
  <2> QED BY <2>1, AddAddressOK, AddAddressQuiet DEF OutOK
<1>2. /\ gauge' = Moved(gauge, o.ev)
      /\ budget' \in 0 .. MaxEnvAdds
      /\ UNCHANGED <<conns, lstate, laddrs, external>>
  <2>1. gauge' = Moved(gauge, o.ev) /\ UNCHANGED <<conns, lstate, laddrs, external>>
    BY DEF UserAddAddress, MCommit, lvars
  <2>2. budget > 0 /\ budget' = budget - 1
    BY DEF UserAddAddress
  <2>3. budget' \in 0 .. MaxEnvAdds
    <3>1. budget \in 0 .. MaxEnvAdds
      BY DEF GInv
    <3> QED BY <2>2, <3>1, SwarmBoundsAssumption
  <2> QED BY <2>1, <2>3
<1>3. ConnectedPeers' = ConnectedPeers
  BY <1>2 DEF ConnectedPeers
<1> QED BY <1>1, <1>2, <1>3, QuietStep

\* inject_address_change: the connection moves to a new address, so p
\* stays connected.
LEMMA AddressChangeG ==
  ASSUME GInv, SInv', NEW p \in RemotePeers, NEW old, NEW loc \in Locs,
         AddressChange(p, old, loc)
  PROVE  GInv'
<1> DEFINE o == ConnectOp(book, p, Remote(loc), "AddressChanged")
<1>1. o.ev \in Seq(Event) /\ Quiet(o.ev)
  <2>1. BookOK(book) /\ Remote(loc) \in Addr /\ "AddressChanged" \in EventKinds
    BY RemoteOK DEF GInv, SInv, TypeOK, EventKinds
  <2> QED BY <2>1, ConnectOK, ConnectQuiet DEF OutOK
<1>2. /\ gauge' = Moved(gauge, o.ev)
      /\ budget' \in 0 .. MaxEnvAdds
      /\ old \in conns[p]
      /\ conns' = [conns EXCEPT ![p] = (@ \ {old}) \cup {Remote(loc)}]
      /\ UNCHANGED <<lstate, laddrs, external>>
  <2>1. /\ gauge' = Moved(gauge, o.ev)
        /\ old \in conns[p]
        /\ conns' = [conns EXCEPT ![p] = (@ \ {old}) \cup {Remote(loc)}]
        /\ UNCHANGED <<lstate, laddrs, external>>
    BY DEF AddressChange, MCommit, lvars
  <2>2. budget > 0 /\ budget' = budget - 1
    BY DEF AddressChange
  <2>3. budget' \in 0 .. MaxEnvAdds
    <3>1. budget \in 0 .. MaxEnvAdds
      BY DEF GInv
    <3> QED BY <2>2, <3>1, SwarmBoundsAssumption
  <2> QED BY <2>1, <2>3
<1>3. ConnectedPeers' = ConnectedPeers
  <2>1. conns \in [RemotePeers -> SUBSET Addr]
    BY DEF GInv, SInv
  <2>2. \A q \in RemotePeers : conns'[q] # {} <=> conns[q] # {}
    BY <1>2, <2>1
  <2> QED BY <2>2 DEF ConnectedPeers
<1> QED BY <1>1, <1>2, <1>3, QuietStep

\* A new connection: ConnectionEstablished, then Connected when it is p's
\* first, and then p joins the connected peers.
LEMMA EstablishedG ==
  ASSUME GInv, SInv', NEW p \in RemotePeers, NEW a \in Addr, Established(p, a),
         budget' \in 0 .. MaxEnvAdds
  PROVE  GInv'
<1> DEFINE r == ConnectOp(book, p, a, "ConnectionEstablished")
<1>0. conns \in [RemotePeers -> SUBSET Addr] /\ gauge \in [Gauges -> Int]
  BY DEF GInv, SInv
<1>1. r.ev \in Seq(Event) /\ Quiet(r.ev)
  <2>1. BookOK(book) /\ "ConnectionEstablished" \in EventKinds
    BY DEF GInv, SInv, TypeOK, EventKinds
  <2> QED BY <2>1, ConnectOK, ConnectQuiet DEF OutOK
<1>2. /\ conns' = [conns EXCEPT ![p] = @ \cup {a}]
      /\ UNCHANGED <<lstate, laddrs, external>>
  BY DEF Established, lvars
<1>3. CASE conns[p] # {}
  <2>1. gauge' = Moved(gauge, r.ev)
    BY <1>3 DEF Established, MCommit
  <2>2. ConnectedPeers' = ConnectedPeers
    BY <1>0, <1>2, <1>3 DEF ConnectedPeers
  <2> QED BY <1>1, <1>2, <2>1, <2>2, QuietStep
<1>4. CASE conns[p] = {}
  <2> DEFINE e == Ev("Connected", p)
  <2>1. gauge' = Moved(gauge, r.ev \o <<e>>)
    BY <1>4 DEF Established, MCommit, Then, ConnectedOp, Out
  <2>2. e \in Event
    BY DEF Ev, Event, EventKinds, RemotePeers
  <2>3. /\ gauge' \in [Gauges -> Int]
        /\ gauge'["connected"] = gauge["connected"] + 1
        /\ gauge'["listeners"] = gauge["listeners"]
        /\ gauge'["listen_addrs"] = gauge["listen_addrs"]
        /\ gauge'["external_addrs"] = gauge["external_addrs"]
    <3>1. /\ Moved(gauge, r.ev \o <<e>>) \in [Gauges -> Int]
          /\ \A g \in Counted :
               Moved(gauge, r.ev \o <<e>>)[g] =
                 gauge[g] + (IF e.kind \in IncOf[g] THEN 1 ELSE 0)
                          - (IF e.kind \in DecOf[g] THEN 1 ELSE 0)
      BY <1>0, <1>1, <2>2, MovedLast
    <3> QED BY <1>0, <2>1, <3>1 DEF Counted, IncOf, DecOf, Gauges, Ev
  <2>4. ConnectedPeers' = ConnectedPeers \cup {p} /\ p \notin ConnectedPeers
    BY <1>0, <1>2, <1>4 DEF ConnectedPeers
  <2>5. IsFiniteSet(ConnectedPeers') /\ Cardinality(ConnectedPeers') = Cardinality(ConnectedPeers) + 1
    BY <2>4, FS_AddElement DEF GInv
  <2>6. OpenListeners' = OpenListeners /\ ListenPairs' = ListenPairs
    BY <1>2 DEF OpenListeners, ListenPairs
  <2>7. GaugesAccurate'
    BY <2>3, <2>5, <2>6, <1>2 DEF GInv, GaugesAccurate, ConnectedPeers, OpenListeners, ListenPairs
  <2> QED BY <1>2, <2>3, <2>5, <2>6, <2>7 DEF GInv
<1> QED BY <1>3, <1>4

\* A closing connection: ConnectionClosed, then Disconnected when it was
\* p's last, and then p leaves the connected peers.
LEMMA CloseG ==
  ASSUME GInv, SInv', NEW p \in RemotePeers, NEW a, Close(p, a)
  PROVE  GInv'
<1> DEFINE c == Ev("ConnectionClosed", p)
<1>0. conns \in [RemotePeers -> SUBSET Addr] /\ gauge \in [Gauges -> Int]
  BY DEF GInv, SInv
<1>1. <<c>> \in Seq(Event) /\ Quiet(<<c>>)
  BY EvOK, QuietOne, BookKindsQuiet DEF EventKinds, RemotePeers
<1>2. /\ a \in conns[p]
      /\ conns' = [conns EXCEPT ![p] = @ \ {a}]
      /\ UNCHANGED <<budget, lstate, laddrs, external>>
  BY DEF Close, lvars
<1>3. ConnectionClosedOp(book, p).ev = <<c>>
  BY DEF ConnectionClosedOp, Out
<1>4. CASE conns[p] # {a}
  <2>1. gauge' = Moved(gauge, <<c>>)
    BY <1>3, <1>4 DEF Close, MCommit
  <2>2. ConnectedPeers' = ConnectedPeers
    BY <1>0, <1>2, <1>4 DEF ConnectedPeers
  <2> QED BY <1>1, <1>2, <2>1, <2>2, QuietStep DEF GInv
<1>5. CASE conns[p] = {a}
  <2> DEFINE e == Ev("Disconnected", p)
  <2>1. gauge' = Moved(gauge, <<c>> \o <<e>>)
    BY <1>3, <1>5 DEF Close, MCommit, Then, DisconnectedOp, Out
  <2>2. e \in Event
    BY DEF Ev, Event, EventKinds, RemotePeers
  <2>3. /\ gauge' \in [Gauges -> Int]
        /\ gauge'["connected"] = gauge["connected"] - 1
        /\ gauge'["listeners"] = gauge["listeners"]
        /\ gauge'["listen_addrs"] = gauge["listen_addrs"]
        /\ gauge'["external_addrs"] = gauge["external_addrs"]
    <3>1. /\ Moved(gauge, <<c>> \o <<e>>) \in [Gauges -> Int]
          /\ \A g \in Counted :
               Moved(gauge, <<c>> \o <<e>>)[g] =
                 gauge[g] + (IF e.kind \in IncOf[g] THEN 1 ELSE 0)
                          - (IF e.kind \in DecOf[g] THEN 1 ELSE 0)
      BY <1>0, <1>1, <2>2, MovedLast
    <3> QED BY <1>0, <2>1, <3>1 DEF Counted, IncOf, DecOf, Gauges, Ev
  <2>4. ConnectedPeers' = ConnectedPeers \ {p} /\ p \in ConnectedPeers
    BY <1>0, <1>2, <1>5 DEF ConnectedPeers
  <2>5. IsFiniteSet(ConnectedPeers') /\ Cardinality(ConnectedPeers') = Cardinality(ConnectedPeers) - 1
    BY <2>4, FS_RemoveElement DEF GInv
  <2>6. OpenListeners' = OpenListeners /\ ListenPairs' = ListenPairs
    BY <1>2 DEF OpenListeners, ListenPairs
  <2>7. GaugesAccurate'
    BY <2>3, <2>5, <2>6, <1>2 DEF GInv, GaugesAccurate, ConnectedPeers, OpenListeners, ListenPairs
  <2> QED BY <1>2, <2>3, <2>5, <2>6, <2>7 DEF GInv
<1> QED BY <1>4, <1>5

\* An observe-and-forward callback of kind k moves each gauge by k's inc
\* and dec, and leaves the connections alone.
LEMMA ObserveStep ==
  ASSUME GInv, NEW k \in LocalEventKinds, ListenerStep(ObserveOp(book, k))
  PROVE  /\ gauge' \in [Gauges -> Int]
         /\ \A g \in Counted :
              gauge'[g] = gauge[g] + (IF k \in IncOf[g] THEN 1 ELSE 0)
                                   - (IF k \in DecOf[g] THEN 1 ELSE 0)
         /\ UNCHANGED <<conns, budget>>
         /\ ConnectedPeers' = ConnectedPeers
<1> DEFINE e == Ev(k, NoPeer)
<1>1. e \in Event /\ <<>> \in Seq(Event) /\ Quiet(<<>>) /\ <<e>> = <<>> \o <<e>>
  BY DEF Ev, Event, Quiet
<1>2. gauge' = Moved(gauge, <<>> \o <<e>>) /\ UNCHANGED <<conns, budget>>
  BY <1>1 DEF ListenerStep, MCommit, ObserveOp, Out
<1>3. e.kind = k
  BY DEF Ev
<1>4. gauge \in [Gauges -> Int]
  BY DEF GInv
<1>5. /\ Moved(gauge, <<>> \o <<e>>) \in [Gauges -> Int]
      /\ \A g \in Counted :
           Moved(gauge, <<>> \o <<e>>)[g] =
             gauge[g] + (IF e.kind \in IncOf[g] THEN 1 ELSE 0)
                      - (IF e.kind \in DecOf[g] THEN 1 ELSE 0)
  BY <1>1, <1>4, MovedLast
<1>6. ConnectedPeers' = ConnectedPeers
  BY <1>2 DEF ConnectedPeers
<1> QED BY <1>2, <1>3, <1>5, <1>6

\* What the four gauges' events do, by kind.
LEMMA KindMoves ==
  /\ "NewListener" \in LocalEventKinds /\ "ListenerError" \in LocalEventKinds
  /\ "NewListenAddr" \in LocalEventKinds /\ "ExpiredListenAddr" \in LocalEventKinds
  /\ "ListenerClosed" \in LocalEventKinds
  /\ "NewExternalAddr" \in LocalEventKinds /\ "ExpiredExternalAddr" \in LocalEventKinds
  /\ \A k \in LocalEventKinds :
       /\ k \notin IncOf["connected"] \cup DecOf["connected"]
       /\ k \in IncOf["listeners"] <=> k = "NewListener"
       /\ k \in DecOf["listeners"] <=> k = "ListenerClosed"
       /\ k \in IncOf["listen_addrs"] <=> k = "NewListenAddr"
       /\ k \in DecOf["listen_addrs"] <=> k = "ExpiredListenAddr"
       /\ k \in IncOf["external_addrs"] <=> k = "NewExternalAddr"
       /\ k \in DecOf["external_addrs"] <=> k = "ExpiredExternalAddr"
  /\ "connected" \in Counted /\ "listeners" \in Counted
  /\ "listen_addrs" \in Counted /\ "external_addrs" \in Counted
BY DEF LocalEventKinds, IncOf, DecOf, Gauges, Counted

\* inject_new_listener and inject_listener_error.
LEMMA NewListenerG ==
  ASSUME GInv, SInv', NEW id \in ListenerIds, NewListener(id) \/ ListenerError(id)
  PROVE  GInv'
<1>1. CASE NewListener(id)
  <2>1. /\ gauge' \in [Gauges -> Int]
        /\ gauge'["connected"] = gauge["connected"]
        /\ gauge'["listeners"] = gauge["listeners"] + 1
        /\ gauge'["listen_addrs"] = gauge["listen_addrs"]
        /\ gauge'["external_addrs"] = gauge["external_addrs"]
        /\ UNCHANGED <<conns, budget>> /\ ConnectedPeers' = ConnectedPeers
    <3>0. ListenerStep(ObserveOp(book, "NewListener"))
      BY <1>1 DEF NewListener
    <3>1. /\ gauge' \in [Gauges -> Int]
          /\ \A g \in Counted :
               gauge'[g] = gauge[g] + (IF "NewListener" \in IncOf[g] THEN 1 ELSE 0)
                                    - (IF "NewListener" \in DecOf[g] THEN 1 ELSE 0)
          /\ UNCHANGED <<conns, budget>>
          /\ ConnectedPeers' = ConnectedPeers
      BY <3>0, KindMoves, ObserveStep
    <3>2. gauge \in [Gauges -> Int] /\ Counted \subseteq Gauges
      BY DEF GInv, Counted, Gauges
    <3> QED BY <3>1, <3>2, KindMoves
  <2>2. /\ lstate[id] = "idle"
        /\ lstate' = [lstate EXCEPT ![id] = "open"]
        /\ UNCHANGED <<laddrs, external>>
    BY <1>1 DEF NewListener
  <2>3. OpenListeners' = OpenListeners \cup {id} /\ id \notin OpenListeners
    BY <2>2 DEF OpenListeners, GInv
  <2>4. IsFiniteSet(OpenListeners') /\ Cardinality(OpenListeners') = Cardinality(OpenListeners) + 1
    BY <2>3, FS_AddElement DEF GInv
  <2>5. ListenPairs' = ListenPairs /\ lstate' \in [ListenerIds -> {"idle", "open", "closed"}]
    BY <2>2 DEF ListenPairs, GInv
  <2>6. GaugesAccurate'
    BY <2>1, <2>2, <2>4, <2>5 DEF GInv, GaugesAccurate, ConnectedPeers, OpenListeners, ListenPairs
  <2> QED BY <2>1, <2>2, <2>4, <2>5, <2>6 DEF GInv
<1>2. CASE ListenerError(id)
  <2>1. /\ gauge' \in [Gauges -> Int]
        /\ \A g \in Counted : gauge'[g] = gauge[g]
        /\ UNCHANGED <<conns, budget>> /\ ConnectedPeers' = ConnectedPeers
    <3>0. ListenerStep(ObserveOp(book, "ListenerError"))
      BY <1>2 DEF ListenerError
    <3>1. /\ gauge' \in [Gauges -> Int]
          /\ \A g \in Counted :
               gauge'[g] = gauge[g] + (IF "ListenerError" \in IncOf[g] THEN 1 ELSE 0)
                                    - (IF "ListenerError" \in DecOf[g] THEN 1 ELSE 0)
          /\ UNCHANGED <<conns, budget>>
          /\ ConnectedPeers' = ConnectedPeers
      BY <3>0, KindMoves, ObserveStep
    <3>2. gauge \in [Gauges -> Int] /\ Counted \subseteq Gauges
      BY DEF GInv, Counted, Gauges
    <3> QED BY <3>1, <3>2, CountedKinds, BookKindsQuiet
  <2>2. UNCHANGED <<lstate, laddrs, external>>
    BY <1>2 DEF ListenerError, lvars
  <2>3. OpenListeners' = OpenListeners /\ ListenPairs' = ListenPairs
    BY <2>2 DEF OpenListeners, ListenPairs
  <2>4. GaugesAccurate'
    BY <2>1, <2>2, <2>3, KindMoves DEF GInv, GaugesAccurate, ConnectedPeers, OpenListeners, ListenPairs
  <2> QED BY <2>1, <2>2, <2>3, <2>4 DEF GInv
<1> QED BY <1>1, <1>2

\* inject_new_listen_addr and inject_expired_listen_addr: one pair joins
\* or leaves the reported listen addresses.
LEMMA ListenAddrG ==
  ASSUME GInv, SInv', NEW id \in ListenerIds, NEW a \in ListenAddrs,
         NewListenAddr(id, a) \/ ExpiredListenAddr(id, a)
  PROVE  GInv'
<1>0. laddrs \in [ListenerIds -> SUBSET ListenAddrs]
  BY DEF GInv, SInv, LInv
<1>1. CASE NewListenAddr(id, a)
  <2>1. /\ gauge' \in [Gauges -> Int]
        /\ gauge'["connected"] = gauge["connected"]
        /\ gauge'["listeners"] = gauge["listeners"]
        /\ gauge'["listen_addrs"] = gauge["listen_addrs"] + 1
        /\ gauge'["external_addrs"] = gauge["external_addrs"]
        /\ UNCHANGED <<conns, budget>> /\ ConnectedPeers' = ConnectedPeers
    <3>0. ListenerStep(ObserveOp(book, "NewListenAddr"))
      BY <1>1 DEF NewListenAddr
    <3>1. /\ gauge' \in [Gauges -> Int]
          /\ \A g \in Counted :
               gauge'[g] = gauge[g] + (IF "NewListenAddr" \in IncOf[g] THEN 1 ELSE 0)
                                    - (IF "NewListenAddr" \in DecOf[g] THEN 1 ELSE 0)
          /\ UNCHANGED <<conns, budget>>
          /\ ConnectedPeers' = ConnectedPeers
      BY <3>0, KindMoves, ObserveStep
    <3>2. gauge \in [Gauges -> Int] /\ Counted \subseteq Gauges
      BY DEF GInv, Counted, Gauges
    <3> QED BY <3>1, <3>2, KindMoves
  <2>2. /\ a \notin laddrs[id]
        /\ laddrs' = [laddrs EXCEPT ![id] = @ \cup {a}]
        /\ UNCHANGED <<lstate, external>>
    BY <1>1 DEF NewListenAddr
  <2>3. ListenPairs' = ListenPairs \cup {<<id, a>>} /\ <<id, a>> \notin ListenPairs
    BY <1>0, <2>2 DEF ListenPairs
  <2>4. IsFiniteSet(ListenPairs') /\ Cardinality(ListenPairs') = Cardinality(ListenPairs) + 1
    BY <2>3, FS_AddElement DEF GInv
  <2>5. OpenListeners' = OpenListeners
    BY <2>2 DEF OpenListeners
  <2>6. GaugesAccurate'
    BY <2>1, <2>2, <2>4, <2>5 DEF GInv, GaugesAccurate, ConnectedPeers, OpenListeners, ListenPairs
  <2> QED BY <2>1, <2>2, <2>4, <2>5, <2>6 DEF GInv
<1>2. CASE ExpiredListenAddr(id, a)
  <2>1. /\ gauge' \in [Gauges -> Int]
        /\ gauge'["connected"] = gauge["connected"]
        /\ gauge'["listeners"] = gauge["listeners"]
        /\ gauge'["listen_addrs"] = gauge["listen_addrs"] - 1
        /\ gauge'["external_addrs"] = gauge["external_addrs"]
        /\ UNCHANGED <<conns, budget>> /\ ConnectedPeers' = ConnectedPeers
    <3>0. ListenerStep(ObserveOp(book, "ExpiredListenAddr"))
      BY <1>2 DEF ExpiredListenAddr
    <3>1. /\ gauge' \in [Gauges -> Int]
          /\ \A g \in Counted :
               gauge'[g] = gauge[g] + (IF "ExpiredListenAddr" \in IncOf[g] THEN 1 ELSE 0)
                                    - (IF "ExpiredListenAddr" \in DecOf[g] THEN 1 ELSE 0)
          /\ UNCHANGED <<conns, budget>>
          /\ ConnectedPeers' = ConnectedPeers
      BY <3>0, KindMoves, ObserveStep
    <3>2. gauge \in [Gauges -> Int] /\ Counted \subseteq Gauges
      BY DEF GInv, Counted, Gauges
    <3> QED BY <3>1, <3>2, KindMoves
  <2>2. /\ a \in laddrs[id]
        /\ laddrs' = [laddrs EXCEPT ![id] = @ \ {a}]
        /\ UNCHANGED <<lstate, external>>
    BY <1>2 DEF ExpiredListenAddr
  <2>3. ListenPairs' = ListenPairs \ {<<id, a>>} /\ <<id, a>> \in ListenPairs
    BY <1>0, <2>2 DEF ListenPairs
  <2>4. IsFiniteSet(ListenPairs') /\ Cardinality(ListenPairs') = Cardinality(ListenPairs) - 1
    BY <2>3, FS_RemoveElement DEF GInv
  <2>5. OpenListeners' = OpenListeners
    BY <2>2 DEF OpenListeners
  <2>6. GaugesAccurate'
    BY <2>1, <2>2, <2>4, <2>5 DEF GInv, GaugesAccurate, ConnectedPeers, OpenListeners, ListenPairs
  <2> QED BY <2>1, <2>2, <2>4, <2>5, <2>6 DEF GInv
<1> QED BY <1>1, <1>2

\* inject_new_external_addr and inject_expired_external_addr.
LEMMA ExternalAddrG ==
  ASSUME GInv, SInv', NEW a \in ExtAddrs, NewExternalAddr(a) \/ ExpiredExternalAddr(a)
  PROVE  GInv'
<1>1. CASE NewExternalAddr(a)
  <2>1. /\ gauge' \in [Gauges -> Int]
        /\ gauge'["connected"] = gauge["connected"]
        /\ gauge'["listeners"] = gauge["listeners"]
        /\ gauge'["listen_addrs"] = gauge["listen_addrs"]
        /\ gauge'["external_addrs"] = gauge["external_addrs"] + 1
        /\ UNCHANGED <<conns, budget>> /\ ConnectedPeers' = ConnectedPeers
    <3>0. ListenerStep(ObserveOp(book, "NewExternalAddr"))
      BY <1>1 DEF NewExternalAddr
    <3>1. /\ gauge' \in [Gauges -> Int]
          /\ \A g \in Counted :
               gauge'[g] = gauge[g] + (IF "NewExternalAddr" \in IncOf[g] THEN 1 ELSE 0)
                                    - (IF "NewExternalAddr" \in DecOf[g] THEN 1 ELSE 0)
          /\ UNCHANGED <<conns, budget>>
          /\ ConnectedPeers' = ConnectedPeers
      BY <3>0, KindMoves, ObserveStep
    <3>2. gauge \in [Gauges -> Int] /\ Counted \subseteq Gauges
      BY DEF GInv, Counted, Gauges
    <3> QED BY <3>1, <3>2, KindMoves
  <2>2. /\ a \notin external
        /\ external' = external \cup {a}
        /\ UNCHANGED <<lstate, laddrs>>
    BY <1>1 DEF NewExternalAddr
  <2>3. IsFiniteSet(external') /\ Cardinality(external') = Cardinality(external) + 1
    BY <2>2, FS_AddElement DEF GInv
  <2>4. OpenListeners' = OpenListeners /\ ListenPairs' = ListenPairs
    BY <2>2 DEF OpenListeners, ListenPairs
  <2>5. GaugesAccurate'
    BY <2>1, <2>2, <2>3, <2>4 DEF GInv, GaugesAccurate, ConnectedPeers, OpenListeners, ListenPairs
  <2> QED BY <2>1, <2>2, <2>3, <2>4, <2>5 DEF GInv
<1>2. CASE ExpiredExternalAddr(a)
  <2>1. /\ gauge' \in [Gauges -> Int]
        /\ gauge'["connected"] = gauge["connected"]
        /\ gauge'["listeners"] = gauge["listeners"]
        /\ gauge'["listen_addrs"] = gauge["listen_addrs"]
        /\ gauge'["external_addrs"] = gauge["external_addrs"] - 1
        /\ UNCHANGED <<conns, budget>> /\ ConnectedPeers' = ConnectedPeers
    <3>0. ListenerStep(ObserveOp(book, "ExpiredExternalAddr"))
      BY <1>2 DEF ExpiredExternalAddr
    <3>1. /\ gauge' \in [Gauges -> Int]
          /\ \A g \in Counted :
               gauge'[g] = gauge[g] + (IF "ExpiredExternalAddr" \in IncOf[g] THEN 1 ELSE 0)
                                    - (IF "ExpiredExternalAddr" \in DecOf[g] THEN 1 ELSE 0)
          /\ UNCHANGED <<conns, budget>>
          /\ ConnectedPeers' = ConnectedPeers
      BY <3>0, KindMoves, ObserveStep
    <3>2. gauge \in [Gauges -> Int] /\ Counted \subseteq Gauges
      BY DEF GInv, Counted, Gauges
    <3> QED BY <3>1, <3>2, KindMoves
  <2>2. /\ a \in external
        /\ external' = external \ {a}
        /\ UNCHANGED <<lstate, laddrs>>
    BY <1>2 DEF ExpiredExternalAddr
  <2>3. IsFiniteSet(external') /\ Cardinality(external') = Cardinality(external) - 1
    BY <2>2, FS_RemoveElement DEF GInv
  <2>4. OpenListeners' = OpenListeners /\ ListenPairs' = ListenPairs
    BY <2>2 DEF OpenListeners, ListenPairs
  <2>5. GaugesAccurate'
    BY <2>1, <2>2, <2>3, <2>4 DEF GInv, GaugesAccurate, ConnectedPeers, OpenListeners, ListenPairs
  <2> QED BY <2>1, <2>2, <2>3, <2>4, <2>5 DEF GInv
<1> QED BY <1>1, <1>2

\* The events of inject_listener_closed's step: the runtime expires each
\* of the listener's n addresses, then reports the close.
ClosingEvents(n) == Run("ExpiredListenAddr", n, Ev("ListenerClosed", NoPeer))

\* Those events count n for ExpiredListenAddr, one for ListenerClosed and
\* none for the other kinds.
LEMMA ClosingCounts ==
  ASSUME NEW n \in Nat, NEW K, ~("ExpiredListenAddr" \in K /\ "ListenerClosed" \in K)
  PROVE  CountKinds(ClosingEvents(n), K) =
           IF "ExpiredListenAddr" \in K THEN n ELSE IF "ListenerClosed" \in K THEN 1 ELSE 0
<1>1. ~("ExpiredListenAddr" \in K /\ Ev("ListenerClosed", NoPeer).kind \in K)
  BY DEF Ev
<1>2. Ev("ListenerClosed", NoPeer).kind = "ListenerClosed"
  BY DEF Ev
<1>3. CountKinds(Run("ExpiredListenAddr", n, Ev("ListenerClosed", NoPeer)), K) =
        IF "ExpiredListenAddr" \in K THEN n
        ELSE IF Ev("ListenerClosed", NoPeer).kind \in K THEN 1 ELSE 0
  BY <1>1, CountRun
<1> QED BY <1>2, <1>3 DEF ClosingEvents

\* So LISTEN_ADDRS falls by n, LISTENERS by one, and the other two stay.
LEMMA ListenerClosedMoves ==
  ASSUME NEW m \in [Gauges -> Int], NEW n \in Nat
  PROVE  /\ Moved(m, ClosingEvents(n)) \in [Gauges -> Int]
         /\ Moved(m, ClosingEvents(n))["connected"] = m["connected"]
         /\ Moved(m, ClosingEvents(n))["listeners"] = m["listeners"] - 1
         /\ Moved(m, ClosingEvents(n))["listen_addrs"] = m["listen_addrs"] - n
         /\ Moved(m, ClosingEvents(n))["external_addrs"] = m["external_addrs"]
<1> DEFINE es == ClosingEvents(n)
<1>1. es \in Seq(Event)
  BY DEF ClosingEvents, Run, Ev, Event, LocalEventKinds
<1>2. /\ IncOf["connected"] = {"Connected"} /\ DecOf["connected"] = {"Disconnected"}
      /\ IncOf["listeners"] = {"NewListener"} /\ DecOf["listeners"] = {"ListenerClosed"}
      /\ IncOf["listen_addrs"] = {"NewListenAddr"} /\ DecOf["listen_addrs"] = {"ExpiredListenAddr"}
      /\ IncOf["external_addrs"] = {"NewExternalAddr"}
      /\ DecOf["external_addrs"] = {"ExpiredExternalAddr"}
      /\ {"connected", "listeners", "listen_addrs", "external_addrs"} \subseteq Gauges
  BY DEF IncOf, DecOf, Gauges
<1>3. /\ Moved(m, es)["connected"] =
           m["connected"] + CountKinds(es, {"Connected"}) - CountKinds(es, {"Disconnected"})
      /\ Moved(m, es)["listeners"] =
           m["listeners"] + CountKinds(es, {"NewListener"}) - CountKinds(es, {"ListenerClosed"})
      /\ Moved(m, es)["listen_addrs"] =
           m["listen_addrs"] + CountKinds(es, {"NewListenAddr"})
                             - CountKinds(es, {"ExpiredListenAddr"})
      /\ Moved(m, es)["external_addrs"] =
           m["external_addrs"] + CountKinds(es, {"NewExternalAddr"})
                               - CountKinds(es, {"ExpiredExternalAddr"})
  BY <1>2 DEF Moved
<1>4. /\ CountKinds(es, {"Connected"}) = 0 /\ CountKinds(es, {"Disconnected"}) = 0
      /\ CountKinds(es, {"NewListener"}) = 0 /\ CountKinds(es, {"ListenerClosed"}) = 1
      /\ CountKinds(es, {"NewListenAddr"}) = 0 /\ CountKinds(es, {"ExpiredListenAddr"}) = n
      /\ CountKinds(es, {"NewExternalAddr"}) = 0 /\ CountKinds(es, {"ExpiredExternalAddr"}) = 0
  BY ClosingCounts
<1>5. /\ m["connected"] \in Int /\ m["listeners"] \in Int
      /\ m["listen_addrs"] \in Int /\ m["external_addrs"] \in Int
  BY <1>2
<1> QED BY <1>1, <1>3, <1>4, <1>5, MovedOK

\* The listen pairs of one listener: as many as its addresses.
LEMMA PairsOfListener ==
  ASSUME NEW id, NEW S, IsFiniteSet(S)
  PROVE  /\ {<<id, a>> : a \in S} = {id} \X S
         /\ IsFiniteSet({id} \X S)
         /\ Cardinality({id} \X S) = Cardinality(S)
<1>1. {<<id, a>> : a \in S} = {id} \X S
  OBVIOUS
<1>2. IsFiniteSet({id}) /\ Cardinality({id}) = 1
  BY FS_Singleton
<1>3. Cardinality(S) \in Nat
  BY FS_CardinalityType
<1> QED BY <1>1, <1>2, <1>3, FS_Product

\* inject_listener_closed: the listener and all its pairs go.
LEMMA ListenerClosedG ==
  ASSUME GInv, SInv', NEW id \in ListenerIds, ListenerClosed(id)
  PROVE  GInv'
<1> DEFINE n == Cardinality(laddrs[id])
           P == {id} \X laddrs[id]
<1>0. /\ laddrs \in [ListenerIds -> SUBSET ListenAddrs]
      /\ IsFiniteSet(laddrs[id])
      /\ gauge \in [Gauges -> Int]
  BY DEF GInv, SInv, LInv
<1>1. n \in Nat
  BY <1>0, FS_CardinalityType
<1>2. /\ gauge' \in [Gauges -> Int]
      /\ gauge'["connected"] = gauge["connected"]
      /\ gauge'["listeners"] = gauge["listeners"] - 1
      /\ gauge'["listen_addrs"] = gauge["listen_addrs"] - n
      /\ gauge'["external_addrs"] = gauge["external_addrs"]
  <2>1. gauge' = Moved(gauge, ClosingEvents(n))
    BY DEF ListenerClosed, ListenerStep, MCommit, Then, Observed, ObserveOp, Out, ClosingEvents, Run
  <2> QED BY <1>0, <1>1, <2>1, ListenerClosedMoves
<1>3. /\ lstate[id] = "open"
      /\ lstate' = [lstate EXCEPT ![id] = "closed"]
      /\ laddrs' = [laddrs EXCEPT ![id] = {}]
      /\ UNCHANGED <<conns, budget, external>>
  BY DEF ListenerClosed, ListenerStep
<1>4. ConnectedPeers' = ConnectedPeers
  BY <1>3 DEF ConnectedPeers
<1>5. /\ OpenListeners' = OpenListeners \ {id} /\ id \in OpenListeners
      /\ lstate' \in [ListenerIds -> {"idle", "open", "closed"}]
  BY <1>3 DEF OpenListeners, GInv
<1>6. IsFiniteSet(OpenListeners') /\ Cardinality(OpenListeners') = Cardinality(OpenListeners) - 1
  BY <1>5, FS_RemoveElement DEF GInv
<1>7. /\ ListenPairs' = ListenPairs \ P
      /\ ListenPairs \cap P = P
  <2>1. {<<id, a>> : a \in laddrs[id]} = P
    BY <1>0, PairsOfListener
  <2> QED BY <1>0, <1>3, <2>1 DEF ListenPairs
<1>8. IsFiniteSet(ListenPairs') /\ Cardinality(ListenPairs') = Cardinality(ListenPairs) - n
  <2>1. IsFiniteSet(ListenPairs)
    BY DEF GInv
  <2>2. IsFiniteSet(ListenPairs \ P)
        /\ Cardinality(ListenPairs \ P) = Cardinality(ListenPairs) - Cardinality(ListenPairs \cap P)
    BY <2>1, FS_Difference
  <2>3. Cardinality(P) = n
    BY <1>0, PairsOfListener
  <2> QED BY <1>7, <2>2, <2>3
<1>9. GaugesAccurate'
  BY <1>2, <1>3, <1>4, <1>6, <1>8 DEF GInv, GaugesAccurate, ConnectedPeers, OpenListeners, ListenPairs
<1> QED BY <1>2, <1>3, <1>4, <1>5, <1>6, <1>8, <1>9 DEF GInv

-----------------------------------------------------------------------------
(* Every step, and the theorems.                                           *)

\* Every step of the runtime, the application and the subscribers keeps
\* the invariant.
LEMMA SNextG == GInv /\ [SNext]_svars => GInv'
<1> SUFFICES ASSUME GInv, [SNext]_svars PROVE GInv'
  OBVIOUS
<1>0. SInv' /\ budget \in 0 .. MaxEnvAdds
  BY SNextInv DEF GInv
<1>1. CASE PollDial
  BY <1>0, <1>1, PollDialG
<1>2. ASSUME NEW p \in RemotePeers, NEW a \in attempt[p], AttemptFail(p, a) PROVE GInv'
  BY <1>0, <1>2, AttemptFailG
<1>3. ASSUME NEW p \in RemotePeers, NEW a \in attempt[p], AttemptSucceed(p, a) PROVE GInv'
  <2>1. a \in Addr /\ budget' = budget /\ Established(p, a)
    BY <1>3 DEF AttemptSucceed, GInv, SInv
  <2> QED BY <1>0, <2>1, EstablishedG
<1>4. ASSUME NEW p \in RemotePeers, NEW loc \in Locs, Inbound(p, loc) PROVE GInv'
  <2>1. Remote(loc) \in Addr /\ Established(p, Remote(loc))
    BY <1>4, RemoteOK DEF Inbound
  <2>2. budget > 0 /\ budget' = budget - 1
    BY <1>4 DEF Inbound
  <2>3. budget' \in 0 .. MaxEnvAdds
    BY <1>0, <2>2, SwarmBoundsAssumption
  <2> QED BY <1>0, <2>1, <2>3, EstablishedG
<1>5. ASSUME NEW p \in RemotePeers, NEW a, Close(p, a) PROVE GInv'
  BY <1>0, <1>5, CloseG
<1>6. ASSUME NEW p \in RemotePeers, NEW a, NEW loc \in Locs, AddressChange(p, a, loc)
      PROVE  GInv'
  BY <1>0, <1>6, AddressChangeG
<1>7. ASSUME NEW p \in Peers, UserDial(p) \/ \E a \in InputAddrs(p) : UserRemoveAddress(p, a)
      PROVE  GInv'
  <2>1. UNCHANGED <<gauge, conns, budget, lstate, laddrs, external>>
    BY <1>7 DEF UserDial, UserRemoveAddress, lvars
  <2> QED BY <1>0, <2>1, StillStep
<1>8. ASSUME NEW p \in Peers, NEW a \in InputAddrs(p), NEW src \in InputSources,
             UserAddAddress(p, a, src)
      PROVE  GInv'
  BY <1>0, <1>8, UserAddAddressG
<1>9. CASE SubscriberStep
  <2>1. UNCHANGED <<gauge, conns, budget, lstate, laddrs, external>>
    BY <1>9 DEF SubscriberStep, lvars
  <2> QED BY <1>0, <2>1, StillStep
<1>10. CASE ListenerNext
  <2>1. ASSUME NEW id \in ListenerIds,
               NewListener(id) \/ ListenerError(id) \/ ListenerClosed(id)
        PROVE  GInv'
    BY <1>0, <2>1, NewListenerG, ListenerClosedG
  <2>2. ASSUME NEW id \in ListenerIds, NEW a \in ListenAddrs,
               NewListenAddr(id, a) \/ ExpiredListenAddr(id, a)
        PROVE  GInv'
    BY <1>0, <2>2, ListenAddrG
  <2>3. ASSUME NEW a \in ExtAddrs, NewExternalAddr(a) \/ ExpiredExternalAddr(a)
        PROVE  GInv'
    BY <1>0, <2>3, ExternalAddrG
  <2> QED BY <1>10, <2>1, <2>2, <2>3 DEF ListenerNext
<1>11. CASE UNCHANGED svars
  <2>1. UNCHANGED <<gauge, conns, budget, lstate, laddrs, external>>
    BY <1>11 DEF svars
  <2> QED BY <1>0, <2>1, StillStep
<1> QED BY <1>1, <1>2, <1>3, <1>4, <1>5, <1>6, <1>7, <1>8, <1>9, <1>10, <1>11 DEF SNext

\* Whatever order the runtime opens and closes connections and listeners
\* in, CONNECTED is the number of peers with an open connection (the
\* first connection notifies Connected, the last Disconnected), LISTENERS
\* the number of open listeners, LISTEN_ADDRS the number of listen
\* addresses reported and not expired (inject_listener_closed follows the
\* expiry of each of the listener's addresses), and EXTERNAL_ADDRS the
\* number of confirmed external addresses.
THEOREM GaugesAccurateThm == SSpec => []GaugesAccurate
<1>1. GInv => GaugesAccurate
  BY DEF GInv
<1> QED BY <1>1, GInitInv, SNextG, PTL DEF SSpec

=============================================================================
