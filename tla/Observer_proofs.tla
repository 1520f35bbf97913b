---------------------------- MODULE Observer_proofs ----------------------------
(***************************************************************************)
(* Proof that subscribers of swarm_events never disagree with the peer     *)
(* registry (ObserverConsistent), for every value of the constants.  The   *)
(* argument has three layers:                                              *)
(*   - what a channel's pending events make a subscriber believe (Belief)  *)
(*     when an event is appended to the channel and when the subscriber    *)
(*     reads its head;                                                     *)
(*   - Transfers(es, D, D2): appending the events es to a channel that     *)
(*     agrees with the registry domain D makes it agree with D2; each     *)
(*     method's result transfers from the book it starts from to the book *)
(*     it leaves;                                                          *)
(*   - notify appends a result's events to every live subscriber's         *)
(*     channel, because every live receiver's sender is in event_stream.   *)
(***************************************************************************)
EXTENDS AddressBook_proofs, SequenceTheorems

USE PeersAssumption, FlagsAssumption

-----------------------------------------------------------------------------
(* What pending events make a subscriber believe.                          *)

\* The pending changes of p in channel c have a last one (true of any
\* finite set of positions; stated so that the proof of
\* ObserverConsistent needs no induction over sequences).
HasLast(c, p) ==
  ChangesOf(c, p) # {} => \E i \in ChangesOf(c, p) : \A j \in ChangesOf(c, p) : j <= i

\* The last of a set of positions, when the set has one.
LEMMA LastOfIs ==
  ASSUME NEW I \in SUBSET Int, NEW m \in I, \A j \in I : j <= m
  PROVE  LastOf(I) = m
<1>1. \E i \in I : \A j \in I : j <= i
  OBVIOUS
<1>2. LastOf(I) \in I /\ \A j \in I : j <= LastOf(I)
  BY <1>1, Zenon DEF LastOf
<1>3. \A x \in I : (\A j \in I : j <= x) => x = m
  OBVIOUS
<1> QED BY <1>2, <1>3, Zenon

\* Reading an event e: the view changes about p exactly as e says, if e
\* changes p at all.
LEMMA ApplyBelief ==
  ASSUME NEW v, NEW e \in Event, NEW p \in Peers
  PROVE  p \in Apply(v, e) <=> IF Changes(e, p) THEN e.kind = "Discovered" ELSE p \in v
BY DEF Apply, Changes, Event

\* Appending an event that does not change p changes nothing about p.
LEMMA AppendQuiet ==
  ASSUME NEW c \in Seq(Event), NEW e \in Event, NEW p, NEW v, ~Changes(e, p),
         HasLast(c, p)
  PROVE  /\ ChangesOf(c \o <<e>>, p) = ChangesOf(c, p)
         /\ HasLast(c \o <<e>>, p)
         /\ Belief(c \o <<e>>, v, p) = Belief(c, v, p)
<1> DEFINE I == ChangesOf(c, p)
<1>1. /\ Len(c \o <<e>>) = Len(c) + 1
      /\ \A i \in 1 .. Len(c) : (c \o <<e>>)[i] = c[i]
      /\ (c \o <<e>>)[Len(c) + 1] = e
  BY ConcatProperties, <<e>> \in Seq(Event)
<1>2. ChangesOf(c \o <<e>>, p) = I
  BY <1>1 DEF ChangesOf
<1>3. CASE I # {}
  <2>1. PICK m \in I : \A j \in I : j <= m
    BY <1>3 DEF HasLast
  <2>2. LastOf(I) = m /\ m \in 1 .. Len(c)
    <3>1. I \in SUBSET Int /\ m \in 1 .. Len(c)
      BY DEF ChangesOf
    <3>2. LastOf(I) = m
      BY <2>1, <3>1, LastOfIs, Zenon
    <3> QED BY <3>1, <3>2
  <2> QED BY <1>1, <1>2, <2>2 DEF Belief, HasLast
<1>4. CASE I = {}
  BY <1>2, <1>4 DEF Belief, HasLast
<1> QED BY <1>2, <1>3, <1>4

\* Appending an event that changes p makes it decide what is believed of p.
LEMMA AppendChange ==
  ASSUME NEW c \in Seq(Event), NEW e \in Event, NEW p, NEW v, Changes(e, p)
  PROVE  /\ HasLast(c \o <<e>>, p)
         /\ Belief(c \o <<e>>, v, p) = (e.kind = "Discovered")
<1> DEFINE n == Len(c) + 1
           J == ChangesOf(c \o <<e>>, p)
<1>1. /\ Len(c \o <<e>>) = n
      /\ (c \o <<e>>)[n] = e
  BY ConcatProperties, <<e>> \in Seq(Event)
<1>2. n \in J /\ \A j \in J : j <= n
  BY <1>1 DEF ChangesOf
<1>3. LastOf(J) = n
  <2>1. J \in SUBSET Int
    BY DEF ChangesOf
  <2> QED BY <1>2, <2>1, LastOfIs, Zenon
<1> QED BY <1>1, <1>2, <1>3 DEF HasLast, Belief

\* Reading the head of a channel does not change what is believed of p.
LEMMA ReceiveBelief ==
  ASSUME NEW c \in Seq(Event), c # <<>>, NEW p \in Peers, NEW v, HasLast(c, p)
  PROVE  /\ HasLast(Tail(c), p)
         /\ Belief(Tail(c), Apply(v, Head(c)), p) = Belief(c, v, p)
<1> DEFINE I == ChangesOf(c, p)
           J == ChangesOf(Tail(c), p)
<1>1. /\ Len(Tail(c)) = Len(c) - 1
      /\ \A i \in 1 .. Len(Tail(c)) : Tail(c)[i] = c[i + 1]
      /\ Head(c) = c[1] /\ Head(c) \in Event
  BY HeadTailProperties
<1>2. \A k \in Int : k \in J <=> k >= 1 /\ k + 1 \in I
  BY <1>1 DEF ChangesOf
<1>3. p \in Apply(v, Head(c)) <=> IF 1 \in I THEN c[1].kind = "Discovered" ELSE p \in v
  BY <1>1, ApplyBelief DEF ChangesOf
<1>4. CASE I = {}
  <2>1. J = {}
    BY <1>2, <1>4 DEF ChangesOf
  <2> QED BY <1>3, <1>4, <2>1 DEF Belief, HasLast
<1>5. CASE I # {}
  <2>1. PICK m \in I : \A j \in I : j <= m
    BY <1>5 DEF HasLast
  <2>2. LastOf(I) = m /\ m \in 1 .. Len(c)
    <3>1. I \in SUBSET Int /\ m \in 1 .. Len(c)
      BY DEF ChangesOf
    <3>2. LastOf(I) = m
      BY <2>1, <3>1, LastOfIs, Zenon
    <3> QED BY <3>1, <3>2
  <2>3. CASE m = 1
    <3>1. I = {1} /\ J = {}
      BY <1>2, <2>1, <2>3 DEF ChangesOf
    <3> QED BY <1>3, <2>2, <3>1 DEF Belief, HasLast
  <2>4. CASE m # 1
    <3>1. m - 1 \in J /\ \A j \in J : j <= m - 1
      BY <1>2, <2>1, <2>2, <2>4 DEF ChangesOf
    <3>2. LastOf(J) = m - 1
      <4>1. J \in SUBSET Int
        BY DEF ChangesOf
      <4> QED BY <3>1, <4>1, LastOfIs, Zenon
    <3>3. Tail(c)[m - 1] = c[m]
      BY <1>1, <2>2, <2>4
    <3> QED BY <2>2, <3>1, <3>2, <3>3 DEF Belief, HasLast
  <2> QED BY <2>3, <2>4
<1> QED BY <1>4, <1>5

-----------------------------------------------------------------------------
(* What a method's events do to a channel that agrees with the registry.   *)

\* Appending the events es to any channel whose belief about every remote
\* peer agrees with the registry domain D makes it agree with D2.
Transfers(es, D, D2) ==
  \A c \in Seq(Event), p \in RemotePeers : \A v :
    HasLast(c, p) /\ (Belief(c, v, p) <=> p \in D)
      => HasLast(c \o es, p) /\ (Belief(c \o es, v, p) <=> p \in D2)

\* No event, no change.
LEMMA TransfersEmpty ==
  ASSUME NEW D
  PROVE  Transfers(<<>>, D, D)
BY ConcatEmptySeq DEF Transfers

\* An event that changes no remote peer leaves the registry as it was.
LEMMA TransfersQuiet ==
  ASSUME NEW e \in Event, \A p \in RemotePeers : ~Changes(e, p), NEW D
  PROVE  Transfers(<<e>>, D, D)
BY AppendQuiet DEF Transfers

\* Discovered(q) is sent when q joins the registry.
LEMMA TransfersDiscovered ==
  ASSUME NEW q \in RemotePeers, NEW D
  PROVE  Transfers(<<Ev("Discovered", q)>>, D, D \cup {q})
<1> DEFINE e == Ev("Discovered", q)
<1>1. e \in Event
  BY DEF Ev, Event, EventKinds, RemotePeers
<1> SUFFICES ASSUME NEW c \in Seq(Event), NEW v, NEW p \in RemotePeers,
                    HasLast(c, p), Belief(c, v, p) <=> p \in D
             PROVE  HasLast(c \o <<e>>, p) /\ (Belief(c \o <<e>>, v, p) <=> p \in D \cup {q})
  BY DEF Transfers
<1>2. CASE p = q
  <2>1. Changes(e, p)
    BY <1>2 DEF Changes, Ev
  <2> QED BY <1>1, <1>2, <2>1, AppendChange DEF Ev
<1>3. CASE p # q
  <2>1. ~Changes(e, p)
    BY <1>3 DEF Changes, Ev
  <2> QED BY <1>1, <1>3, <2>1, AppendQuiet
<1> QED BY <1>2, <1>3

\* Unreachable(q), pruning, is sent when q leaves the registry.
LEMMA TransfersUnreachable ==
  ASSUME NEW q \in RemotePeers, NEW D, PruneAddresses
  PROVE  Transfers(<<Ev("Unreachable", q)>>, D, D \ {q})
<1> DEFINE e == Ev("Unreachable", q)
<1>1. e \in Event
  BY DEF Ev, Event, EventKinds, RemotePeers
<1> SUFFICES ASSUME NEW c \in Seq(Event), NEW v, NEW p \in RemotePeers,
                    HasLast(c, p), Belief(c, v, p) <=> p \in D
             PROVE  HasLast(c \o <<e>>, p) /\ (Belief(c \o <<e>>, v, p) <=> p \in D \ {q})
  BY DEF Transfers
<1>2. CASE p = q
  <2>1. Changes(e, p)
    BY <1>2 DEF Changes, Ev
  <2> QED BY <1>1, <1>2, <2>1, AppendChange DEF Ev
<1>3. CASE p # q
  <2>1. ~Changes(e, p)
    BY <1>3 DEF Changes, Ev
  <2> QED BY <1>1, <1>3, <2>1, AppendQuiet
<1> QED BY <1>2, <1>3

\* Events notified one after the other.
LEMMA TransfersConcat ==
  ASSUME NEW es1 \in Seq(Event), NEW es2 \in Seq(Event), NEW D1, NEW D2, NEW D3,
         Transfers(es1, D1, D2), Transfers(es2, D2, D3)
  PROVE  Transfers(es1 \o es2, D1, D3)
<1> SUFFICES ASSUME NEW c \in Seq(Event), NEW v, NEW p \in RemotePeers,
                    HasLast(c, p), Belief(c, v, p) <=> p \in D1
             PROVE  HasLast(c \o (es1 \o es2), p) /\ (Belief(c \o (es1 \o es2), v, p) <=> p \in D3)
  BY DEF Transfers
<1>1. c \o es1 \in Seq(Event) /\ (c \o es1) \o es2 = c \o (es1 \o es2)
  BY ConcatProperties, ConcatAssociative
<1>2. HasLast(c \o es1, p) /\ (Belief(c \o es1, v, p) <=> p \in D2)
  BY Zenon DEF Transfers
<1>3. HasLast((c \o es1) \o es2, p) /\ (Belief((c \o es1) \o es2, v, p) <=> p \in D3)
  BY <1>1, <1>2, Zenon DEF Transfers
<1> QED BY <1>1, <1>3, Zenon

-----------------------------------------------------------------------------
(* Each method's events against the registry change it makes.              *)

\* A method's result o, started from book b, leaves the senders alone and
\* its events take every channel from b's registry to o.b's.
ObsOK(b, o) ==
  /\ o.b.event_stream = b.event_stream
  /\ Transfers(o.ev, DOMAIN b.peers, DOMAIN o.b.peers)

\* Events about a peer other than Discovered and Unreachable change no
\* subscriber's view; nor do the local node's events.
LEMMA QuietEvents ==
  /\ \A k \in EventKinds \ {"Discovered", "Unreachable"}, q \in Peers :
       Ev(k, q) \in Event /\ \A p \in RemotePeers : ~Changes(Ev(k, q), p)
  /\ \A k \in LocalEventKinds :
       Ev(k, NoPeer) \in Event /\ \A p \in RemotePeers : ~Changes(Ev(k, NoPeer), p)
BY DEF Ev, Event, Changes, RemotePeers

\* A result that keeps the book's peers and senders and notifies one
\* quiet event.
LEMMA QuietOut ==
  ASSUME NEW b, NEW b2, b2.event_stream = b.event_stream,
         DOMAIN b2.peers = DOMAIN b.peers,
         NEW e \in Event, \A p \in RemotePeers : ~Changes(e, p)
  PROVE  ObsOK(b, Out(b2, <<e>>))
BY TransfersQuiet DEF ObsOK, Out

\* add_address notifies Discovered exactly when it creates the record.
LEMMA AddAddressObs ==
  ASSUME NEW b, BookOK(b), NEW p \in Peers, NEW a, NEW src
  PROVE  ObsOK(b, AddAddressOp(b, p, a, src))
<1>1. CASE p = LocalPeer \/ (~EnableLoopback /\ IsLoopback(a))
  BY <1>1, TransfersEmpty DEF AddAddressOp, Out, ObsOK
<1>2. CASE ~(p = LocalPeer \/ (~EnableLoopback /\ IsLoopback(a)))
  <2> DEFINE info == IF p \notin DOMAIN b.peers THEN DefaultInfo ELSE b.peers[p]
             na == Normalize(a, p)
             info2 == IF na \in DOMAIN info.addresses THEN info
                      ELSE [info EXCEPT !.addresses = Put(@, na, src)]
             o == AddAddressOp(b, p, a, src)
  <2>1. o.b.peers = Put(b.peers, p, info2) /\ o.b.event_stream = b.event_stream
    BY <1>2 DEF AddAddressOp, Out, BookOK
  <2>2. DOMAIN o.b.peers = DOMAIN b.peers \cup {p}
    BY <2>1 DEF Put
  <2>3. p \in RemotePeers
    BY <1>2 DEF RemotePeers
  <2>4. CASE p \notin DOMAIN b.peers
    <3>1. o.ev = <<Ev("Discovered", p)>>
      BY <1>2, <2>4 DEF AddAddressOp, Out
    <3> QED BY <2>1, <2>2, <2>3, <3>1, TransfersDiscovered DEF ObsOK
  <2>5. CASE p \in DOMAIN b.peers
    <3>1. o.ev = <<>> /\ DOMAIN o.b.peers = DOMAIN b.peers
      BY <1>2, <2>2, <2>5 DEF AddAddressOp, Out
    <3> QED BY <2>1, <3>1, TransfersEmpty DEF ObsOK
  <2> QED BY <2>4, <2>5
<1> QED BY <1>1, <1>2

\* remove_address keeps every record, so the registry domain.
LEMMA RemoveAddressDomain ==
  ASSUME NEW b, BookOK(b), NEW p, NEW a
  PROVE  /\ DOMAIN RemoveAddressOp(b, p, a).peers = DOMAIN b.peers
         /\ RemoveAddressOp(b, p, a).event_stream = b.event_stream
BY DEF RemoveAddressOp, BookOK

\* inject_connection_established / inject_address_change: add_address's
\* events, then a quiet one.
LEMMA ConnectObs ==
  ASSUME NEW b, BookOK(b), NEW p \in RemotePeers, NEW a \in Addr,
         NEW kind \in {"ConnectionEstablished", "AddressChanged"}
  PROVE  ObsOK(b, ConnectOp(b, p, a, kind))
<1> DEFINE na == Normalize(a, p)
           r == AddAddressOp(b, p, na, "Peer")
           o == ConnectOp(b, p, a, kind)
<1>1. OutOK(r) /\ ObsOK(b, r)
  <2>1. na \in Addr /\ "Peer" \in Sources
    BY NormalizeOK DEF Sources, RemotePeers
  <2> QED BY <2>1, AddAddressOK, AddAddressObs DEF RemotePeers
<1>2. o.b.peers = r.b.peers /\ o.b.event_stream = r.b.event_stream
      /\ o.ev = r.ev \o <<Ev(kind, p)>>
  BY <1>1 DEF ConnectOp, Out, OutOK, BookOK
<1>3. Ev(kind, p) \in Event /\ \A q \in RemotePeers : ~Changes(Ev(kind, p), q)
  <2>1. kind \in EventKinds \ {"Discovered", "Unreachable"} /\ p \in Peers
    BY DEF EventKinds, RemotePeers
  <2> QED BY <2>1, QuietEvents
<1>4. Transfers(<<Ev(kind, p)>>, DOMAIN r.b.peers, DOMAIN r.b.peers)
  BY <1>3, TransfersQuiet
<1>5. Transfers(o.ev, DOMAIN b.peers, DOMAIN o.b.peers)
  <2>1. /\ r.ev \in Seq(Event) /\ <<Ev(kind, p)>> \in Seq(Event)
        /\ Transfers(r.ev, DOMAIN b.peers, DOMAIN r.b.peers)
    BY <1>1, <1>3 DEF OutOK, ObsOK
  <2>2. Transfers(r.ev \o <<Ev(kind, p)>>, DOMAIN b.peers, DOMAIN r.b.peers)
    BY <1>4, <2>1, TransfersConcat
  <2> QED BY <1>2, <2>2
<1> QED BY <1>1, <1>2, <1>5 DEF ObsOK

\* inject_dial_failure: Unreachable, pruning, exactly when the record
\* goes; a redial changes nothing.
LEMMA DialFailureObs ==
  ASSUME NEW b, BookOK(b), NEW p \in RemotePeers
  PROVE  ObsOK(b, DialFailureOp(b, p))
<1> DEFINE o == DialFailureOp(b, p)
<1>1. CASE PruneAddresses /\ AddressesOfPeer(b, p) # {}
  <2>1. o = Out(DialOp(b, p), <<>>)
    BY <1>1 DEF DialFailureOp
  <2>2. DialOp(b, p).peers = b.peers /\ DialOp(b, p).event_stream = b.event_stream
    BY DEF DialOp, BookOK
  <2> QED BY <2>1, <2>2, TransfersEmpty DEF ObsOK, Out
<1>2. CASE ~(PruneAddresses /\ AddressesOfPeer(b, p) # {}) /\ p \in DOMAIN b.peers
  <2>1. o.ev = <<Ev("Unreachable", p)>>
    BY <1>2 DEF DialFailureOp, Out
  <2>2. CASE PruneAddresses
    <3>1. DOMAIN o.b.peers = DOMAIN b.peers \ {p} /\ o.b.event_stream = b.event_stream
      BY <1>2, <2>2 DEF DialFailureOp, Out, MapRemove, BookOK
    <3> QED BY <2>1, <2>2, <3>1, TransfersUnreachable DEF ObsOK
  <2>3. CASE ~PruneAddresses
    <3>1. o = Out(b, <<Ev("Unreachable", p)>>)
      BY <1>2, <2>3 DEF DialFailureOp
    <3>2. Ev("Unreachable", p) \in Event /\ \A q \in RemotePeers : ~Changes(Ev("Unreachable", p), q)
      BY <2>3 DEF Ev, Event, EventKinds, Changes, RemotePeers
    <3> QED BY <3>1, <3>2, QuietOut
  <2> QED BY <2>2, <2>3
<1>3. CASE ~(PruneAddresses /\ AddressesOfPeer(b, p) # {}) /\ p \notin DOMAIN b.peers
  BY <1>3, TransfersEmpty DEF DialFailureOp, Out, ObsOK
<1> QED BY <1>1, <1>2, <1>3

-----------------------------------------------------------------------------
(* The inductive invariant.                                                *)

\* The strengthening that makes ObserverConsistent inductive, with TypeOK: every live
\* receiver's sender is still in event_stream (notify retains exactly the
\* senders whose receiver is alive, and swarm_events adds both at once),
\* so every notify reaches every live subscriber; and the last pending
\* change of each peer is well defined.
ObserverInv ==
  /\ rxLive \subseteq book.event_stream
  /\ \A s \in rxLive, p \in RemotePeers : HasLast(chan[s], p)

\* ObserverConsistent with what makes it inductive.
IInv == TypeOK /\ ObserverInv /\ ObserverConsistent

\* notify of a result whose events match its registry change keeps the
\* invariant: every live subscriber gets the events, in order.
LEMMA CommitObs ==
  ASSUME IInv, NEW o, OutOK(o), ObsOK(book, o), Commit(o), UNCHANGED <<rxLive, view>>
  PROVE  IInv'
<1>0. TypeOK'
  BY CommitOK DEF IInv
<1>1. book'.peers = o.b.peers
  BY CommitPeers
<1>2. rxLive' \subseteq book'.event_stream
  <2>1. CASE o.ev = <<>>
    BY <2>1 DEF Commit, ObsOK, IInv, ObserverInv
  <2>2. CASE o.ev # <<>>
    BY <2>2 DEF Commit, ObsOK, IInv, ObserverInv, OutOK, BookOK
  <2> QED BY <2>1, <2>2
<1>3. \A s \in rxLive : chan'[s] = chan[s] \o o.ev
  <2>1. rxLive \subseteq Subscribers /\ rxLive \subseteq o.b.event_stream
    BY DEF ObsOK, IInv, ObserverInv, TypeOK
  <2> QED BY <2>1 DEF Commit
<1>4. ASSUME NEW s \in rxLive, NEW p \in RemotePeers
      PROVE  HasLast(chan'[s], p) /\ (Believes(s, p)' <=> p \in DOMAIN book'.peers)
  <2>1. chan[s] \in Seq(Event)
    BY DEF IInv, TypeOK
  <2>2. HasLast(chan[s], p) /\ (Belief(chan[s], view[s], p) <=> p \in DOMAIN book.peers)
    BY DEF IInv, ObserverInv, ObserverConsistent, Believes
  <2>3. Transfers(o.ev, DOMAIN book.peers, DOMAIN o.b.peers)
    BY DEF ObsOK
  <2>4. HasLast(chan[s] \o o.ev, p)
        /\ (Belief(chan[s] \o o.ev, view[s], p) <=> p \in DOMAIN o.b.peers)
    BY <2>1, <2>2, <2>3, Zenon DEF Transfers
  <2> QED BY <1>1, <1>3, <2>4 DEF Believes
<1> QED BY <1>0, <1>2, <1>4 DEF IInv, ObserverInv, ObserverConsistent

\* A step that sends nothing, keeps the senders and the set of known peers
\* and leaves the channels and views alone keeps the invariant.
LEMMA QuietBook ==
  ASSUME IInv, TypeOK', DOMAIN book'.peers = DOMAIN book.peers,
         book'.event_stream = book.event_stream, UNCHANGED <<chan, rxLive, view>>
  PROVE  IInv'
BY DEF IInv, ObserverInv, ObserverConsistent, Believes

\* A quiet callback result keeps the invariant.
LEMMA QuietCommit ==
  ASSUME IInv, NEW b2, BookOK(b2), b2.event_stream = book.event_stream,
         DOMAIN b2.peers = DOMAIN book.peers,
         NEW e \in Event, \A p \in RemotePeers : ~Changes(e, p),
         Commit(Out(b2, <<e>>)), UNCHANGED <<rxLive, view>>
  PROVE  IInv'
<1>1. OutOK(Out(b2, <<e>>))
  BY DEF OutOK, Out
<1>2. ObsOK(book, Out(b2, <<e>>))
  BY QuietOut
<1> QED BY <1>1, <1>2, CommitObs

\* AddressBook::new: no subscriber yet.
LEMMA InitIInv == Init => IInv
<1> SUFFICES ASSUME Init PROVE IInv
  OBVIOUS
<1>1. TypeOK
  BY InitTypeOK
<1> QED BY <1>1 DEF Init, IInv, ObserverInv, ObserverConsistent, EmptyBook

\* swarm_events: the new subscriber starts from the peer list it reads,
\* with an empty channel; the others are untouched.
LEMMA SwarmEventsIInv ==
  ASSUME IInv, TypeOK', NEW s \in Subscribers, SwarmEvents(s)
  PROVE  IInv'
<1>1. DOMAIN book'.peers = DOMAIN book.peers /\ rxLive' \subseteq book'.event_stream
  BY DEF SwarmEvents, IInv, ObserverInv, TypeOK, BookOK
<1>2. ASSUME NEW t \in rxLive', NEW p \in RemotePeers
      PROVE  HasLast(chan'[t], p) /\ (Believes(t, p)' <=> p \in DOMAIN book'.peers)
  <2>1. CASE t = s
    <3>1. chan'[t] = <<>> /\ view'[t] = DOMAIN book.peers
      BY <2>1 DEF SwarmEvents, TypeOK
    <3>2. ChangesOf(<<>>, p) = {}
      BY DEF ChangesOf
    <3> QED BY <1>1, <3>1, <3>2 DEF HasLast, Believes, Belief
  <2>2. CASE t # s
    <3>1. t \in rxLive /\ chan'[t] = chan[t] /\ view'[t] = view[t]
      BY <2>2 DEF SwarmEvents, TypeOK
    <3> QED BY <1>1, <3>1 DEF IInv, ObserverInv, ObserverConsistent, Believes
  <2> QED BY <2>1, <2>2
<1> QED BY <1>1, <1>2 DEF IInv, ObserverInv, ObserverConsistent

\* The application reads an event: it believes what it was going to.
LEMMA ReceiveIInv ==
  ASSUME IInv, TypeOK', NEW s \in Subscribers, Receive(s)
  PROVE  IInv'
<1>1. ASSUME NEW t \in rxLive, NEW p \in RemotePeers
      PROVE  HasLast(chan'[t], p) /\ (Believes(t, p)' <=> p \in DOMAIN book.peers)
  <2>1. CASE t = s
    <3>1. chan[s] \in Seq(Event) /\ chan[s] # <<>> /\ p \in Peers
      BY DEF Receive, IInv, TypeOK, RemotePeers
    <3>2. HasLast(chan[s], p) /\ (Believes(s, p) <=> p \in DOMAIN book.peers)
      BY DEF IInv, ObserverInv, ObserverConsistent, Receive
    <3>3. chan'[s] = Tail(chan[s]) /\ view'[s] = Apply(view[s], Head(chan[s]))
      BY DEF Receive, IInv, TypeOK
    <3>4. HasLast(Tail(chan[s]), p)
          /\ Belief(Tail(chan[s]), Apply(view[s], Head(chan[s])), p) = Belief(chan[s], view[s], p)
      BY <3>1, <3>2, ReceiveBelief
    <3> QED BY <2>1, <3>2, <3>3, <3>4 DEF Believes
  <2>2. CASE t # s
    <3>1. chan'[t] = chan[t] /\ view'[t] = view[t]
      BY <2>2 DEF Receive, IInv, TypeOK
    <3> QED BY <3>1 DEF IInv, ObserverInv, ObserverConsistent, Believes
  <2> QED BY <2>1, <2>2
<1> QED BY <1>1 DEF Receive, IInv, ObserverInv, ObserverConsistent

\* The application drops its receiver: one observer fewer.
LEMMA DropIInv ==
  ASSUME IInv, TypeOK', NEW s \in Subscribers, DropReceiver(s)
  PROVE  IInv'
<1>1. \A t \in rxLive' : t \in rxLive /\ chan'[t] = chan[t]
  BY DEF DropReceiver, IInv, TypeOK
<1> QED BY <1>1 DEF DropReceiver, IInv, ObserverInv, ObserverConsistent, Believes

\* Every method and callback keeps the invariant.
LEMMA NextIInv == IInv /\ [Next]_vars => IInv'
<1> SUFFICES ASSUME IInv, [Next]_vars PROVE IInv'
  OBVIOUS
<1>0. TypeOK /\ BookOK(book) /\ TypeOK'
  BY NextTypeOK DEF IInv, TypeOK
<1>1. ASSUME NEW p \in Peers, Dial(p) PROVE IInv'
  <2>1. DialOp(book, p).peers = book.peers /\ DialOp(book, p).event_stream = book.event_stream
    BY <1>0 DEF DialOp, BookOK
  <2> QED BY <1>0, <1>1, <2>1, QuietBook DEF Dial
<1>2. ASSUME NEW p \in Peers, NEW a \in InputAddrs(p), NEW src \in InputSources,
             AddAddress(p, a, src)
      PROVE IInv'
  <2>1. a \in Addr /\ src \in Sources
    BY SourcesAssumption DEF InputAddrs, Addr
  <2>2. OutOK(AddAddressOp(book, p, a, src)) /\ ObsOK(book, AddAddressOp(book, p, a, src))
    BY <1>0, <2>1, AddAddressOK, AddAddressObs
  <2> QED BY <1>2, <2>2, CommitObs DEF AddAddress
<1>3. ASSUME NEW p \in Peers, NEW a \in InputAddrs(p), RemoveAddress(p, a) PROVE IInv'
  BY <1>0, <1>3, RemoveAddressDomain, QuietBook DEF RemoveAddress
<1>4. ASSUME NEW p \in Peers, NEW r \in Samples \cup {NoSample}, SetRtt(p, r) PROVE IInv'
  <2>1. OutOK(SetRttOp(book, p, r))
    BY <1>0, SetRttOK
  <2>2. CASE p \notin DOMAIN book.peers
    <3>1. ObsOK(book, SetRttOp(book, p, r))
      BY <2>2, TransfersEmpty DEF SetRttOp, Out, ObsOK
    <3> QED BY <1>4, <2>1, <3>1, CommitObs DEF SetRtt
  <2>3. CASE p \in DOMAIN book.peers
    <3> DEFINE o == SetRttOp(book, p, r)
    <3>1. DOMAIN o.b.peers = DOMAIN book.peers /\ o.b.event_stream = book.event_stream
          /\ o.ev = <<Ev("NewInfo", p)>>
      BY <1>0, <2>3 DEF SetRttOp, Out, BookOK
    <3>2. "NewInfo" \in EventKinds \ {"Discovered", "Unreachable"}
      BY DEF EventKinds
    <3>3. Ev("NewInfo", p) \in Event /\ \A q \in RemotePeers : ~Changes(Ev("NewInfo", p), q)
      BY <3>2, QuietEvents
    <3>4. ObsOK(book, o)
      BY <3>1, <3>3, TransfersQuiet DEF ObsOK
    <3> QED BY <1>4, <2>1, <3>4, CommitObs DEF SetRtt
  <2> QED BY <2>2, <2>3
<1>5. ASSUME NEW p \in Peers, NEW i \in Identities, SetInfo(p, i) PROVE IInv'
  <2>1. DOMAIN SetInfoOp(book, p, i).peers = DOMAIN book.peers
        /\ SetInfoOp(book, p, i).event_stream = book.event_stream
    BY <1>0 DEF SetInfoOp, BookOK
  <2> QED BY <1>0, <1>5, <2>1, QuietBook DEF SetInfo
<1>6. ASSUME NEW s \in Subscribers, SwarmEvents(s) \/ Receive(s) \/ DropReceiver(s)
      PROVE IInv'
  BY <1>0, <1>6, SwarmEventsIInv, ReceiveIInv, DropIInv
<1>7. CASE Poll
  <2>1. DOMAIN book'.peers = DOMAIN book.peers /\ book'.event_stream = book.event_stream
    BY <1>0, <1>7 DEF Poll, BookOK
  <2> QED BY <1>0, <1>7, <2>1, QuietBook DEF Poll
<1>8. ASSUME NEW p \in RemotePeers, InjectConnected(p) \/ InjectDisconnected(p) PROVE IInv'
  <2>1. {"Connected", "Disconnected"} \subseteq EventKinds \ {"Discovered", "Unreachable"}
        /\ p \in Peers
    BY DEF EventKinds, RemotePeers
  <2>2. /\ Ev("Connected", p) \in Event /\ \A q \in RemotePeers : ~Changes(Ev("Connected", p), q)
        /\ Ev("Disconnected", p) \in Event /\ \A q \in RemotePeers : ~Changes(Ev("Disconnected", p), q)
    BY <2>1, QuietEvents
  <2> QED BY <1>0, <1>8, <2>2, QuietCommit DEF InjectConnected, InjectDisconnected
<1>9. ASSUME NEW p \in RemotePeers, InjectConnectionClosed(p) PROVE IInv'
  <2>1. "ConnectionClosed" \in EventKinds \ {"Discovered", "Unreachable"} /\ p \in Peers
    BY DEF EventKinds, RemotePeers
  <2>2. Ev("ConnectionClosed", p) \in Event
        /\ \A q \in RemotePeers : ~Changes(Ev("ConnectionClosed", p), q)
    BY <2>1, QuietEvents
  <2> DEFINE b2 == [book EXCEPT !.connections = MapRemove(@, p)]
  <2>3. b2.event_stream = book.event_stream /\ DOMAIN b2.peers = DOMAIN book.peers
    BY <1>0 DEF BookOK
  <2>4. ObsOK(book, ConnectionClosedOp(book, p))
    BY <2>2, <2>3, QuietOut DEF ConnectionClosedOp
  <2> QED BY <1>0, <1>9, <2>4, ConnectionClosedOK, CommitObs DEF InjectConnectionClosed
<1>10. ASSUME NEW p \in RemotePeers, InjectDialFailure(p) PROVE IInv'
  BY <1>0, <1>10, DialFailureOK, DialFailureObs, CommitObs DEF InjectDialFailure
<1>11. ASSUME NEW p \in RemotePeers, NEW a \in InputAddrs(p),
              InjectConnectionEstablished(p, a) \/ InjectAddressChange(p, a)
       PROVE IInv'
  <2>1. a \in Addr /\ {"ConnectionEstablished", "AddressChanged"} \subseteq EventKinds
    BY DEF InputAddrs, Addr, EventKinds, RemotePeers
  <2>2. \A k \in {"ConnectionEstablished", "AddressChanged"} :
          OutOK(ConnectOp(book, p, a, k)) /\ ObsOK(book, ConnectOp(book, p, a, k))
    BY <1>0, <2>1, ConnectOK, ConnectObs
  <2> QED BY <1>11, <2>2, CommitObs DEF InjectConnectionEstablished, InjectAddressChange
<1>12. ASSUME NEW p \in RemotePeers, NEW a \in InputAddrs(p), InjectAddrReachFailure(p, a)
       PROVE IInv'
  <2> DEFINE b2 == IF IsConnected(book, p) \/ ~PruneAddresses THEN book
                   ELSE RemoveAddressOp(book, p, a)
  <2>1. b2.event_stream = book.event_stream /\ DOMAIN b2.peers = DOMAIN book.peers
    BY <1>0, RemoveAddressDomain
  <2>2. "DialFailure" \in EventKinds \ {"Discovered", "Unreachable"} /\ p \in Peers
    BY DEF EventKinds, RemotePeers
  <2>3. Ev("DialFailure", p) \in Event /\ \A q \in RemotePeers : ~Changes(Ev("DialFailure", p), q)
    BY <2>2, QuietEvents
  <2>4. ObsOK(book, AddrReachFailureOp(book, p, a))
    BY <2>1, <2>3, QuietOut DEF AddrReachFailureOp
  <2> QED BY <1>0, <1>12, <2>4, AddrReachFailureOK, CommitObs DEF InjectAddrReachFailure
<1>13. ASSUME NEW kind \in LocalEventKinds, InjectLocalEvent(kind) PROVE IInv'
  <2>1. Ev(kind, NoPeer) \in Event /\ \A q \in RemotePeers : ~Changes(Ev(kind, NoPeer), q)
    BY QuietEvents
  <2> QED BY <1>0, <1>13, <2>1, QuietCommit DEF InjectLocalEvent, ObserveOp
<1>14. CASE UNCHANGED vars
  BY <1>14 DEF vars, IInv, TypeOK, ObserverInv, ObserverConsistent, Believes
<1> QED BY <1>1, <1>2, <1>3, <1>4, <1>5, <1>6, <1>7, <1>8, <1>9, <1>10, <1>11,
           <1>12, <1>13, <1>14 DEF Next

\* Subscribers of swarm_events never disagree with the registry: in every
\* reachable state, every live subscriber, once it has read the events
\* already sent to it, believes a remote peer known exactly when
\* AddressBook.peers holds a record for it, whatever the callers and the
\* swarm do (add_address's Discovered, inject_dial_failure's Unreachable,
\* notify's delivery to every retained sender, swarm_events' snapshot).
THEOREM ObserverConsistentThm == Spec => []ObserverConsistent
<1>1. IInv => ObserverConsistent
  BY DEF IInv
<1> QED BY InitIInv, NextIInv, <1>1, PTL DEF Spec


-----------------------------------------------------------------------------
(* No spurious Discovered or Unreachable (NotifyExact).                    *)

\* The events of result o, computed from book b, name Discovered(p) only
\* when o creates p's record and Unreachable(p) only when p is held, and
\* gone from o exactly when pruning.
ExactOut(b, o) ==
  \A p \in RemotePeers, i \in 1 .. Len(o.ev) :
    /\ o.ev[i] = Ev("Discovered", p) => p \notin DOMAIN b.peers /\ p \in DOMAIN o.b.peers
    /\ o.ev[i] = Ev("Unreachable", p) =>
         p \in DOMAIN b.peers /\ (p \in DOMAIN o.b.peers <=> ~PruneAddresses)

\* A result with no event.
LEMMA ExactEmpty ==
  ASSUME NEW b, NEW b2
  PROVE  ExactOut(b, Out(b2, <<>>))
BY DEF ExactOut, Out

\* A result with one event that is neither Discovered nor Unreachable.
LEMMA ExactQuiet ==
  ASSUME NEW b, NEW b2, NEW k, k \notin {"Discovered", "Unreachable"}, NEW q
  PROVE  ExactOut(b, Out(b2, <<Ev(k, q)>>))
BY DEF ExactOut, Out, Ev

\* add_address: Discovered only with the creation of the record.
LEMMA AddAddressExact ==
  ASSUME NEW b, BookOK(b), NEW p \in Peers, NEW a, NEW src
  PROVE  ExactOut(b, AddAddressOp(b, p, a, src))
<1>1. CASE p = LocalPeer \/ (~EnableLoopback /\ IsLoopback(a))
  BY <1>1, ExactEmpty DEF AddAddressOp
<1>2. CASE ~(p = LocalPeer \/ (~EnableLoopback /\ IsLoopback(a)))
  <2> DEFINE o == AddAddressOp(b, p, a, src)
  <2>1. p \in DOMAIN o.b.peers
    BY <1>2 DEF AddAddressOp, Out, Put, BookOK
  <2>2. o.ev = IF p \notin DOMAIN b.peers THEN <<Ev("Discovered", p)>> ELSE <<>>
    BY <1>2 DEF AddAddressOp, Out
  <2> QED BY <2>1, <2>2 DEF ExactOut, Ev
<1> QED BY <1>1, <1>2

\* inject_connection_established / inject_address_change: add_address's
\* events, then a quiet one, on a book with the same peers.
LEMMA ConnectExact ==
  ASSUME NEW b, BookOK(b), NEW p \in RemotePeers, NEW a \in Addr,
         NEW kind \in {"ConnectionEstablished", "AddressChanged"}
  PROVE  ExactOut(b, ConnectOp(b, p, a, kind))
<1> DEFINE na == Normalize(a, p)
           r == AddAddressOp(b, p, na, "Peer")
           o == ConnectOp(b, p, a, kind)
<1>1. OutOK(r) /\ ExactOut(b, r)
  <2>1. na \in Addr /\ "Peer" \in Sources /\ p \in Peers
    BY NormalizeOK DEF Sources, RemotePeers
  <2> QED BY <2>1, AddAddressOK, AddAddressExact
<1>2. o.b.peers = r.b.peers /\ o.ev = r.ev \o <<Ev(kind, p)>>
  BY <1>1 DEF ConnectOp, Out, OutOK, BookOK
<1>3. r.ev \in Seq(Event)
  BY <1>1 DEF OutOK
<1>4. /\ Len(o.ev) = Len(r.ev) + 1
      /\ \A i \in 1 .. Len(r.ev) : o.ev[i] = r.ev[i]
      /\ o.ev[Len(r.ev) + 1] = Ev(kind, p)
  BY <1>2, <1>3
<1>5. \A q \in RemotePeers :
        Ev(kind, p) # Ev("Discovered", q) /\ Ev(kind, p) # Ev("Unreachable", q)
  BY DEF Ev
<1> QED BY <1>1, <1>2, <1>4, <1>5 DEF ExactOut

\* inject_dial_failure: Unreachable only for a held peer, removed iff
\* pruning; a redial or an unknown peer sends nothing.
LEMMA DialFailureExact ==
  ASSUME NEW b, BookOK(b), NEW p \in RemotePeers
  PROVE  ExactOut(b, DialFailureOp(b, p))
<1> DEFINE o == DialFailureOp(b, p)
<1>1. CASE PruneAddresses /\ AddressesOfPeer(b, p) # {}
  BY <1>1, ExactEmpty DEF DialFailureOp
<1>2. CASE ~(PruneAddresses /\ AddressesOfPeer(b, p) # {}) /\ p \in DOMAIN b.peers
  <2>1. o.ev = <<Ev("Unreachable", p)>>
    BY <1>2 DEF DialFailureOp, Out
  <2>2. p \in DOMAIN o.b.peers <=> ~PruneAddresses
    BY <1>2 DEF DialFailureOp, Out, MapRemove, BookOK
  <2> QED BY <1>2, <2>1, <2>2 DEF ExactOut, Ev
<1>3. CASE ~(PruneAddresses /\ AddressesOfPeer(b, p) # {}) /\ p \notin DOMAIN b.peers
  BY <1>3, ExactEmpty DEF DialFailureOp
<1> QED BY <1>1, <1>2, <1>3


\* A position past the end of c in c \o d is a position of d.
LEMMA ConcatPast ==
  ASSUME NEW S, NEW c \in Seq(S), NEW d \in Seq(S), NEW i \in 1 .. Len(c \o d), i > Len(c)
  PROVE  i - Len(c) \in 1 .. Len(d) /\ (c \o d)[i] = d[i - Len(c)]
BY SMT

\* notify appends the result's events, and nothing else, to each live
\* channel; so what a subscriber is sent is what the result carries.
LEMMA CommitExact ==
  ASSUME TypeOK, NEW o, OutOK(o), ExactOut(book, o), Commit(o),
         UNCHANGED <<rxLive, view>>
  PROVE  NotifyExactStep
<1> SUFFICES ASSUME NEW s \in Subscribers, NEW p \in RemotePeers, NEW e,
                    Sent(s, e), e \in {Ev("Discovered", p), Ev("Unreachable", p)}
             PROVE  /\ e = Ev("Discovered", p) => p \notin DOMAIN book.peers /\ p \in DOMAIN book'.peers
                    /\ e = Ev("Unreachable", p) =>
                         p \in DOMAIN book.peers /\ (p \in DOMAIN book'.peers <=> ~PruneAddresses)
  BY DEF NotifyExactStep
<1>1. book'.peers = o.b.peers
  BY CommitPeers
<1>2. PICK i \in 1 .. Len(chan'[s]) : i > Len(chan[s]) /\ chan'[s][i] = e
  BY DEF Sent
<1>3. chan[s] \in Seq(Event) /\ o.ev \in Seq(Event)
  BY DEF TypeOK, OutOK
<1>4. s \in o.b.event_stream \cap rxLive
  <2>1. CASE s \notin o.b.event_stream \cap rxLive
    <3>1. chan'[s] = chan[s]
      BY <2>1 DEF Commit
    <3> QED BY <1>2, <1>3, <3>1
  <2> QED BY <2>1
<1>5. chan'[s] = chan[s] \o o.ev
  BY <1>4 DEF Commit
<1>6. i - Len(chan[s]) \in 1 .. Len(o.ev) /\ o.ev[i - Len(chan[s])] = e
  <2>1. i \in 1 .. Len(chan[s] \o o.ev) /\ i > Len(chan[s]) /\ (chan[s] \o o.ev)[i] = e
    BY <1>2, <1>5
  <2> QED BY <1>3, <2>1, ConcatPast
<1> QED BY <1>1, <1>6 DEF ExactOut


\* A step that lengthens no live channel sends nothing.
LEMMA NoSend ==
  ASSUME TypeOK, TypeOK', \A s \in rxLive \cap rxLive' : Len(chan'[s]) <= Len(chan[s])
  PROVE  NotifyExactStep
BY DEF NotifyExactStep, Sent, TypeOK

\* The events of a result hold the kind set of their single event.
LEMMA QuietKinds ==
  /\ \A k \in {"NewInfo", "Connected", "Disconnected", "ConnectionClosed", "DialFailure"} :
       k \notin {"Discovered", "Unreachable"}
  /\ \A k \in LocalEventKinds : k \notin {"Discovered", "Unreachable"}
BY DEF LocalEventKinds

\* Every method and callback sends only exact Discovered and Unreachable.
LEMMA NextExact == TypeOK /\ [Next]_vars => [NotifyExactStep]_vars
<1> SUFFICES ASSUME TypeOK, [Next]_vars PROVE [NotifyExactStep]_vars
  OBVIOUS
<1>0. BookOK(book) /\ TypeOK'
  BY NextTypeOK DEF TypeOK
<1>1. ASSUME UNCHANGED <<chan, rxLive>> PROVE NotifyExactStep
  BY <1>0, <1>1, NoSend
<1>2. ASSUME NEW p \in Peers, NEW a \in InputAddrs(p), NEW src \in InputSources,
             AddAddress(p, a, src)
      PROVE NotifyExactStep
  <2>1. a \in Addr /\ src \in Sources
    BY SourcesAssumption DEF InputAddrs, Addr
  <2> QED BY <1>0, <1>2, <2>1, AddAddressOK, AddAddressExact, CommitExact DEF AddAddress
<1>3. ASSUME NEW p \in Peers, NEW r \in Samples \cup {NoSample}, SetRtt(p, r)
      PROVE NotifyExactStep
  <2>1. ExactOut(book, SetRttOp(book, p, r))
    <3>1. CASE p \notin DOMAIN book.peers
      BY <3>1, ExactEmpty DEF SetRttOp
    <3>2. CASE p \in DOMAIN book.peers
      <4>1. SetRttOp(book, p, r).ev = <<Ev("NewInfo", p)>>
        BY <3>2 DEF SetRttOp, Out
      <4> QED BY <4>1 DEF ExactOut, Ev
    <3> QED BY <3>1, <3>2
  <2> QED BY <1>0, <1>3, <2>1, SetRttOK, CommitExact DEF SetRtt
<1>4. ASSUME NEW s \in Subscribers, SwarmEvents(s) \/ Receive(s) \/ DropReceiver(s)
      PROVE NotifyExactStep
  <2>1. CASE SwarmEvents(s)
    <3>1. s \notin rxLive /\ chan' = [chan EXCEPT ![s] = <<>>]
      BY <2>1 DEF SwarmEvents
    <3>2. \A t \in rxLive \cap rxLive' : Len(chan'[t]) <= Len(chan[t])
      BY <3>1 DEF TypeOK
    <3> QED BY <1>0, <3>2, NoSend
  <2>2. CASE Receive(s) \/ DropReceiver(s)
    <3>1. \A t \in rxLive \cap rxLive' : Len(chan'[t]) <= Len(chan[t])
      BY <2>2 DEF Receive, DropReceiver, TypeOK
    <3> QED BY <1>0, <3>1, NoSend
  <2> QED BY <1>4, <2>1, <2>2
<1>5. ASSUME NEW p \in RemotePeers,
             \/ InjectConnected(p) \/ InjectDisconnected(p)
             \/ InjectConnectionClosed(p) \/ InjectDialFailure(p)
      PROVE NotifyExactStep
  <2>1. /\ ExactOut(book, Out(book, <<Ev("Connected", p)>>))
        /\ ExactOut(book, Out(book, <<Ev("Disconnected", p)>>))
        /\ ExactOut(book, ConnectionClosedOp(book, p))
    BY QuietKinds, ExactQuiet DEF ConnectionClosedOp
  <2>2. /\ OutOK(Out(book, <<Ev("Connected", p)>>))
        /\ OutOK(Out(book, <<Ev("Disconnected", p)>>))
    <3>1. "Connected" \in EventKinds /\ "Disconnected" \in EventKinds /\ p \in Peers
      BY DEF EventKinds, RemotePeers
    <3> QED BY <1>0, <3>1, EvOK DEF OutOK, Out
  <2> QED BY <1>0, <1>5, <2>1, <2>2, ConnectionClosedOK, DialFailureOK, DialFailureExact,
             CommitExact DEF InjectConnected, InjectDisconnected, InjectConnectionClosed,
             InjectDialFailure
<1>6. ASSUME NEW p \in RemotePeers, NEW a \in InputAddrs(p),
             \/ InjectConnectionEstablished(p, a)
             \/ InjectAddressChange(p, a)
             \/ InjectAddrReachFailure(p, a)
      PROVE NotifyExactStep
  <2>1. a \in Addr /\ {"ConnectionEstablished", "AddressChanged"} \subseteq EventKinds
    BY DEF InputAddrs, Addr, EventKinds, RemotePeers
  <2>2. ExactOut(book, AddrReachFailureOp(book, p, a))
    BY QuietKinds, ExactQuiet DEF AddrReachFailureOp
  <2>3. \A k \in {"ConnectionEstablished", "AddressChanged"} :
          OutOK(ConnectOp(book, p, a, k)) /\ ExactOut(book, ConnectOp(book, p, a, k))
    BY <1>0, <2>1, ConnectOK, ConnectExact
  <2> QED BY <1>0, <1>6, <2>2, <2>3, AddrReachFailureOK, CommitExact
             DEF InjectConnectionEstablished, InjectAddressChange, InjectAddrReachFailure
<1>7. ASSUME NEW kind \in LocalEventKinds, InjectLocalEvent(kind) PROVE NotifyExactStep
  <2>1. ExactOut(book, ObserveOp(book, kind))
    BY QuietKinds, ExactQuiet DEF ObserveOp
  <2>2. OutOK(ObserveOp(book, kind))
    <3>1. <<Ev(kind, NoPeer)>> \in Seq(Event)
      BY DEF Ev, Event
    <3> QED BY <1>0, <3>1 DEF ObserveOp, OutOK, Out
  <2> QED BY <1>0, <1>7, <2>1, <2>2, CommitExact DEF InjectLocalEvent
<1>8. CASE UNCHANGED vars
  BY <1>8 DEF vars
<1> QED BY <1>1, <1>2, <1>3, <1>4, <1>5, <1>6, <1>7, <1>8
        DEF Next, Dial, RemoveAddress, SetInfo, Poll

\* Subscribers of swarm_events are never sent a spurious Discovered or
\* Unreachable: in every behaviour, a step sends Discovered(p) only when
\* it creates p's record (add_address, also through
\* inject_connection_established), and Unreachable(p) only for a peer the
\* registry holds, which it removes exactly when pruning
\* (inject_dial_failure), for every value of the constants.
THEOREM NotifyExactThm == Spec => NotifyExact
<1>1. TypeOK /\ [Next]_vars => [NotifyExactStep]_vars
  BY NextExact
<1> QED BY <1>1, TypeCorrect, PTL DEF Spec, NotifyExact

=============================================================================
