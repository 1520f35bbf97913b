------------------------------- MODULE Metrics -------------------------------
(***************************************************************************)
(* The prometheus gauges of src/net/peers.rs (the lazy_static block) and   *)
(* the points where the callbacks move them.  Every gauge move in the code *)
(* sits next to a notify of one event kind, in the same branch:            *)
(*   inject_connected        CONNECTED.inc       Connected                 *)
(*   inject_disconnected     CONNECTED.dec       Disconnected              *)
(*   inject_dial_failure     DISCOVERED.dec      Unreachable               *)
(*   inject_new_listener     LISTENERS.inc       NewListener               *)
(*   inject_listener_closed  LISTENERS.dec       ListenerClosed            *)
(*   inject_new_listen_addr  LISTEN_ADDRS.inc    NewListenAddr             *)
(*   inject_expired_listen.. LISTEN_ADDRS.dec    ExpiredListenAddr         *)
(*   inject_new_external..   EXTERNAL_ADDRS.inc  NewExternalAddr           *)
(*   inject_expired_exter..  EXTERNAL_ADDRS.dec  ExpiredExternalAddr       *)
(* so a step moves each gauge by the number of its events the step        *)
(* notifies.  Nothing increments DISCOVERED, and nothing moves CONNECTIONS. *)
(* The counters (LISTENER_ERROR, ADDRESS_REACH_FAILURE, DIAL_FAILURE) only *)
(* grow and no property reads them; they are left out.                     *)
(***************************************************************************)
EXTENDS Integers, Sequences, FiniteSets

\* The IntGauge statics, by field name.
Gauges == {"listeners", "listen_addrs", "external_addrs", "discovered",
           "connected", "connections"}

\* The event kinds whose notify comes with an inc of the gauge.
IncOf == [g \in Gauges |->
            CASE g = "listeners"      -> {"NewListener"}
              [] g = "listen_addrs"   -> {"NewListenAddr"}
              [] g = "external_addrs" -> {"NewExternalAddr"}
              [] g = "connected"      -> {"Connected"}
              [] OTHER                -> {}]

\* Mutant of DecOf: inject_disconnected forgets CONNECTED.dec().
DecOfNoDisconnect == [g \in Gauges |->
            CASE g = "listeners"      -> {"ListenerClosed"}
              [] g = "listen_addrs"   -> {"ExpiredListenAddr"}
              [] g = "external_addrs" -> {"ExpiredExternalAddr"}
              [] g = "discovered"     -> {"Unreachable"}
              [] OTHER                -> {}]

\* The event kinds whose notify comes with a dec of the gauge.
DecOf == [g \in Gauges |->
            CASE g = "listeners"      -> {"ListenerClosed"}
              [] g = "listen_addrs"   -> {"ExpiredListenAddr"}
              [] g = "external_addrs" -> {"ExpiredExternalAddr"}
              [] g = "discovered"     -> {"Unreachable"}
              [] g = "connected"      -> {"Disconnected"}
              [] OTHER                -> {}]

\* The gauges at process start (IntGauge::new).
ZeroGauges == [g \in Gauges |-> 0]

\* How many of the events es have a kind in K: the positions of es whose
\* event has such a kind (one gauge move per such notify).
CountKinds(es, K) == Cardinality({i \in 1 .. Len(es) : es[i].kind \in K})

\* The gauges after a step that notified the events es, in order.
Moved(m, es) == [g \in Gauges |-> m[g] + CountKinds(es, IncOf[g]) - CountKinds(es, DecOf[g])]

=============================================================================
