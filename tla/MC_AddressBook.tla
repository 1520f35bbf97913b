--------------------------- MODULE MC_AddressBook ---------------------------
(* The address book under an arbitrary caller, on a small instance.         *)
EXTENDS AddressBook, TLC

CONSTANTS l, p1, p2, pub, v6, i1, s1, s2

MC_Peers == {l, p1, p2}
MC_Samples == {10}
MC_Identities == {i1}
MC_Subscribers == {s1}
MC_InputSources == {"Mdns"}
\* The registry run needs no subscriber and two sources that can race.
MC_NoSubscribers == {}
MC_TwoSources == {"Mdns", "User"}
\* The listener callbacks only forward an event that no observer reads, so
\* one of them stands for all seven in the observer run.
MC_LocalEventKinds == {"NewListener"}

\* The two remote peers play the same part in the code (nothing orders or
\* names PeerIds), and every property quantifies over all of them, so
\* swapping them is a symmetry of the observer run.
MC_PeerSymmetry == Permutations({p1, p2})

\* Bounds: the channels, the action queue and the failure counter are
\* unbounded in the code; these cut the state graph.
MaxChan == 1
MaxActions == 1
MaxRttFailures == 1

StateBound ==
  /\ \A s \in Subscribers : Len(chan[s]) <= MaxChan
  /\ Len(book.actions) <= MaxActions
  /\ \A p \in DOMAIN book.peers :
       book.peers[p].rtt # NoRtt => book.peers[p].rtt.failures <= MaxRttFailures
=============================================================================
