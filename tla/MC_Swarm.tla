------------------------------ MODULE MC_Swarm ------------------------------
(* The book inside the Swarm, on small instances.                            *)
EXTENDS Swarm

CONSTANTS l, p1, p2, pubA, pubB, v6, i1, s1, L1, L2, la1, la2, x1

MC_Peers1 == {l, p1}
MC_Peers2 == {l, p1, p2}
MC_Samples == {10}
MC_Identities == {i1}
MC_InputSources == {"Mdns"}
MC_ListenerIds == {L1, L2}
MC_ListenAddrs == {la1, la2}
=============================================================================
