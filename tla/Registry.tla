------------------------------- MODULE Registry -------------------------------
(***************************************************************************)
(* What the address book promises about its peer registry, with every     *)
(* method, callback and event left out.  reg[p] is the address store of a *)
(* known peer p: each address with the source that first reported it.     *)
(* The registry changes in three ways only:                               *)
(*   Learn   a remote peer gains an address it did not have, with the     *)
(*           source of that report (first writer wins);                   *)
(*   Unlearn a known peer loses one address (its record stays, even       *)
(*           when it becomes empty);                                      *)
(*   Forget  a known peer whose addresses were all pruned is dropped, and *)
(*           only when pruning is on.                                     *)
(***************************************************************************)
CONSTANTS
  RPeers,    \* the peers that may be registered (the local one excluded)
  RAddrs,    \* addresses
  RSources,  \* address sources
  Prune      \* prune_addresses

VARIABLE reg

\* The addresses registered for p, none if p is unknown.
Known(p) == IF p \in DOMAIN reg THEN DOMAIN reg[p] ELSE {}

RInit == reg = [p \in {} |-> {}]

Learn(p, a, s) ==
  /\ a \notin Known(p)
  /\ reg' = [q \in DOMAIN reg \cup {p} |->
               IF q = p
               THEN [x \in Known(p) \cup {a} |-> IF x = a THEN s ELSE reg[p][x]]
               ELSE reg[q]]

Unlearn(p, a) ==
  /\ p \in DOMAIN reg
  /\ reg' = [reg EXCEPT ![p] = [x \in DOMAIN @ \ {a} |-> @[x]]]

Forget(p) ==
  /\ Prune
  /\ p \in DOMAIN reg
  /\ DOMAIN reg[p] = {}
  /\ reg' = [q \in DOMAIN reg \ {p} |-> reg[q]]

\* A step of the registry changes it (a step that leaves reg alone is a
\* stutter of [RNext]_reg anyway).
RNext ==
  /\ reg' # reg
  /\ \E p \in RPeers :
       \/ \E a \in RAddrs, s \in RSources : Learn(p, a, s)
       \/ \E a \in RAddrs : Unlearn(p, a)
       \/ Forget(p)

RSpec == RInit /\ [][RNext]_reg

=============================================================================
