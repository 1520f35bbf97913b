--------------------------------- MODULE Rtt ---------------------------------
(***************************************************************************)
(* The round-trip-time estimator of one peer (struct Rtt, src/net/peers.rs).*)
(* Durations are counted in nanoseconds.  Duration * k / 10 in the code is *)
(* exact multiplication followed by a division that truncates to the       *)
(* nanosecond (std's Duration / u32 keeps the carry of the seconds, and    *)
(* 10 divides 10^9, so it equals the floor of the nanosecond count).       *)
(* failures is a u32 incremented with +=; it would wrap only after 2^32   *)
(* consecutive failed pings, which no run of the program reaches, so it is *)
(* a natural number here.                                                  *)
(***************************************************************************)
EXTENDS Naturals

\* The values an Rtt takes, for nanosecond durations drawn from Nat.
RttT == [current: Nat, decay3: Nat, decay10: Nat, failures: Nat]

\* Rtt::new: every figure starts at the first sample, no failures.
RttNew(d) == [current |-> d, decay3 |-> d, decay10 |-> d, failures |-> 0]

\* Mutant of RttRegister: the slow average decays from the fast one.
RttRegisterSlowFromFast(r, d) ==
  [current  |-> d,
   decay3   |-> (r.decay3 * 7) \div 10 + (d * 3) \div 10,
   decay10  |-> (r.decay3 * 9) \div 10 + d \div 10,
   failures |-> 0]

\* Rtt::register: a successful sample moves both decaying averages and
\* clears the failure count.
RttRegister(r, d) ==
  [current  |-> d,
   decay3   |-> (r.decay3 * 7) \div 10 + (d * 3) \div 10,
   decay10  |-> (r.decay10 * 9) \div 10 + d \div 10,
   failures |-> 0]

\* Rtt::register_failure: only the failure count moves.
RttRegisterFailure(r) == [r EXCEPT !.failures = @ + 1]

=============================================================================
