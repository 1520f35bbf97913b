------------------------------- MODULE MC_Rtt -------------------------------
(***************************************************************************)
(* The Rtt estimator fed by set_rtt, checked against the exact decaying    *)
(* averages it approximates.  exact3 and exact10 are the real-valued      *)
(* averages scaled by 10^n after n samples (so that they stay integers):  *)
(* F_n = 7/10 F_(n-1) + 3/10 s_n gives exact3_n = 7 exact3_(n-1) +        *)
(* 3 s_n 10^(n-1), and likewise with 9 and 1 for decay10.                 *)
(***************************************************************************)
EXTENDS Rtt

CONSTANTS Samples, MaxSamples

ASSUME RttHarnessAssumption == Samples \subseteq Nat /\ MaxSamples \in Nat \ {0}

VARIABLES rtt, n, exact3, exact10, first

mvars == <<rtt, n, exact3, exact10, first>>

\* The first sample creates the estimate (Rtt::new).
Init ==
  \E d \in Samples :
    /\ rtt = RttNew(d)
    /\ n = 0
    /\ exact3 = d
    /\ exact10 = d
    /\ first = d

\* A later successful sample (Rtt::register), at most MaxSamples of them.
Sample(d) ==
  /\ n < MaxSamples
  /\ rtt' = RttRegister(rtt, d)
  /\ n' = n + 1
  /\ exact3' = 7 * exact3 + 3 * d * 10^n
  /\ exact10' = 9 * exact10 + d * 10^n
  /\ UNCHANGED first

\* A failed ping (Rtt::register_failure); one in a row is enough, as a
\* failure touches neither average.
Failure ==
  /\ rtt.failures = 0
  /\ rtt' = RttRegisterFailure(rtt)
  /\ UNCHANGED <<n, exact3, exact10, first>>

Next == (\E d \in Samples : Sample(d)) \/ Failure

Spec == Init /\ [][Next]_mvars

\* A stream that repeats the first sample, the input spec §8 speaks of.
ConstantNext == Sample(first)

ConstantSpec == Init /\ [][ConstantNext]_mvars /\ WF_mvars(ConstantNext)

\* The fixed-ratio integer arithmetic never drifts far from the exact
\* averages: decay_3 is at most 6 ns and decay_10 at most 18 ns below them,
\* whatever the samples (the truncation of each division is less than one
\* nanosecond, and the averages shrink old errors by 7/10 and 9/10).
NoDrift ==
  /\ 0 <= exact3 - rtt.decay3 * 10^n /\ exact3 - rtt.decay3 * 10^n < 6 * 10^n
  /\ 0 <= exact10 - rtt.decay10 * 10^n /\ exact10 - rtt.decay10 * 10^n < 18 * 10^n

\* Spec §8: given a constant stream of identical samples s, decay_fast and
\* decay_slow converge to s (Rtt::register).
ConvergesToSample == <>[](rtt.decay3 = first /\ rtt.decay10 = first)
=============================================================================
