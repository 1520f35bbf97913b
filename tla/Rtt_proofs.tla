------------------------------ MODULE Rtt_proofs ------------------------------
(***************************************************************************)
(* The error bound of Rtt::register's fixed-ratio arithmetic, for every    *)
(* sample and every scale.  MC_Rtt's NoDrift compares decay_3 and decay_10 *)
(* with the exact averages scaled by P = 10^n; the step below is its       *)
(* inductive step with P left arbitrary.  Each division truncates by less  *)
(* than one nanosecond: the error after a sample is the old error shrunk   *)
(* by 7/10 (9/10) plus the two remainders, which keeps it under 6 (18).    *)
(***************************************************************************)
EXTENDS MC_Rtt, Integers, TLAPS

\* What integer division leaves out: k * x - 10 * ((k * x) \div 10) is a
\* digit.
LEMMA TruncDigit ==
  ASSUME NEW x \in Nat, NEW k \in Nat
  PROVE  (k * x) - 10 * ((k * x) \div 10) \in 0 .. 9
BY SMT

\* A digit times a non-negative scale is at most nine scales.
LEMMA DigitScale ==
  ASSUME NEW r \in 0 .. 9, NEW P \in Nat
  PROVE  0 <= r * P /\ r * P <= 9 * P
BY SMT

\* One decaying average with weights w/10 and (10-w)/10, error bound B:
\* if the exact value E is within [0, B*P) of the estimate D scaled by P,
\* the next exact value is within [0, B*10P) of the next estimate, as long
\* as w*B + 18 <= 10*B.
LEMMA DecayStep ==
  ASSUME NEW D \in Nat, NEW d \in Nat, NEW P \in Nat, NEW E \in Int,
         NEW w \in Nat, NEW B \in Nat, w * B + 18 <= 10 * B,
         0 <= E - D * P, E - D * P < B * P
  PROVE  LET D2 == (D * w) \div 10 + (d * (10 - w)) \div 10
             E2 == w * E + (10 - w) * d * P
         IN  0 <= E2 - D2 * (10 * P) /\ E2 - D2 * (10 * P) < B * (10 * P)
<1> DEFINE X == E - D * P
           r1 == (w * D) - 10 * ((w * D) \div 10)
           r2 == ((10 - w) * d) - 10 * (((10 - w) * d) \div 10)
           D2 == (D * w) \div 10 + (d * (10 - w)) \div 10
           E2 == w * E + (10 - w) * d * P
<1>1. w <= 10
  BY SMT
<1>2. r1 \in 0 .. 9 /\ r2 \in 0 .. 9
  BY <1>1, TruncDigit
<1>3. E2 - D2 * (10 * P) = w * X + r1 * P + r2 * P
  BY <1>1, SMT
<1>4. 0 <= w * X
  BY SMT
<1>5. w * X + 18 * P < B * (10 * P) \/ P = 0
  <2>1. CASE P = 0
    BY <2>1
  <2>2. CASE P > 0
    <3>1. w * X <= w * (B * P - 1)
      BY <2>2, SMT
    <3>2. w * (B * P - 1) + 18 * P < B * 10 * P
      BY <2>2, SMT
    <3> QED BY <3>1, <3>2, SMT
  <2> QED BY <2>1, <2>2, SMT
<1>6. 0 <= r1 * P /\ r1 * P <= 9 * P /\ 0 <= r2 * P /\ r2 * P <= 9 * P
  BY <1>2, DigitScale
<1>7. CASE P = 0
  BY <1>7, SMT
<1> QED BY <1>3, <1>4, <1>5, <1>6, <1>7, SMT

\* Rtt::register never lets decay_3 or decay_10 drift: for any estimate,
\* any sample d and any scale P, if the exact averages (scaled by P) lie
\* within [0, 6P) and [0, 18P) above the estimates, then after the sample
\* they lie within [0, 60P) and [0, 180P) above the new estimates scaled
\* by 10P.
THEOREM RegisterNoDrift ==
  ASSUME NEW r \in RttT, NEW d \in Nat, NEW P \in Nat, NEW E3 \in Int, NEW E10 \in Int,
         0 <= E3 - r.decay3 * P, E3 - r.decay3 * P < 6 * P,
         0 <= E10 - r.decay10 * P, E10 - r.decay10 * P < 18 * P
  PROVE  LET r2 == RttRegister(r, d)
         IN  /\ 0 <= (7 * E3 + 3 * d * P) - r2.decay3 * (10 * P)
             /\ (7 * E3 + 3 * d * P) - r2.decay3 * (10 * P) < 6 * (10 * P)
             /\ 0 <= (9 * E10 + d * P) - r2.decay10 * (10 * P)
             /\ (9 * E10 + d * P) - r2.decay10 * (10 * P) < 18 * (10 * P)
<1>1. r.decay3 \in Nat /\ r.decay10 \in Nat
  BY DEF RttT
<1>2. RttRegister(r, d).decay3 = (r.decay3 * 7) \div 10 + (d * (10 - 7)) \div 10
      /\ RttRegister(r, d).decay10 = (r.decay10 * 9) \div 10 + (d * (10 - 9)) \div 10
  BY SMT DEF RttRegister
<1>3. 7 * 6 + 18 <= 10 * 6 /\ 9 * 18 + 18 <= 10 * 18 /\ 7 \in Nat /\ 9 \in Nat
      /\ 6 \in Nat /\ 18 \in Nat /\ 10 - 7 = 3 /\ 10 - 9 = 1
  BY SMT
<1>4. /\ 0 <= (7 * E3 + (10 - 7) * d * P) - ((r.decay3 * 7) \div 10 + (d * (10 - 7)) \div 10) * (10 * P)
      /\ (7 * E3 + (10 - 7) * d * P) - ((r.decay3 * 7) \div 10 + (d * (10 - 7)) \div 10) * (10 * P)
           < 6 * (10 * P)
  BY <1>1, <1>3, DecayStep
<1>5. /\ 0 <= (9 * E10 + (10 - 9) * d * P) - ((r.decay10 * 9) \div 10 + (d * (10 - 9)) \div 10) * (10 * P)
      /\ (9 * E10 + (10 - 9) * d * P) - ((r.decay10 * 9) \div 10 + (d * (10 - 9)) \div 10) * (10 * P)
           < 18 * (10 * P)
  BY <1>1, <1>3, DecayStep
<1> QED BY <1>2, <1>3, <1>4, <1>5, SMT

-----------------------------------------------------------------------------
(* NoDrift in the MC_Rtt harness.                                          *)

\* What a power of ten is, the one fact about ^ the step needs; the
\* provers have no axioms for exponentiation, so it is a hypothesis of
\* the theorem below (10^0 = 1 they evaluate).
PowersOfTen == \A k \in Nat : 10^k \in Nat /\ 10^(k + 1) = 10 * 10^k

\* NoDrift with the shapes it needs.
RInv ==
  /\ rtt \in RttT /\ n \in Nat /\ exact3 \in Int /\ exact10 \in Int
  /\ NoDrift

\* The first sample: estimate and exact averages coincide.
LEMMA InitRInv == Init => RInv
<1> SUFFICES ASSUME NEW d \in Samples, rtt = RttNew(d), n = 0, exact3 = d,
                    exact10 = d, first = d
             PROVE  RInv
  BY DEF Init
<1>1. d \in Nat /\ 10^0 = 1
  BY RttHarnessAssumption, SMT
<1> QED BY <1>1, SMT DEF RInv, NoDrift, RttNew, RttT

\* Samples and failures keep the bound.
LEMMA NextRInv == PowersOfTen /\ RInv /\ [Next]_mvars => RInv'
<1> SUFFICES ASSUME PowersOfTen, RInv, [Next]_mvars PROVE RInv'
  OBVIOUS
<1>1. ASSUME NEW d \in Samples, Sample(d) PROVE RInv'
  <2>1. d \in Nat /\ 10^n \in Nat /\ 10^(n + 1) = 10 * 10^n
    BY RttHarnessAssumption DEF PowersOfTen, RInv
  <2>2. rtt' = RttRegister(rtt, d) /\ n' = n + 1 /\ exact3' = 7 * exact3 + 3 * d * 10^n
        /\ exact10' = 9 * exact10 + d * 10^n
    BY <1>1 DEF Sample
  <2>3. RttRegister(rtt, d) \in RttT
    BY <2>1, SMT DEF RttRegister, RttT, RInv
  <2>4. LET r2 == RttRegister(rtt, d)
        IN  /\ 0 <= (7 * exact3 + 3 * d * 10^n) - r2.decay3 * (10 * 10^n)
            /\ (7 * exact3 + 3 * d * 10^n) - r2.decay3 * (10 * 10^n) < 6 * (10 * 10^n)
            /\ 0 <= (9 * exact10 + d * 10^n) - r2.decay10 * (10 * 10^n)
            /\ (9 * exact10 + d * 10^n) - r2.decay10 * (10 * 10^n) < 18 * (10 * 10^n)
    BY <2>1, RegisterNoDrift DEF RInv, NoDrift
  <2> QED BY <2>1, <2>2, <2>3, <2>4 DEF RInv, NoDrift
<1>2. CASE Failure
  BY <1>2 DEF Failure, RttRegisterFailure, RInv, NoDrift, RttT
<1>3. CASE UNCHANGED mvars
  BY <1>3 DEF mvars, RInv, NoDrift
<1> QED BY <1>1, <1>2, <1>3 DEF Next

\* The fixed-ratio arithmetic of Rtt::register never drifts from the exact
\* decaying averages (decay_3 less than 6 ns, decay_10 less than 18 ns
\* below them), whatever samples and failures set_rtt feeds it, for every
\* set of samples and every number of samples; the only hypothesis is the
\* recursion of powers of ten.
THEOREM NoDriftThm == PowersOfTen => (Spec => []NoDrift)
<1>1. RInv => NoDrift
  BY DEF RInv
<1> SUFFICES ASSUME PowersOfTen PROVE Spec => []NoDrift
  OBVIOUS
<1>2. RInv /\ [Next]_mvars => RInv'
  BY NextRInv
<1> QED BY InitRInv, <1>1, <1>2, PTL DEF Spec

=============================================================================
