------------------------------- MODULE ToyLwe -------------------------------
(***************************************************************************)
(* lwe_toy.py: modular products and their overflow warning, toy instances, *)
(* and the range of bits that an analysis says can be extracted.  A        *)
(* behavior is one call and its answer.                                    *)
(*                                                                         *)
(* The standard deviation is q / 2 pi times the factor num / den: the      *)
(* estimate log2(q) - log2(std) - log2(n) / 2 - 1 is log2(pi den / num)    *)
(* - log2(n) / 2, so that 2^k is below it just when 4^k n num^2 is below   *)
(* (pi den)^2, which is no integer.                                        *)
(***************************************************************************)
EXTENDS Integers, Sequences, FiniteSets

CONSTANTS Operands,     \* a and b of a product
          LweModuli,    \* q
          MAX_SAFE,     \* max_safe = 2^63 - 1
          Dimensions,   \* n of an analysis
          StdFactors,   \* error_std_factor as [num, den]
          Secrets,      \* the secrets of instances
          ToyModuli,    \* their q
          MatrixRows    \* m of an instance
ASSUME LweAssumption == /\ MAX_SAFE \in Nat /\ Operands \subseteq Int /\ LweModuli \cup ToyModuli \subseteq Nat \ {0}
                        /\ Dimensions \subseteq Int /\ \A f \in StdFactors : f.num \in Int /\ f.den \in Nat \ {0}
                        /\ MatrixRows \in Nat /\ Secrets \subseteq Seq(Int)

VARIABLE lweCall
LweInit == lweCall = [function |-> "none"]
Ask == lweCall.function = "none"

-----------------------------------------------------------------------------
(* Products: check_ntt_overflow_risk is check_overflow_risk once more, and *)
(* safe_ntt_coeff_mul is safe_modular_mul.                                 *)

SafeModularMul(a, b, q) == (a * b) % q
SafeModularAdd(a, b, q) == (a + b) % q

OverflowRisk(a, b, q) == a * b > MAX_SAFE /\ a * b > q

Multiply(a, b, q) ==
  Ask /\ lweCall' = [function |-> "mul", a |-> a, b |-> b, q |-> q,
                     product |-> SafeModularMul(a, b, q), sum |-> SafeModularAdd(a, b, q),
                     overflow_risk |-> OverflowRisk(a, b, q),
                     product_exceeds_64bit |-> a * b > MAX_SAFE]

-----------------------------------------------------------------------------
(* compute_1_6_bit_limit, compute_1_6_bit_range and analyze_lwe_threshold  *)
(* have the same arithmetic.                                               *)

\* pi^2 d, cut to an integer.
PiSquared(d) == 9 * d + 8696 * (d \div 10000) + (8696 * (d % 10000)) \div 10000
Fours == <<1, 4, 16, 64, 256, 1024, 4096, 16384>>
AtLeast(k, n, f) == Fours[k + 1] * n * f.num * f.num <= PiSquared(f.den * f.den)  \* the estimate is k or more
\* Rounded down: all estimates of 7 and more give one range, as do those below 0.
Floor(n, f) == IF ~AtLeast(0, n, f) THEN -1
               ELSE CHOOSE k \in 0..7 : AtLeast(k, n, f) /\ (k < 7 => ~AtLeast(k + 1, n, f))

Positive(n, f) == n > 0 /\ f.num > 0

\* Mutant: an estimate out of range is cut to the range.
Clamped(low, high) == IF low > high THEN [min |-> 1, max |-> 1] ELSE [min |-> low, max |-> high]

\* min_bits > max_bits: the estimate is not positive, or 7 or more.
OneToSix(low, high) == IF low > high THEN [min |-> 1, max |-> 6] ELSE [min |-> low, max |-> high]

BitRange(n, f) == LET low == Floor(n, f)
                      high == low + 1
                  IN  OneToSix(IF low > 1 THEN low ELSE 1, IF high < 6 THEN high ELSE 6)

\* error_rate < 0.25, with the rate num / (2 pi den): 4 num^2 < (pi den)^2.
WithinThreshold(f) == 4 * f.num * f.num <= PiSquared(f.den * f.den)

Analyze(n, f) ==
  Ask /\ lweCall' = IF Positive(n, f)
                    THEN [function |-> "range", n |-> n, factor |-> f, range |-> BitRange(n, f),
                          within |-> WithinThreshold(f)]
                    ELSE [function |-> "ValueError"]

-----------------------------------------------------------------------------
(* generate_toy_lwe_instance, for a given secret: n is its length.  The    *)
(* loop multiplies the matrix with the error vector, which has one entry   *)
(* per row: fewer rows than columns end in IndexError.  The secret is kept *)
(* in the answer and enters no computation.                                *)

InnerProduct(row, e) == LET sum[j \in 0..Len(row)] == IF j = 0 THEN 0 ELSE sum[j - 1] + row[j] * e[j]
                        IN  sum[Len(row)]

Instance(s, q, A, e, e0) ==
  Ask /\ lweCall' =
    IF Len(s) > MatrixRows THEN [function |-> "IndexError"]
    ELSE [function |-> "instance", secret |-> s, q |-> q, matrix_A |-> A, error_vector |-> e, error_scalar |-> e0,
          t |-> [i \in 1..MatrixRows |-> ((InnerProduct(A[i], e) % q) + e0) % q]]

LweNext == \/ \E a, b \in Operands, q \in LweModuli : Multiply(a, b, q)
           \/ \E n \in Dimensions, f \in StdFactors : Analyze(n, f)
           \/ \E s \in Secrets, q \in ToyModuli : \E A \in [1..MatrixRows -> [1..Len(s) -> 0..q - 1]],
                e \in [1..MatrixRows -> 0..q - 1], e0 \in 0..q - 1 : Instance(s, q, A, e, e0)
LweSpec == LweInit /\ [][LweNext]_lweCall

-----------------------------------------------------------------------------
(* Properties.                                                             *)

\* The warning is given for every product of residues that leaves the safe
\* range, as long as the modulus itself is in it, and the range of bits is a
\* range of 1..6 that the estimate lies in; when the estimate lies outside of
\* 1..6, as in too much noise or none to speak of, it says nothing: 1 to 6.
\* An instance's t_i are residues.
AnswersInRange ==
  /\ lweCall.function = "mul" =>
       /\ lweCall.product \in 0..lweCall.q - 1 /\ lweCall.sum \in 0..lweCall.q - 1
       /\ lweCall.q <= MAX_SAFE => (lweCall.overflow_risk <=> lweCall.product_exceeds_64bit)
       /\ ({lweCall.a, lweCall.b} \subseteq 0..lweCall.q - 1 /\ lweCall.q * lweCall.q <= MAX_SAFE) =>
            ~lweCall.overflow_risk
  /\ lweCall.function = "range" =>
       LET r == lweCall.range
           bits(k) == AtLeast(k, lweCall.n, lweCall.factor)
       IN  /\ 1 <= r.min /\ r.min <= r.max /\ r.max <= 6
           /\ (bits(1) /\ ~bits(6)) => bits(r.min) /\ ~bits(r.max) /\ r.max = r.min + 1
           /\ (~bits(0) \/ bits(7)) => r.min = 1 /\ r.max = 6
           /\ bits(1) => lweCall.within
  /\ lweCall.function = "instance" => \A i \in 1..MatrixRows : lweCall.t[i] \in 0..lweCall.q - 1
=============================================================================
