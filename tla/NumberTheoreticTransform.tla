---------------------- MODULE NumberTheoreticTransform ----------------------
(***************************************************************************)
(* ntt and pointwise_ntt_mul of hardware/hdf5_loader.py.  A polynomial is  *)
(* a function from 0..n-1 to its coefficients; a behavior is one call and  *)
(* its answer, which the property compares with a reference definition.    *)
(***************************************************************************)
EXTENDS Integers, Sequences, FiniteSets

CONSTANTS Polynomials,  \* the coefficients of the calls
          Moduli        \* primes
ASSUME PrimeAssumption == \A q \in Moduli : q \in Nat /\ q > 1 /\ \A d \in 2..(q - 1) : q % d # 0
Length(p) == Cardinality(DOMAIN p)
ASSUME PolynomialsAssumption == \A x \in Polynomials : IsFiniteSet(DOMAIN x) /\ x \in [0..Length(x) - 1 -> Int]

VARIABLE nttCall        \* the last call and its answer

Power(b, e, q) == LET pow[k \in 0..e] ==
                        IF k = 0 THEN 1 % q
                        ELSE LET h == pow[k \div 2] IN (IF k % 2 = 0 THEN h * h % q ELSE ((h * h % q) * b) % q)
                  IN  pow[e]
\* 1 << s
TwoTo(s) == LET two[k \in 0..s] == IF k = 0 THEN 1 ELSE 2 * two[k - 1] IN two[s]

\* n & (n - 1) = 0
IsPowerOfTwo(n) == n = 0 \/ \E s \in 0..n : TwoTo(s) = n
Stages(n) == CHOOSE s \in 0..n : TwoTo(s) = n

Omega(q, n, invert) ==
  LET omega == IF q = 3329 THEN 1729 ELSE IF q = 7681 THEN 2667 ELSE Power(2, (q - 1) \div n, q)
  IN  IF invert THEN Power(omega, q - 2, q) ELSE omega

\* Mutant: the factor of a stage is that of the stage before.
FactorBefore(q, n, invert, s) == Power(Omega(q, n, invert), n \div TwoTo(s), q)

\* One factor for all butterflies of stage s.
Factor(q, n, invert, s) == Power(Omega(q, n, invert), n \div (2 * TwoTo(s)), q)

\* The butterflies of one stage, pairs of indices step apart.
Butterflies(x, step, factor, q) ==
  [k \in DOMAIN x |-> IF (k \div step) % 2 = 0 THEN (x[k] + (x[k + step] * factor % q)) % q
                      ELSE (x[k - step] - (x[k] * factor % q)) % q]

\* The butterflies of all stages.
Transformed(x, q, invert) ==
  LET n == Length(x)
      stage[s \in 0..Stages(n)] ==
        IF s = 0 THEN x ELSE Butterflies(stage[s - 1], TwoTo(s - 1), Factor(q, n, invert, s - 1), q)
  IN  stage[Stages(n)]

\* For a length that is a power of two: others raise ValueError.
Ntt(x, q, invert) ==
  LET n == Length(x)
      result == Transformed(x, q, invert)
  IN  IF n = 0 THEN x
      ELSE IF invert THEN [k \in DOMAIN x |-> result[k] * Power(n, q - 2, q) % q] ELSE result

\* The shorter factor is padded, the product has the length that a came with.
Pad(x, n) == [k \in 0..n - 1 |-> IF k \in DOMAIN x THEN x[k] ELSE 0]
Longer(a, b) == IF Length(a) < Length(b) THEN Length(b) ELSE Length(a)
MulRaises(a, b) == ~IsPowerOfTwo(Longer(a, b)) \/ ~IsPowerOfTwo(Length(a))
PointwiseNttMul(a, b, q) ==
  LET n == Longer(a, b)
      u == Ntt(Pad(a, n), q, FALSE)
      v == Ntt(Pad(b, n), q, FALSE)
  IN  Ntt([k \in DOMAIN a |-> u[k] * v[k] % q], q, TRUE)

NttInit == nttCall = [function |-> "none", raises |-> FALSE]
CallNtt(x, q, invert) ==
  nttCall.function = "none" /\ nttCall' = [function |-> "ntt", data |-> x, modulus |-> q, invert |-> invert,
              raises |-> ~IsPowerOfTwo(Length(x)),
              answer |-> IF IsPowerOfTwo(Length(x)) THEN Ntt(x, q, invert) ELSE x]
CallMul(a, b, q) ==
  nttCall.function = "none" /\ nttCall' = [function |-> "mul", a |-> a, b |-> b, modulus |-> q,
              raises |-> MulRaises(a, b),
              answer |-> IF MulRaises(a, b) THEN a ELSE PointwiseNttMul(a, b, q)]
NttNext == \/ \E x \in Polynomials, q \in Moduli, invert \in BOOLEAN : CallNtt(x, q, invert)
           \/ \E a, b \in Polynomials, q \in Moduli : CallMul(a, b, q)

-----------------------------------------------------------------------------
(* The reference: without a reordering of the coefficients and with one    *)
(* factor per stage, the transform is a Walsh transform whose weights are  *)
(* the powers of omega to the indices in reversed bits.                    *)

Bit(k, s) == (k \div TwoTo(s)) % 2
Sum(f, n) == LET sum[k \in 0..n] == IF k = 0 THEN 0 ELSE sum[k - 1] + f[k - 1] IN sum[n]
Reversed(j, n) == Sum([s \in 0..Stages(n) - 1 |-> Bit(j, s) * TwoTo(Stages(n) - 1 - s)], Stages(n))
Weight(q, n, invert, j) == Power(Omega(q, n, invert), Reversed(j, n), q)
Sign(j, k, n) == IF Sum([s \in 0..Stages(n) - 1 |-> Bit(j, s) * Bit(k, s)], Stages(n)) % 2 = 0 THEN 1 ELSE -1
Walsh(x, q, invert, k) ==
  LET n == Length(x)
  IN  Sum([j \in 0..n - 1 |-> Sign(j, k, n) * (Weight(q, n, invert, j) * x[j] % q)], n) % q
OneFactor(q, n) == Omega(q, n, FALSE) = 1
Xor(j, k, n) == Sum([s \in 0..Stages(n) - 1 |-> TwoTo(s) * ((Bit(j, s) + Bit(k, s)) % 2)], Stages(n))

\* Over two coefficients and more, a transform is the Walsh transform of
\* the coefficients weighted with omega to the reversed index: the order of
\* the butterflies cannot matter.  An inverse one answers it divided by the
\* length, unless the modulus divides that, as 2 does.  Where all factors are
\* 1 the inverse undoes the transform, and the product of two polynomials of
\* one length is their dyadic convolution; in general neither holds.
TransformIsWalsh ==
  /\ nttCall.function = "ntt" /\ ~nttCall.raises /\ Length(nttCall.data) > 1 =>
       LET x == nttCall.data
           q == nttCall.modulus
           n == Length(x)
       IN  /\ ~nttCall.invert => \A k \in DOMAIN x : nttCall.answer[k] = Walsh(x, q, FALSE, k)
           /\ nttCall.invert /\ n % q # 0 =>
                \A k \in DOMAIN x : (n * nttCall.answer[k]) % q = Walsh(x, q, TRUE, k)
           /\ ~nttCall.invert /\ OneFactor(q, n) /\ n % q # 0 =>
                Ntt(nttCall.answer, q, TRUE) = [k \in DOMAIN x |-> x[k] % q]
  /\ nttCall.function = "mul" /\ ~nttCall.raises =>
       LET a == nttCall.a
           b == nttCall.b
           q == nttCall.modulus
           n == Length(a)
       IN  (n > 1 /\ Length(b) = n /\ OneFactor(q, n) /\ n % q # 0) =>
             \A k \in DOMAIN a : nttCall.answer[k] = Sum([j \in 0..n - 1 |-> a[j] * b[Xor(j, k, n)]], n) % q

NttSpec == NttInit /\ [][NttNext]_nttCall
=============================================================================
