-------------------------------- MODULE Dec --------------------------------
(***************************************************************************)
(* math.LegacyDec of cosmossdk.io/math, as the keepers use it: a decimal   *)
(* with a fixed number of digits, held as the integer "value * Scale".     *)
(* Scale is 10^18 in the library; TLC's runs use a small one, with amounts *)
(* that are small in proportion.                                           *)
(***************************************************************************)
EXTENDS Integers

CONSTANT Scale  \* number of units in 1, an even number

ASSUME ScaleAssumption == Scale \in Nat /\ Scale > 1 /\ Scale % 2 = 0

\* chopPrecisionAndRound for naturals: n / Scale, half to even.
HalfEven(n) ==
  LET q == n \div Scale
      r == n % Scale
  IN IF 2 * r < Scale \/ (2 * r = Scale /\ q % 2 = 0) THEN q ELSE q + 1

ChopRound(n) == IF n < 0 THEN -HalfEven(-n) ELSE HalfEven(n)

ToDec(i) == i * Scale

Mul(a, b) == ChopRound(a * b)

\* Quo, by a positive decimal: the quotient is truncated at twice the precision
\* and then rounded.
Quo(a, b) ==
  IF a < 0 THEN -ChopRound(((-a) * Scale * Scale) \div b)
           ELSE ChopRound((a * Scale * Scale) \div b)

\* Quo for a large dividend, in two parts that stay within TLC's integers.
QuoInParts(a, b) ==
  LET n == a * Scale
  IN ChopRound((n \div b) * Scale + ((n % b) * Scale) \div b)

RoundInt(a) == ChopRound(a)

TruncateInt(a) == IF a < 0 THEN -((-a) \div Scale) ELSE a \div Scale

\* Ceil, as an integer.
CeilInt(a) == -((-a) \div Scale)

MinDec(a, b) == IF a < b THEN a ELSE b
=============================================================================
