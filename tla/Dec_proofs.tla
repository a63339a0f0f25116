----------------------------- MODULE Dec_proofs -----------------------------
(***************************************************************************)
(* Bounds on what the decimal operations return for naturals, for every    *)
(* Scale: rounding to the nearest stays below any whole bound of the exact *)
(* value, and a product with or a quotient up to one is no increase.       *)
(***************************************************************************)
EXTENDS Dec, TLAPS

\* Division with remainder.
LEMMA DivMod ==
  ASSUME NEW n \in Nat, NEW s \in Nat, s > 0
  PROVE  /\ n \div s \in Nat
         /\ n % s \in Nat
         /\ n % s < s
         /\ n = s * (n \div s) + (n % s)
OBVIOUS

\* A quotient is the largest number whose product is not above the dividend.
LEMMA DivBelow ==
  ASSUME NEW n \in Nat, NEW s \in Nat, s > 0, NEW m \in Nat, n < (m + 1) * s
  PROVE  n \div s <= m
<1> DEFINE q == n \div s
           r == n % s
<1>1. q \in Nat /\ r \in Nat /\ n = s * q + r
  BY DivMod
<1> HIDE DEF q, r
<1>2. ASSUME q >= m + 1 PROVE FALSE
  <2>1. s * q >= s * (m + 1)
    BY <1>1, <1>2
  <2> QED
    BY <2>1, <1>1
<1>3. q <= m
  BY <1>1, <1>2
<1> QED
  BY <1>3 DEF q

LEMMA DivAbove ==
  ASSUME NEW n \in Nat, NEW s \in Nat, s > 0, NEW m \in Nat, m * s <= n
  PROVE  m <= n \div s
<1> DEFINE q == n \div s
           r == n % s
<1>1. q \in Nat /\ r \in Nat /\ r < s /\ n = s * q + r
  BY DivMod
<1> HIDE DEF q, r
<1>2. ASSUME q + 1 <= m PROVE FALSE
  <2>1. s * (q + 1) <= s * m
    BY <1>1, <1>2
  <2>2. s * (q + 1) = s * q + s
    BY <1>1
  <2> QED
    BY <2>1, <2>2, <1>1
<1>3. m <= q
  BY <1>1, <1>2
<1> QED
  BY <1>3 DEF q

\* Rounding to the nearest: a natural, at least the truncated value, and below
\* every whole number that the exact value is below.
LEMMA HalfEvenBounds ==
  ASSUME NEW n \in Nat
  PROVE  /\ HalfEven(n) \in Nat
         /\ n \div Scale <= HalfEven(n)
         /\ HalfEven(n) <= (n \div Scale) + 1
BY ScaleAssumption, DivMod DEF HalfEven

LEMMA HalfEvenBelow ==
  ASSUME NEW n \in Nat, NEW m \in Nat, n <= m * Scale
  PROVE  HalfEven(n) <= m
<1> DEFINE q == n \div Scale
           r == n % Scale
<1>1. q \in Nat /\ r \in Nat /\ r < Scale /\ n = Scale * q + r
  BY ScaleAssumption, DivMod
<1>2. HalfEven(n) \in {q, q + 1} /\ (r = 0 => HalfEven(n) = q)
  BY ScaleAssumption DEF HalfEven
<1> HIDE DEF q, r
<1>3. Scale * q <= Scale * m
  BY <1>1, ScaleAssumption
<1>4. q <= m
  BY <1>1, <1>3, ScaleAssumption
<1>5. CASE q = m
  <2>1. r = 0
    BY <1>1, <1>5, ScaleAssumption
  <2> QED
    BY <1>2, <1>4, <2>1
<1>6. CASE q < m
  BY <1>1, <1>2, <1>6
<1> QED
  BY <1>1, <1>4, <1>5, <1>6

\* RoundInt is a natural, no less than TruncateInt.
LEMMA RoundTruncate ==
  ASSUME NEW a \in Nat
  PROVE  /\ RoundInt(a) \in Nat
         /\ TruncateInt(a) \in Nat
         /\ TruncateInt(a) <= RoundInt(a)
         /\ TruncateInt(a) * Scale <= a
<1>1. /\ RoundInt(a) = HalfEven(a) /\ TruncateInt(a) = a \div Scale
  BY DEF RoundInt, ChopRound, TruncateInt
<1>2. a \div Scale \in Nat /\ (a \div Scale) * Scale <= a
  BY DivMod, ScaleAssumption
<1> QED
  BY <1>1, <1>2, HalfEvenBounds

\* A whole bound of a decimal bounds what it is rounded to.
LEMMA RoundBelow ==
  ASSUME NEW a \in Nat, NEW m \in Nat, a <= ToDec(m)
  PROVE  RoundInt(a) <= m
<1>1. RoundInt(a) = HalfEven(a)
  BY DEF RoundInt, ChopRound
<1> QED
  BY <1>1, HalfEvenBelow DEF ToDec

LEMMA MulType ==
  ASSUME NEW a \in Nat, NEW b \in Nat
  PROVE  Mul(a, b) \in Nat
<1>1. a * b \in Nat
  OBVIOUS
<1> QED
  BY <1>1, HalfEvenBounds DEF Mul, ChopRound

\* A part of an amount is not more than the amount.
LEMMA MulBelow ==
  ASSUME NEW a \in Nat, NEW b \in Nat, b <= Scale
  PROVE  Mul(a, b) <= a
<1>1. a * b \in Nat
  OBVIOUS
<1>2. a * b <= a * Scale
  BY ScaleAssumption
<1> QED
  BY <1>1, <1>2, HalfEvenBelow DEF Mul, ChopRound

LEMMA QuoType ==
  ASSUME NEW a \in Nat, NEW b \in Nat, b > 0
  PROVE  Quo(a, b) \in Nat
<1> DEFINE n == a * Scale * Scale
<1>1. n \in Nat
  BY ScaleAssumption
<1> HIDE DEF n
<1>2. n \div b \in Nat
  BY <1>1, DivMod
<1> QED
  BY <1>2, HalfEvenBounds DEF Quo, ChopRound, n

\* The share of a part is at most one.
LEMMA QuoBelow ==
  ASSUME NEW a \in Nat, NEW b \in Nat, b > 0, a <= b
  PROVE  Quo(a, b) <= Scale
<1> DEFINE s == Scale * Scale
           n == a * Scale * Scale
<1>1. s \in Nat /\ n \in Nat /\ n = a * s
  BY ScaleAssumption
<1>2. s > 0
  BY ScaleAssumption
<1> HIDE DEF s, n
<1>3. a * s <= b * s
  BY <1>1
<1>4. n < (s + 1) * b
  BY <1>1, <1>3
<1>5. n \div b \in Nat /\ n \div b <= s
  BY <1>1, <1>2, <1>4, DivMod, DivBelow
<1> QED
  BY <1>5, HalfEvenBelow, ScaleAssumption DEF Quo, ChopRound, n, s

\* A whole number is not rounded.
LEMMA HalfEvenExact ==
  ASSUME NEW m \in Nat
  PROVE  HalfEven(m * Scale) = m
<1>1. m * Scale \in Nat
  BY ScaleAssumption
<1>2. HalfEven(m * Scale) \in Nat /\ HalfEven(m * Scale) <= m
  BY <1>1, HalfEvenBelow, HalfEvenBounds
<1>3. m <= (m * Scale) \div Scale /\ (m * Scale) \div Scale \in Nat
  BY <1>1, DivAbove, DivMod, ScaleAssumption
<1> QED
  BY <1>1, <1>2, <1>3, HalfEvenBounds

\* The product with one and the quotient of equals.
LEMMA MulOne ==
  ASSUME NEW a \in Nat
  PROVE  Mul(a, Scale) = a
<1>1. a * Scale \in Nat
  BY ScaleAssumption
<1> QED
  BY <1>1, HalfEvenExact DEF Mul, ChopRound

LEMMA RoundExact ==
  ASSUME NEW m \in Nat
  PROVE  RoundInt(ToDec(m)) = m
<1>1. m * Scale \in Nat
  BY ScaleAssumption
<1> QED
  BY <1>1, HalfEvenExact DEF RoundInt, ChopRound, ToDec

LEMMA QuoSelf ==
  ASSUME NEW b \in Nat, b > 0
  PROVE  Quo(b, b) = Scale
<1> DEFINE s == Scale * Scale
           n == b * Scale * Scale
<1>1. s \in Nat /\ n \in Nat /\ n = s * b
  BY ScaleAssumption
<1>2. HalfEven(s) = Scale
  BY HalfEvenExact, ScaleAssumption
<1> HIDE DEF s, n
<1>3. n < (s + 1) * b /\ s * b <= n
  BY <1>1
<1>4. n \div b = s
  BY <1>1, <1>3, DivMod, DivBelow, DivAbove
<1> QED
  BY <1>1, <1>2, <1>4 DEF Quo, ChopRound, n

\* A quotient in two parts is the quotient.
LEMMA QuoInPartsExact ==
  ASSUME NEW a \in Nat, NEW b \in Nat, b > 0
  PROVE  QuoInParts(a, b) = Quo(a, b)
<1> DEFINE n == a * Scale
           q == n \div b
           r == n % b
           t == (r * Scale) \div b
           u == (r * Scale) % b
           m == q * Scale + t
<1>1. n \in Nat
  BY ScaleAssumption
<1> HIDE DEF n
<1>2. q \in Nat /\ r \in Nat /\ n = b * q + r
  BY <1>1, DivMod
<1> HIDE DEF q, r
<1>3. r * Scale \in Nat
  BY <1>2, ScaleAssumption
<1>4. t \in Nat /\ u \in Nat /\ u < b /\ r * Scale = b * t + u
  BY <1>3, DivMod
<1> HIDE DEF t, u
<1>5. n * Scale \in Nat /\ m \in Nat
  BY <1>1, <1>2, <1>4, ScaleAssumption
<1>6. n * Scale = (b * q) * Scale + r * Scale
  BY <1>2, ScaleAssumption
<1>7. (b * q) * Scale = (q * Scale) * b
  BY <1>2, ScaleAssumption
<1>8. m * b = (q * Scale) * b + b * t
  BY <1>2, <1>4, ScaleAssumption
<1> HIDE DEF m
<1>9. n * Scale = m * b + u
  BY <1>2, <1>3, <1>4, <1>5, <1>6, <1>7, <1>8, ScaleAssumption
<1>10. (m + 1) * b = m * b + b
  BY <1>5
<1>11. m * b <= n * Scale /\ n * Scale < (m + 1) * b
  BY <1>4, <1>5, <1>9, <1>10
<1>12. (n * Scale) \div b = m
  BY <1>5, <1>11, DivMod, DivBelow, DivAbove
<1> QED
  BY <1>12 DEF QuoInParts, Quo, m, n, q, r, t

\* Rounding keeps the order.
LEMMA HalfEvenMonotone ==
  ASSUME NEW n \in Nat, NEW m \in Nat, n <= m
  PROVE  HalfEven(n) <= HalfEven(m)
<1> DEFINE q == n \div Scale
           r == n % Scale
           p == m \div Scale
           t == m % Scale
<1>1. q \in Nat /\ r \in Nat /\ r < Scale /\ n = Scale * q + r
  BY ScaleAssumption, DivMod
<1>2. p \in Nat /\ t \in Nat /\ t < Scale /\ m = Scale * p + t
  BY ScaleAssumption, DivMod
<1>3. HalfEven(n) = IF 2 * r < Scale \/ (2 * r = Scale /\ q % 2 = 0) THEN q ELSE q + 1
  BY DEF HalfEven
<1>4. HalfEven(m) = IF 2 * t < Scale \/ (2 * t = Scale /\ p % 2 = 0) THEN p ELSE p + 1
  BY DEF HalfEven
<1> HIDE DEF q, r, p, t
<1>5. CASE q = p
  <2>1. r <= t
    BY <1>1, <1>2, <1>5, ScaleAssumption
  <2> QED
    BY <1>1, <1>2, <1>3, <1>4, <1>5, <2>1, ScaleAssumption
<1>6. CASE q < p
  BY <1>1, <1>2, <1>3, <1>4, <1>6, ScaleAssumption
<1>7. CASE q > p
  <2>1. Scale * (p + 1) <= Scale * q
    BY <1>1, <1>2, <1>7, ScaleAssumption
  <2>2. Scale * (p + 1) = Scale * p + Scale
    BY <1>2, ScaleAssumption
  <2> QED
    BY <1>1, <1>2, <2>1, <2>2, ScaleAssumption
<1> QED
  BY <1>1, <1>2, <1>5, <1>6, <1>7

\* Rounding moves a value by half a unit at most.
LEMMA HalfEvenNear ==
  ASSUME NEW n \in Nat
  PROVE  /\ 2 * (Scale * HalfEven(n)) <= 2 * n + Scale
         /\ 2 * n <= 2 * (Scale * HalfEven(n)) + Scale
<1> DEFINE q == n \div Scale
           r == n % Scale
<1>1. q \in Nat /\ r \in Nat /\ r < Scale /\ n = Scale * q + r
  BY ScaleAssumption, DivMod
<1>2. HalfEven(n) = IF 2 * r < Scale \/ (2 * r = Scale /\ q % 2 = 0) THEN q ELSE q + 1
  BY DEF HalfEven
<1> HIDE DEF q, r
<1>3. Scale * (q + 1) = Scale * q + Scale /\ Scale * q \in Nat
  BY <1>1, ScaleAssumption
<1>4. CASE HalfEven(n) = q /\ 2 * r <= Scale
  BY <1>1, <1>3, <1>4, ScaleAssumption
<1>5. CASE HalfEven(n) = q + 1 /\ 2 * r >= Scale
  BY <1>1, <1>3, <1>5, ScaleAssumption
<1> QED
  BY <1>1, <1>2, <1>4, <1>5, ScaleAssumption

\* A part of a decimal is rounded to no more coins than the decimal.
LEMMA RoundPart ==
  ASSUME NEW a \in Nat, NEW b \in Nat, b <= Scale
  PROVE  /\ RoundInt(Mul(a, b)) \in Nat
         /\ RoundInt(a) \in Nat
         /\ RoundInt(Mul(a, b)) <= RoundInt(a)
<1>1. Mul(a, b) \in Nat /\ Mul(a, b) <= a
  BY MulType, MulBelow
<1> QED
  BY <1>1, HalfEvenMonotone, HalfEvenBounds DEF RoundInt, ChopRound

\* The product with a whole number is exact.
LEMMA MulWhole ==
  ASSUME NEW m \in Nat, NEW a \in Nat
  PROVE  Mul(ToDec(m), a) = m * a /\ Mul(a, ToDec(m)) = m * a
<1>1. /\ (m * Scale) * a = (m * a) * Scale
      /\ a * (m * Scale) = (m * a) * Scale
      /\ m * a \in Nat
      /\ (m * a) * Scale \in Nat
  BY ScaleAssumption
<1>2. HalfEven((m * a) * Scale) = m * a
  BY <1>1, HalfEvenExact
<1> QED
  BY <1>1, <1>2 DEF Mul, ChopRound, ToDec

\* A quotient is no less than any whole number that its divisor fits so often.
LEMMA QuoAtLeast ==
  ASSUME NEW a \in Nat, NEW b \in Nat, b > 0, NEW m \in Nat, m * b <= a
  PROVE  Quo(a, b) \in Nat /\ ToDec(m) <= Quo(a, b)
<1> DEFINE s == Scale * Scale
           n == a * Scale * Scale
           k == m * Scale
<1>1. s \in Nat /\ n \in Nat /\ n = a * s /\ k \in Nat /\ k * Scale = m * s
  BY ScaleAssumption
<1>2. HalfEven(k * Scale) = k
  BY <1>1, HalfEvenExact
<1> HIDE DEF s, n, k
<1>3. m * s \in Nat /\ (m * b) * s <= a * s /\ (m * b) * s = (m * s) * b
  BY <1>1
<1>4. (m * s) * b <= n
  BY <1>1, <1>3
<1>5. n \div b \in Nat /\ m * s <= n \div b
  BY <1>1, <1>3, <1>4, DivMod, DivAbove
<1>6. HalfEven(m * s) <= HalfEven(n \div b)
  BY <1>3, <1>5, HalfEvenMonotone
<1> QED
  BY <1>1, <1>2, <1>5, <1>6, QuoType DEF Quo, ChopRound, n, k, ToDec

\* A quotient is above the exact value by less than a unit.
LEMMA QuoNear ==
  ASSUME NEW a \in Nat, NEW b \in Nat, b > 0
  PROVE  2 * (Quo(a, b) * b) <= 2 * (a * Scale) + b
<1> DEFINE n == a * Scale * Scale
           d == n \div b
           q == HalfEven(d)
<1>1. n \in Nat /\ n = (a * Scale) * Scale /\ a * Scale \in Nat
  BY ScaleAssumption
<1> HIDE DEF n
<1>2. d \in Nat /\ b * d <= n
  BY <1>1, DivMod
<1>3. Quo(a, b) = q
  BY <1>2 DEF Quo, ChopRound, n
<1> HIDE DEF d
<1>4. q \in Nat /\ 2 * (Scale * q) <= 2 * d + Scale
  BY <1>2, HalfEvenBounds, HalfEvenNear
<1> HIDE DEF q
<1>5. (2 * (Scale * q)) * b <= (2 * d + Scale) * b
  BY <1>2, <1>4, ScaleAssumption
<1>6. /\ (2 * (Scale * q)) * b = (2 * (q * b)) * Scale
      /\ (2 * d + Scale) * b = 2 * (b * d) + b * Scale
  BY <1>2, <1>4, ScaleAssumption
<1>7. (2 * (q * b)) * Scale <= (2 * (a * Scale) + b) * Scale
  <2>1. (2 * (a * Scale) + b) * Scale = 2 * n + b * Scale
    BY <1>1, ScaleAssumption
  <2> DEFINE u == b * d
             v == b * Scale
  <2>2. u \in Nat /\ v \in Nat /\ u <= n
    BY <1>2, ScaleAssumption
  <2>3. (2 * (q * b)) * Scale <= 2 * u + v
    BY <1>5, <1>6
  <2>4. (2 * (q * b)) * Scale \in Nat
    BY <1>4, ScaleAssumption
  <2> HIDE DEF u, v
  <2>5. 2 * u + v <= 2 * n + v
    BY <1>1, <2>2
  <2>6. (2 * (q * b)) * Scale <= 2 * n + v
    BY <1>1, <2>2, <2>3, <2>4, <2>5
  <2> QED
    BY <2>1, <2>6 DEF v
<1>8. 2 * (q * b) \in Nat /\ 2 * (a * Scale) + b \in Nat
  BY <1>1, <1>4
<1>9. 2 * (q * b) <= 2 * (a * Scale) + b
  <2> DEFINE x == 2 * (q * b)
             y == 2 * (a * Scale) + b
  <2>1. x \in Nat /\ y \in Nat /\ x * Scale <= y * Scale
    BY <1>7, <1>8
  <2> HIDE DEF x, y
  <2>2. x <= y
    BY <2>1, ScaleAssumption
  <2> QED
    BY <2>2 DEF x, y
<1> QED
  BY <1>3, <1>9

\* A quotient is below the exact value by little more than half a unit: half
\* to even of a quotient that is truncated at twice the precision.
LEMMA QuoNearBelow ==
  ASSUME NEW a \in Nat, NEW b \in Nat, b > 0
  PROVE  2 * (Scale * (a * Scale)) + 2
           <= 2 * (Scale * (Quo(a, b) * b)) + Scale * b + 2 * b
<1> DEFINE n == a * Scale * Scale
           d == n \div b
           r == n % b
           q == HalfEven(d)
<1>1. n \in Nat /\ n = Scale * (a * Scale)
  BY ScaleAssumption
<1> HIDE DEF n
<1>2. d \in Nat /\ r \in Nat /\ r < b /\ n = b * d + r
  BY <1>1, DivMod
<1>3. Quo(a, b) = q
  BY <1>2 DEF Quo, ChopRound, n
<1> HIDE DEF d, r
<1>4. q \in Nat /\ 2 * d <= 2 * (Scale * q) + Scale
  BY <1>2, HalfEvenBounds, HalfEvenNear
<1> HIDE DEF q
<1>5. b * (2 * d) <= b * (2 * (Scale * q) + Scale)
  BY <1>2, <1>4, ScaleAssumption
<1>6. /\ b * (2 * d) = 2 * (b * d)
      /\ b * (2 * (Scale * q) + Scale) = 2 * (Scale * (q * b)) + Scale * b
  BY <1>2, <1>4, ScaleAssumption
<1> DEFINE u == b * d
           v == Scale * (q * b)
           w == Scale * b
<1>7. u \in Nat /\ v \in Nat /\ w \in Nat
  BY <1>2, <1>4, ScaleAssumption
<1>8. 2 * u <= 2 * v + w /\ n = u + r
  BY <1>2, <1>5, <1>6
<1> HIDE DEF u, v, w
<1>9. 2 * n + 2 <= 2 * v + w + 2 * b
  BY <1>1, <1>2, <1>7, <1>8
<1> QED
  BY <1>1, <1>3, <1>9 DEF v, w

\* Rounding up to whole coins.
LEMMA CeilType ==
  ASSUME NEW a \in Nat
  PROVE  CeilInt(a) \in Nat /\ (a > 0 => CeilInt(a) > 0)
BY ScaleAssumption DEF CeilInt

-----------------------------------------------------------------------------
(* Decimals of either sign.                                                *)

LEMMA ChopType ==
  ASSUME NEW a \in Int
  PROVE  ChopRound(a) \in Int
<1>1. CASE a < 0
  <2>1. -a \in Nat
    BY <1>1
  <2>2. HalfEven(-a) \in Nat
    BY <2>1, HalfEvenBounds
  <2> QED
    BY <1>1, <2>2 DEF ChopRound
<1>2. CASE a >= 0
  <2>1. a \in Nat
    BY <1>2
  <2>2. HalfEven(a) \in Nat
    BY <2>1, HalfEvenBounds
  <2> QED
    BY <1>2, <2>2 DEF ChopRound
<1> QED
  BY <1>1, <1>2

LEMMA IntTypes ==
  ASSUME NEW a \in Int
  PROVE  RoundInt(a) \in Int /\ TruncateInt(a) \in Int /\ ToDec(a) \in Int
<1>1. TruncateInt(a) \in Int
  BY ScaleAssumption DEF TruncateInt
<1>2. ToDec(a) \in Int
  BY ScaleAssumption DEF ToDec
<1> QED
  BY <1>1, <1>2, ChopType DEF RoundInt

LEMMA MulInt ==
  ASSUME NEW a \in Int, NEW b \in Int
  PROVE  Mul(a, b) \in Int
<1>1. a * b \in Int
  OBVIOUS
<1> QED
  BY <1>1, ChopType DEF Mul

LEMMA ToDecNat ==
  ASSUME NEW a \in Nat
  PROVE  ToDec(a) \in Nat /\ (a > 0 => ToDec(a) >= Scale)
BY ScaleAssumption DEF ToDec

LEMMA QuoInt ==
  ASSUME NEW a \in Int, NEW b \in Nat, b > 0
  PROVE  Quo(a, b) \in Int
<1>1. CASE a >= 0
  <2>1. a \in Nat
    BY <1>1
  <2> QED
    BY <2>1, QuoType
<1>2. CASE a < 0
  <2> DEFINE n == (-a) * Scale * Scale
  <2>1. n \in Nat
    <3>1. -a \in Nat
      BY <1>2
    <3> QED
      BY <3>1, ScaleAssumption
  <2> HIDE DEF n
  <2>2. n \div b \in Int
    BY <2>1
  <2>3. ChopRound(n \div b) \in Int
    BY <2>2, ChopType
  <2> QED
    BY <1>2, <2>3 DEF Quo, n
<1> QED
  BY <1>1, <1>2

LEMMA MinDecType ==
  ASSUME NEW a \in Int, NEW b \in Int
  PROVE  MinDec(a, b) \in Int /\ MinDec(a, b) <= a /\ MinDec(a, b) <= b
BY DEF MinDec

\* An inverse that is not zero has an inverse that is not zero.
LEMMA InversePositive ==
  ASSUME NEW r \in Nat, r > 0, Quo(Scale, r) > 0
  PROVE  /\ Quo(Scale, r) \in Nat
         /\ Quo(Scale, Quo(Scale, r)) \in Nat
         /\ Quo(Scale, Quo(Scale, r)) > 0
<1> DEFINE q == Quo(Scale, r)
           n == Scale * Scale * Scale
<1>1. Scale \in Nat /\ Scale > 0 /\ n \in Nat
  BY ScaleAssumption
<1>2. q \in Nat /\ q > 0
  BY <1>1, QuoType
<1>3. q <= Scale * Scale
  <2>1. Scale * Scale \in Nat /\ n = (Scale * Scale) * Scale
    BY <1>1
  <2>2. n \div r \in Nat /\ n \div r <= n
    <3> HIDE DEF n
    <3>1. n < (n + 1) * r
      BY <1>1
    <3> QED
      BY <1>1, <3>1, DivBelow, DivMod
  <2>3. q = HalfEven(n \div r)
    BY <1>1, <2>2 DEF Quo, ChopRound
  <2> DEFINE m == Scale * Scale
             k == n \div r
  <2>4. m \in Nat /\ k \in Nat /\ k <= m * Scale
    BY <2>1, <2>2
  <2>5. HalfEven(k) <= m
    <3> HIDE DEF m, k
    <3> QED
      BY <2>4, HalfEvenBelow
  <2> QED
    BY <2>3, <2>5
<1> HIDE DEF q
<1>4. Scale * q <= n
  <2> DEFINE m == Scale * Scale
  <2>1. m \in Nat /\ q <= m /\ n = Scale * m
    BY <1>1, <1>3
  <2>2. Scale * q <= Scale * m
    <3> HIDE DEF m
    <3> QED
      BY <1>1, <1>2, <2>1
  <2> QED
    BY <2>1, <2>2
<1> HIDE DEF n
<1>5. Scale <= n \div q /\ n \div q \in Nat
  BY <1>1, <1>2, <1>4, DivAbove, DivMod
<1>6. 1 <= HalfEven(n \div q) /\ HalfEven(n \div q) \in Nat
  <2> DEFINE k == n \div q
  <2>1. k \in Nat /\ Scale <= k
    BY <1>5
  <2> HIDE DEF k
  <2>2. 1 <= k \div Scale
    BY <1>1, <2>1, DivAbove
  <2>3. HalfEven(k) \in Nat /\ k \div Scale <= HalfEven(k) /\ k \div Scale \in Nat
    BY <1>1, <2>1, HalfEvenBounds, DivMod
  <2> QED
    BY <2>2, <2>3 DEF k
<1>7. Quo(Scale, q) = HalfEven(n \div q)
  BY <1>1, <1>5 DEF Quo, ChopRound, n
<1> QED
  BY <1>2, <1>6, <1>7 DEF q

\* A share that the decimals cannot express: the whole is larger than the part
\* by almost 2 * Scale.
LEMMA QuoZero ==
  ASSUME NEW a \in Nat, NEW b \in Nat, b > 0, Quo(ToDec(a), ToDec(b)) = 0
  PROVE  b > (2 * Scale - 4) * a
<1> DEFINE n == ToDec(a) * Scale * Scale
           t == ToDec(b)
           d == n \div t
           w == a * Scale
<1>1. /\ Scale \in Nat /\ Scale >= 2
      /\ w \in Nat /\ n \in Nat /\ n = ((w * Scale) * Scale)
      /\ t \in Nat /\ t > 0 /\ t = b * Scale
  BY ScaleAssumption DEF ToDec
<1>2. Quo(ToDec(a), ToDec(b)) = HalfEven(d)
  <2>1. d \in Nat
    BY <1>1, DivMod
  <2>2. ToDec(a) \in Nat
    BY ScaleAssumption DEF ToDec
  <2> QED
    BY <2>1, <2>2 DEF Quo, ChopRound
<1> HIDE DEF n, t
<1>3. d \in Nat /\ n < t * d + t
  BY <1>1, DivMod
<1> HIDE DEF d
<1>4. 2 * d <= Scale
  <2>1. 2 * d <= 2 * (Scale * HalfEven(d)) + Scale
    BY <1>3, HalfEvenNear
  <2>2. HalfEven(d) = 0
    BY <1>2
  <2> QED
    BY <1>1, <1>3, <2>1, <2>2
<1>5. (w * Scale) * Scale < (b * (d + 1)) * Scale
  <2>1. t * d + t = (b * (d + 1)) * Scale
    BY <1>1, <1>3
  <2> QED
    BY <1>1, <1>3, <2>1
<1>6. w * Scale < b * (d + 1)
  <2> DEFINE x == w * Scale
             y == b * (d + 1)
  <2>1. x \in Nat /\ y \in Nat /\ x * Scale < y * Scale
    BY <1>1, <1>3, <1>5
  <2> HIDE DEF x, y
  <2>2. ASSUME y <= x PROVE FALSE
    <3>1. y * Scale <= x * Scale
      BY <1>1, <2>1, <2>2
    <3> QED
      BY <1>1, <2>1, <3>1
  <2>3. x < y
    BY <2>1, <2>2
  <2> QED
    BY <2>3 DEF x, y
<1>7. b * (2 * (d + 1)) <= b * (Scale + 2)
  BY <1>1, <1>3, <1>4
<1>8. 2 * (w * Scale) < b * (Scale + 2)
  <2>1. b * (2 * (d + 1)) = 2 * (b * (d + 1)) /\ b * (d + 1) \in Nat
    BY <1>3
  <2>2. w * Scale \in Nat /\ b * (Scale + 2) \in Nat
    BY <1>1
  <2> QED
    BY <1>6, <1>7, <2>1, <2>2
<1>9. ASSUME b <= (2 * Scale - 4) * a PROVE FALSE
  <2> DEFINE c == (2 * Scale - 4) * a
  <2>1. c \in Nat /\ b <= c
    BY <1>1, <1>9
  <2>2. b * (Scale + 2) <= c * (Scale + 2)
    <3> HIDE DEF c
    <3> QED
      BY <1>1, <2>1
  <2>3. c * (Scale + 2) = 2 * (w * Scale) - 8 * a
    BY <1>1
  <2>4. w * Scale \in Nat /\ b * (Scale + 2) \in Nat /\ c * (Scale + 2) \in Int
    BY <1>1, <2>1
  <2> QED
    BY <1>8, <2>2, <2>3, <2>4
<1> QED
  BY <1>1, <1>9

\* A product with at least one keeps a decimal above zero.
LEMMA MulPositive ==
  ASSUME NEW a \in Nat, Scale <= a, NEW b \in Nat, b > 0
  PROVE  Mul(a, b) > 0
<1>1. a * b \in Nat /\ Scale * 1 <= a * b
  <2>1. Scale * 1 <= a * 1 /\ a * 1 <= a * b
    BY ScaleAssumption
  <2> QED
    BY <2>1, ScaleAssumption
<1>2. HalfEven(1 * Scale) = 1 /\ HalfEven(1 * Scale) <= HalfEven(a * b)
  BY <1>1, HalfEvenExact, HalfEvenMonotone, ScaleAssumption
<1>3. HalfEven(a * b) \in Nat
  BY <1>1, HalfEvenBounds
<1> QED
  BY <1>1, <1>2, <1>3 DEF Mul, ChopRound
=============================================================================
